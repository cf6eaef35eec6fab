------------------------------ MODULE MCPages ------------------------------
(* What one viewer page does over several runs.  Its keys (DevInput) and its *)
(* pictures (FrameDelivery) share no state, so each is explored while the    *)
(* other rests in its initial state: focus says which one a behaviour is     *)
(* about.                                                                    *)
EXTENDS DevInput, FrameDelivery

VARIABLE focus

pagesVars == <<vars, deliveryVars, focus>>

Typing(action) == focus = "input" /\ action /\ UNCHANGED <<deliveryVars, focus>>
Looking(action) == focus = "pictures" /\ action /\ UNCHANGED <<vars, focus>>

PagesInit == Init /\ DeliveryInit /\ focus \in {"input", "pictures"}
PagesNext == Typing(Next) \/ Looking(DeliveryNext)

(* The conditions of Fairness and DeliveryFairness.  Only one side of a      *)
(* behaviour ever moves, so a condition on an action of either side may be   *)
(* stated together with one of the other: half as many conditions to check.  *)
PagesFairness ==
    /\ WF_pagesVars(Typing(WatchdogPoll))
    /\ WF_pagesVars(Typing(GameBeginsFrame)) /\ WF_pagesVars(Typing(GameUpdates))
    /\ WF_pagesVars(Typing(AcceptGame)) /\ WF_pagesVars(Typing(ReceiverEnds))
    /\ WF_pagesVars(Typing(GameStopped))
    /\ \A c \in Clients, v \in Viewers :
         /\ SF_pagesVars(Typing(HandleInput(c)) \/ Looking(AnswerNews(v)))
         /\ SF_pagesVars(Typing(HandleBeacon(c)) \/ Looking(ReadHeaders(v)))
         /\ SF_pagesVars(Typing(GameReceives) \/ Looking(DrawPicture(v)))
         /\ WF_pagesVars(Typing(SilentOwnerAges) \/ Looking(AskFrame(v)))
         /\ WF_pagesVars(Typing(StoppedGameExits) \/ Looking(AnswerTimeout(v)))
         /\ WF_pagesVars(Looking(ShowState(v)))

PagesSpec == PagesInit /\ [][PagesNext]_pagesVars /\ PagesFairness
=============================================================================
