---------------------------- MODULE CrumbInput ----------------------------
(***************************************************************************)
(* The key state of a game process (runtime/crumb/input.c): which keys are *)
(* held, and which went down or came up since the frame began.  The three  *)
(* byte arrays of the C file are the three sets of an input record.        *)
(***************************************************************************)

CONSTANT Keys        \* the catalog of runtime/crumb/keys.def

InputStates == [down : SUBSET Keys, pressed : SUBSET Keys, released : SUBSET Keys]

\* crumb_input_reset: a process starts with every key up and no edge.
InputReset == [down |-> {}, pressed |-> {}, released |-> {}]

\* crumb_input_begin_frame: the edges of the previous frame are forgotten.
InputBeginFrame(s) == [s EXCEPT !.pressed = {}, !.released = {}]

\* Deviation: every press is an edge, the key's repeats included.
SetKeyDownAlways(s, k) == [s EXCEPT !.down = @ \cup {k}, !.pressed = @ \cup {k}]

\* crumb_input_set_key: only a change of the held state sets an edge.
SetKeyDown(s, k) ==
    IF k \in s.down THEN s
    ELSE [s EXCEPT !.down = @ \cup {k}, !.pressed = @ \cup {k}]

SetKeyUp(s, k) ==
    IF k \notin s.down THEN s
    ELSE [s EXCEPT !.down = @ \ {k}, !.released = @ \cup {k}]

\* crumb_input_release_all: crumb_input_set_key(key, 0) for every key.
InputReleaseAll(s) == [s EXCEPT !.down = {}, !.released = @ \cup s.down]

=============================================================================
