------------------------------ MODULE SlotText -------------------------------
(* The text a load finds in a slot's file (runtime/crumb/storage.c): what    *)
(* save wrote for some integer, or what another program or an edit put       *)
(* there.                                                                    *)
EXTENDS Storage

CONSTANT ForeignTexts   \* texts that some other hand may leave in a slot

ASSUME TextsAssumption == ForeignTexts \subseteq Seq(Nat)

VARIABLES slotText,  \* the contents of the file
          saved      \* the integer they were written for, None for a foreign text

textVars == <<slotText, saved>>

Integer32 == (-Magnitude)..(Magnitude - 1)

TextSaved == saved \in Integer32 /\ slotText = Contents(saved)
TextForeign == saved = None /\ slotText \in ForeignTexts

(* A load reads a text and changes nothing. *)
TextInit == TextSaved \/ TextForeign
TextSpec == TextInit /\ [][FALSE]_textVars

(* crumb_storage_parse_i32 reads back every integer that save formats, the   *)
(* two extreme ones included, and accepts no other text: a number that does  *)
(* not fit, a leading zero, "-0", a missing newline are all malformed.       *)
ParseIsStrict ==
    /\ saved # None => Parse(slotText) = saved
    /\ Parse(slotText) # None =>
          Parse(slotText) \in Integer32 /\ slotText = Contents(Parse(slotText))
=============================================================================
