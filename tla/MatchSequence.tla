---------------------------- MODULE MatchSequence ----------------------------
(* What an iterator over matches promises, whoever asks for the next one: the  *)
(* matches of the subject, each once, in order, and then its end for good.     *)
EXTENDS Naturals, Sequences

VARIABLES
  all,      \* the matches there are, as spans
  yielded,  \* those handed out so far
  over      \* the end has been reached

Init == yielded = <<>> /\ (over => all = <<>>)

Yield ==
  /\ ~over /\ Len(yielded) < Len(all)
  /\ yielded' = Append(yielded, all[Len(yielded) + 1])
  /\ UNCHANGED <<all, over>>

End ==
  /\ yielded = all
  /\ over' = TRUE
  /\ UNCHANGED <<all, yielded>>

Next == Yield \/ End

Spec == Init /\ [][Next]_<<all, yielded, over>>
==============================================================================
