-------------------------------- MODULE MCParts -------------------------------
(* Five parts of the extension that share no state, in one run: a behaviour is *)
(* one of a text, a substitution, calls under the locks, reads of the fields   *)
(* of matches, or imports, and the variables of the other parts stand still.   *)
EXTENDS Texts, Substitution, Locks, MatchFields, Runtime

VARIABLE part

\* One group or two; a name for each, one name for both, none that took part.
Named(n, g) == [name |-> <<n>>, group |-> g]
MCMatches ==
  {[value |-> (0 :> <<"W">>) @@ (1 :> <<"V">>), names |-> <<Named("n", 1)>>],
   [value |-> (0 :> <<"W">>) @@ (1 :> Unset) @@ (2 :> <<"V">>), names |-> <<Named("n", 1), Named("n", 2)>>],
   [value |-> (0 :> <<"W">>) @@ (1 :> Unset), names |-> <<>>]}

MCTemplateFragments ==
  {<<"\\">>, <<"\\", "1">>, <<"\\", "g", "<">>, <<"1">>, <<"0">>, <<"7">>, <<"n">>, <<">">>, <<"$">>}
MCPatternFragments ==
  {<<"\\">>, <<"u">>, <<"U">>, <<"h", "h", "h", "h">>, <<"H", "h", "h", "h">>, <<"h">>,
   <<"(">>, <<"?", "#">>, <<")">>}
MCCounts == {-1, 0, 1, 2, 3, 9}

NoText         == TextInit /\ role = "template"
NoSubstitution ==
  /\ call = [subject |-> 0, matches |-> <<>>, group |-> 0, literal |-> 0, shape |-> "LITERAL", count |-> 0]
  /\ SubstitutionInit
NoFields       == MatchFieldsInit /\ took = [m \in Snapshots |-> <<>>]
NoLocks ==
  /\ interpreter = NoThread /\ iterator = NoThread /\ guard = NoThread
  /\ serial = FALSE /\ jit = FALSE
  /\ pc = [t \in Threads |-> "done"] /\ at = [t \in Threads |-> NoCall] /\ calls = 0

Init ==
  \/ part = "text" /\ TextInit /\ NoSubstitution /\ NoLocks /\ NoFields /\ RuntimeInit
  \/ part = "substitution" /\ SubstitutionInit /\ NoText /\ NoLocks /\ NoFields /\ RuntimeInit
  \/ part = "locks" /\ LocksInit /\ NoText /\ NoSubstitution /\ NoFields /\ RuntimeInit
  \/ part = "fields" /\ MatchFieldsInit /\ NoText /\ NoSubstitution /\ NoLocks /\ RuntimeInit
  \/ part = "imports" /\ RuntimeInit /\ NoText /\ NoSubstitution /\ NoLocks /\ NoFields

Next ==
  /\ UNCHANGED part
  /\ \/ part = "text" /\ TextNext /\ UNCHANGED <<subVars, lockVars, fieldVars, runtimeVars>>
     \/ part = "substitution" /\ SubstitutionNext /\ UNCHANGED <<textVars, lockVars, fieldVars, runtimeVars>>
     \/ part = "locks" /\ LocksNext /\ UNCHANGED <<textVars, subVars, fieldVars, runtimeVars>>
     \/ part = "fields" /\ MatchFieldsNext /\ UNCHANGED <<textVars, subVars, lockVars, runtimeVars>>
     \/ part = "imports" /\ RuntimeNext /\ UNCHANGED <<textVars, subVars, lockVars, fieldVars>>

Spec == Init /\ [][Next]_<<part, textVars, subVars, lockVars, fieldVars, runtimeVars>> /\ LocksFairness
==============================================================================
