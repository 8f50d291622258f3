-------------------------- MODULE InstanceSetReads --------------------------
(***************************************************************************)
(* The set collection written and read at once: the create, update and     *)
(* delete requests of InstanceUnique (the object is bk_set) write the      *)
(* collection that one SetIterator pages through.  Each step is a step of  *)
(* one of the two; the iterator's searches see every write made before     *)
(* them.                                                                   *)
(***************************************************************************)
EXTENDS InstanceUnique

CONSTANTS PageSize, MaxForEach, SearchMayFail

VARIABLES buffer, bufIdx, itPc, from, resumed, lastEnd, visited, begun, calls

SI == INSTANCE SetIterator

itVars == <<buffer, bufIdx, itPc, from, resumed, lastEnd, visited, begun, calls>>

allVars == <<vars, itVars>>

ReadsInit == Init /\ SI!ItInit

ReadsNext ==
    \/ Next /\ UNCHANGED itVars
    \/ SI!ItNext /\ UNCHANGED vars

ReadsSpec == ReadsInit /\ [][ReadsNext]_allVars

ReadsTypeOK == TypeOK /\ SI!ItTypeOK

\* SetIterator's ForEachOnceInOrder while requests create, update and
\* delete sets between the iterator's pages.
ForEachOnceInOrder == SI!ForEachOnceInOrder

\* SetIterator's ForEachSeesSurvivors while requests create, update and
\* delete sets between the iterator's pages.
ForEachSeesSurvivors == SI!ForEachSeesSurvivors
====
