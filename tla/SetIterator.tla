---------------------------- MODULE SetIterator ----------------------------
(***************************************************************************)
(* The framework's set iterator (framework/core/output/module/inst/        *)
(* iterator_inst_set.go): NewIteratorInstSet, Next and ForEach, paging     *)
(* the set collection with SearchSets(cond) at offset bufIdx and limit     *)
(* DefaultLimit (PageSize here).                                           *)
(*                                                                         *)
(* The collection is the variable store, an instance id -> document        *)
(* function that a composing specification writes: sets are created and   *)
(* deleted between the iterator's pages.  The iterator only reads it.  The *)
(* condition selects every set, and a search returns the ids in insertion  *)
(* order, which is id order since ids come from an increasing sequence.  A *)
(* buffered item is its instance id: the document copy the code keeps is   *)
(* not looked at by any property.  SearchSets (not in the repository) may  *)
(* fail, and the ForEach callback is the caller's and may return an error. *)
(***************************************************************************)
EXTENDS Integers, Sequences, FiniteSets, SequencesExt

CONSTANTS
    PageSize,       \* DefaultLimit
    MaxForEach,     \* bound on the ForEach calls of the one iterator
    SearchMayFail   \* SearchSets may return an error

VARIABLES
    store,          \* the set collection (written elsewhere)
    buffer,         \* iteratorInstSet.buffer
    bufIdx,         \* iteratorInstSet.bufIdx
    itPc,           \* "none" (not built), "idle" (between calls), "loop"
                    \* (inside ForEach)
    from,           \* bufIdx when the current ForEach began
    resumed,        \* the ForEach before it ended with an error
    lastEnd,        \* how the last ForEach ended: "none", "eof", "error"
    visited,        \* ids the current ForEach handed to its callback
    begun,          \* the ids in the collection when it began
    calls           \* ForEach calls so far

itVars == <<buffer, bufIdx, itPc, from, resumed, lastEnd, visited, begun, calls>>

\* SearchSets with start and limit: the ids of the page at offset start
SearchSets(start) ==
    LET ids == SetToSortSeq(DOMAIN store, <)
    IN SubSeq(ids, start + 1, IF start + PageSize < Len(ids) THEN start + PageSize
                                                             ELSE Len(ids))

\* whether a search fails
SearchErr == IF SearchMayFail THEN BOOLEAN ELSE {FALSE}

ItInit ==
    /\ buffer = <<>> /\ bufIdx = 0
    /\ itPc = "none" /\ from = 0 /\ resumed = FALSE
    /\ lastEnd = "none" /\ visited = <<>> /\ begun = {} /\ calls = 0

(***************************************************************************)
(* NewIteratorInstSet: the first page at offset 0 fills the buffer; a      *)
(* failed search returns no iterator, and the caller may build another.   *)
(***************************************************************************)
NewIteratorInstSet ==
    /\ itPc = "none"
    /\ \E err \in SearchErr :
         \/ err /\ UNCHANGED itVars
         \/ ~err /\ buffer' = SearchSets(0) /\ itPc' = "idle"
                         /\ UNCHANGED <<bufIdx, from, resumed, lastEnd, visited, begun, calls>>

\* ForEach is called on the iterator as it was left by the last call
ForEachBegin ==
    /\ itPc = "idle"
    /\ calls < MaxForEach
    /\ itPc' = "loop"
    /\ from' = bufIdx
    /\ resumed' = (lastEnd = "error")
    /\ visited' = <<>>
    /\ begun' = DOMAIN store
    /\ calls' = calls + 1
    /\ UNCHANGED <<buffer, bufIdx, lastEnd>>

\* ForEach ends, returning nil on io.EOF or the error
EndForEach(how) == itPc' = "idle" /\ lastEnd' = how

\* the item at bufIdx is taken and handed to the callback, which may fail
Deliver(buf) ==
    /\ bufIdx' = bufIdx + 1
    /\ visited' = Append(visited, buf[bufIdx + 1])
    /\ \/ UNCHANGED <<itPc, lastEnd>>
       \/ EndForEach("error")

\* mutant: the next page is searched from the offset before bufIdx
NextRepeat ==
    /\ itPc = "loop"
    /\ \/ /\ Len(buffer) # bufIdx
          /\ Deliver(buffer) /\ UNCHANGED buffer
       \/ /\ Len(buffer) = bufIdx
          /\ \E err \in SearchErr :
               LET page == SearchSets(IF bufIdx > 0 THEN bufIdx - 1 ELSE 0) IN
               \/ err /\ EndForEach("error") /\ UNCHANGED <<buffer, bufIdx, visited>>
               \/ ~err /\ page = <<>> /\ bufIdx' = 0 /\ EndForEach("eof")
                       /\ UNCHANGED <<buffer, visited>>
               \/ ~err /\ page # <<>> /\ buffer' = buffer \o page /\ Deliver(buffer \o page)
    /\ UNCHANGED <<from, resumed, begun, calls>>

(***************************************************************************)
(* One turn of ForEach's loop: Next, then the callback.  Next searches a   *)
(* new page at offset bufIdx when the buffer is used up: an error ends     *)
(* ForEach with it, an empty page resets bufIdx to 0 (not the buffer) and  *)
(* is io.EOF, and a page is appended.  The item at bufIdx is returned and  *)
(* bufIdx advanced.                                                        *)
(***************************************************************************)
Next ==
    /\ itPc = "loop"
    /\ \/ /\ Len(buffer) # bufIdx
          /\ Deliver(buffer) /\ UNCHANGED buffer
       \/ /\ Len(buffer) = bufIdx
          /\ \E err \in SearchErr :
               LET page == SearchSets(bufIdx) IN
               \/ err /\ EndForEach("error") /\ UNCHANGED <<buffer, bufIdx, visited>>
               \/ ~err /\ page = <<>> /\ bufIdx' = 0 /\ EndForEach("eof")
                       /\ UNCHANGED <<buffer, visited>>
               \/ ~err /\ page # <<>> /\ buffer' = buffer \o page /\ Deliver(buffer \o page)
    /\ UNCHANGED <<from, resumed, begun, calls>>

ItNext == NewIteratorInstSet \/ ForEachBegin \/ Next

ItTypeOK ==
    /\ buffer \in Seq(Nat \ {0}) /\ bufIdx \in 0..Len(buffer)
    /\ itPc \in {"none", "idle", "loop"}
    /\ lastEnd \in {"none", "eof", "error"}
    /\ resumed \in BOOLEAN /\ from \in Nat
    /\ visited \in Seq(Nat \ {0}) /\ begun \subseteq Nat \ {0}
    /\ calls \in 0..MaxForEach

(***************************************************************************)
(* One ForEach hands its callback each set at most once and in increasing  *)
(* id order, although sets are created and deleted between its pages and  *)
(* it may start on the buffer an earlier ForEach left: a deletion moves   *)
(* later sets down to lower offsets, never a set already buffered up to   *)
(* the offset bufIdx the next search starts at.                           *)
(***************************************************************************)
ForEachOnceInOrder ==
    \A k \in 1..Len(visited) - 1 : visited[k] < visited[k + 1]

(***************************************************************************)
(* A ForEach that starts at the first set (the one before it did not end   *)
(* with an error) and returns nil at io.EOF has handed its callback every  *)
(* set that was in the collection both when it began and when it ended.  *)
(***************************************************************************)
ForEachSeesSurvivors ==
    [][itPc = "loop" /\ itPc' = "idle" /\ lastEnd' = "eof" /\ ~resumed =>
         begun \cap DOMAIN store \subseteq ToSet(visited)]_<<itVars, store>>
====
