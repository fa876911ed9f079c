------------------------ MODULE CypherResourceProofs ------------------------
(***************************************************************************)
(* Proofs about the resource manager, for every number of records, types,  *)
(* keys and references, every hash and every bound on the generations.     *)
(*                                                                         *)
(* TypeOK alone is not inductive: Pop and the record of a callback need    *)
(* the call stack to match the states of the records, the record taken     *)
(* from the free list must be EMPTY, and an identity must lead back to its *)
(* record when RemoveLookup clears it.  Managing is the conjunction that   *)
(* is: the type invariant, CallbacksOwnTheirRecord, LoaderEntriesStable,   *)
(* the exact contents of the two lists, and the identity index.            *)
(*                                                                         *)
(* The proof of Managing has four layers: what each operation does to a    *)
(* sequence; what starting, returning from and recycling after a callback  *)
(* does to the tables; one lemma per action; and the theorems.             *)
(*                                                                         *)
(* On top of it come what the manager owes those who hold references, and  *)
(* the promise it makes for each asset.  Holding is the invariant over     *)
(* references.  That the counts are right needs each load in progress to   *)
(* have a free reference of its own to grant, and that dependencies outlive*)
(* their users in a shutdown needs the list of published records to name a *)
(* dependency before the payload that acquired it.  Ageing is the one over *)
(* handles: how far the generation of a slot has moved since a handle was  *)
(* made.  What Res_Acquire answers and how the tables are used follow from *)
(* Managing.                                                               *)
(*                                                                         *)
(* The last part shows that the manager implements ResourcePromise, one key*)
(* at a time: an action changes the record of one slot, and by Managing one*)
(* key is seen through that slot, so the other keys look the same.  Holding*)
(* says what the change looks like to those who share the key: that a new  *)
(* payload has no holder but the one who asked for it, and that the count is*)
(* one exactly when the last sharer leaves.                                *)
(***************************************************************************)
EXTENDS CypherResource, SequenceTheorems, FiniteSetTheorems, TLAPS

-----------------------------------------------------------------------------
(* Sequences. *)

\* What a list names, and that it names nothing twice.
Members(list) == {list[i] : i \in DOMAIN list}
Injective(list) == \A i, j \in DOMAIN list : list[i] = list[j] => i = j

\* One element more at the end: a callback frame or a published record.
LEMMA AppendedSeq ==
  ASSUME NEW S, NEW seq \in Seq(S), NEW e \in S
  PROVE  /\ Append(seq, e) \in Seq(S)
         /\ Len(Append(seq, e)) = Len(seq) + 1
         /\ DOMAIN Append(seq, e) = 1 .. Len(seq) + 1
         /\ \A i \in 1 .. Len(seq) : Append(seq, e)[i] = seq[i]
         /\ Append(seq, e)[Len(seq) + 1] = e
  OBVIOUS

\* One element less at the end: a callback that returned.
LEMMA PoppedSeq ==
  ASSUME NEW S, NEW seq \in Seq(S), seq # <<>>
  PROVE  LET pop == SubSeq(seq, 1, Len(seq) - 1)
         IN  /\ pop \in Seq(S)
             /\ Len(seq) \in Nat \ {0} /\ Len(pop) = Len(seq) - 1
             /\ DOMAIN pop = 1 .. Len(seq) - 1
             /\ \A i \in 1 .. Len(seq) - 1 : pop[i] = seq[i]
<1>1. Len(seq) \in Nat \ {0} /\ seq \in [1 .. Len(seq) -> S]
  BY EmptySeq, LenProperties
<1>2. \A i \in 1 .. Len(seq) - 1 : seq[i] \in S
  BY <1>1
<1> QED
  BY <1>1, <1>2, SubSeqProperties, LenProperties

\* An array from which one element is taken out.
LEMMA RemovedSeq ==
  ASSUME NEW S, NEW seq \in Seq(S), NEW k \in DOMAIN seq
  PROVE  /\ RemoveAt(seq, k) \in Seq(S)
         /\ Len(RemoveAt(seq, k)) = Len(seq) - 1
         /\ DOMAIN RemoveAt(seq, k) = 1 .. Len(seq) - 1
         /\ \A j \in 1 .. Len(seq) - 1 :
              RemoveAt(seq, k)[j] = IF j < k THEN seq[j] ELSE seq[j + 1]
<1>1. Len(seq) \in Nat /\ k \in 1 .. Len(seq) /\ \A i \in 1 .. Len(seq) : seq[i] \in S
  BY LenProperties
<1>2. Len(seq) - 1 \in Nat
  BY <1>1
<1>3. \A j \in 1 .. Len(seq) - 1 : (IF j < k THEN seq[j] ELSE seq[j + 1]) \in S
  BY <1>1
<1>4. RemoveAt(seq, k) \in Seq(S) /\ Len(RemoveAt(seq, k)) = Len(seq) - 1
  BY <1>2, <1>3 DEF RemoveAt
<1> QED
  BY <1>2, <1>4 DEF RemoveAt

\* The list of published records grows at its end.
LEMMA AppendedList ==
  ASSUME NEW S, NEW list \in Seq(S), NEW e \in S, Injective(list),
         e \notin Members(list)
  PROVE  /\ Append(list, e) \in Seq(S) /\ Injective(Append(list, e))
         /\ Members(Append(list, e)) = Members(list) \union {e}
<1>1. DOMAIN list = 1 .. Len(list) /\ Len(list) \in Nat
  OBVIOUS
<1>2. DOMAIN Append(list, e) = DOMAIN list \union {Len(list) + 1}
  BY <1>1, AppendedSeq
<1>3. /\ \A i \in DOMAIN list : Append(list, e)[i] = list[i]
      /\ Append(list, e)[Len(list) + 1] = e
      /\ Len(list) + 1 \notin DOMAIN list
  BY <1>1, AppendedSeq
<1> DEFINE more == Append(list, e)
           n == Len(list) + 1
<1> HIDE DEF more, n
<1> QED
  <2>1. /\ DOMAIN more = DOMAIN list \union {n} /\ more[n] = e /\ n \notin DOMAIN list
        /\ \A i \in DOMAIN list : more[i] = list[i]
    BY <1>2, <1>3 DEF more, n
  <2>2. Injective(more)
    BY <2>1 DEF Injective, Members
  <2>3. Members(more) = Members(list) \union {e}
    BY <2>1 DEF Members
  <2> QED
    BY <2>2, <2>3, AppendedSeq DEF more

\* The list of free records grows at its head.
LEMMA ConsedList ==
  ASSUME NEW S, NEW list \in Seq(S), NEW e \in S, Injective(list),
         e \notin Members(list)
  PROVE  /\ <<e>> \o list \in Seq(S) /\ Injective(<<e>> \o list)
         /\ Members(<<e>> \o list) = Members(list) \union {e}
<1> DEFINE more == <<e>> \o list
<1>1. <<e>> \in Seq(S) /\ Len(<<e>>) = 1 /\ <<e>>[1] = e
  OBVIOUS
<1>2. /\ more \in Seq(S) /\ Len(more) = Len(list) + 1
      /\ \A i \in 1 .. Len(list) + 1 :
           more[i] = IF i <= 1 THEN <<e>>[i] ELSE list[i - 1]
  BY <1>1, ConcatProperties
<1>3. DOMAIN list = 1 .. Len(list) /\ Len(list) \in Nat
  BY LenProperties
<1>4. DOMAIN more = 1 .. Len(list) + 1
  BY <1>2, LenProperties
<1> HIDE DEF more
<1>5. more[1] = e /\ \A i \in 2 .. Len(list) + 1 : more[i] = list[i - 1]
  BY <1>1, <1>2, <1>3
<1>6. \A i \in DOMAIN list : list[i] \in Members(list) /\ list[i] # e
  BY DEF Members
<1>7. Injective(more)
  <2> SUFFICES ASSUME NEW i \in DOMAIN more, NEW j \in DOMAIN more, more[i] = more[j]
               PROVE  i = j
    BY DEF Injective
  <2>1. i # 1 => i - 1 \in DOMAIN list /\ more[i] = list[i - 1]
    BY <1>3, <1>4, <1>5
  <2>2. j # 1 => j - 1 \in DOMAIN list /\ more[j] = list[j - 1]
    BY <1>3, <1>4, <1>5
  <2>3. i = 1 <=> j = 1
    BY <2>1, <2>2, <1>5, <1>6
  <2>4. i # 1 => i - 1 = j - 1
    BY <2>1, <2>2, <2>3 DEF Injective
  <2> QED
    BY <2>3, <2>4, <1>3, <1>4
<1>8. Members(more) \subseteq Members(list) \union {e}
  <2> SUFFICES ASSUME NEW i \in DOMAIN more PROVE more[i] \in Members(list) \union {e}
    BY DEF Members
  <2>1. i # 1 => i - 1 \in DOMAIN list /\ more[i] = list[i - 1]
    BY <1>3, <1>4, <1>5
  <2> QED
    BY <2>1, <1>5 DEF Members
<1>9. Members(list) \union {e} \subseteq Members(more)
  <2>1. e \in Members(more)
    BY <1>3, <1>4, <1>5 DEF Members
  <2>2. ASSUME NEW i \in DOMAIN list PROVE list[i] \in Members(more)
    <3>1. i + 1 \in DOMAIN more /\ more[i + 1] = list[i]
      BY <1>3, <1>4, <1>5
    <3> QED
      BY <3>1 DEF Members
  <2> QED
    BY <2>1, <2>2 DEF Members
<1> QED
  BY <1>2, <1>7, <1>8, <1>9 DEF more

\* The head of the list of free records is taken.
LEMMA TailedList ==
  ASSUME NEW S, NEW list \in Seq(S), Injective(list), list # <<>>
  PROVE  /\ Head(list) \in Members(list)
         /\ Tail(list) \in Seq(S) /\ Injective(Tail(list))
         /\ Members(Tail(list)) = Members(list) \ {Head(list)}
<1> DEFINE rest == Tail(list)
<1>1. /\ DOMAIN list = 1 .. Len(list) /\ Len(list) \in Nat \ {0}
      /\ Head(list) = list[1]
  <2>1. DOMAIN list = 1 .. Len(list) /\ Len(list) \in Nat \ {0}
    BY EmptySeq, LenProperties
  <2>2. Head(list) = list[1]
    BY SMT
  <2> QED
    BY <2>1, <2>2
<1>2. /\ rest \in Seq(S) /\ Len(rest) = Len(list) - 1
      /\ \A i \in 1 .. Len(rest) : rest[i] = list[i + 1]
  BY HeadTailProperties
<1>3. DOMAIN rest = 1 .. Len(list) - 1
  BY <1>2, LenProperties
<1> HIDE DEF rest
<1>4. \A i \in DOMAIN rest : i + 1 \in DOMAIN list /\ rest[i] = list[i + 1]
  BY <1>1, <1>2, <1>3
<1>5. Injective(rest)
  <2> SUFFICES ASSUME NEW i \in DOMAIN rest, NEW j \in DOMAIN rest, rest[i] = rest[j]
               PROVE  i = j
    BY DEF Injective
  <2>1. i + 1 = j + 1
    BY <1>4 DEF Injective
  <2> QED
    BY <2>1, <1>1, <1>3
<1>6. Members(rest) \subseteq Members(list) \ {Head(list)}
  <2> SUFFICES ASSUME NEW i \in DOMAIN rest
               PROVE  rest[i] \in Members(list) /\ rest[i] # Head(list)
    BY DEF Members
  <2>1. i + 1 # 1 /\ 1 \in DOMAIN list
    BY <1>1, <1>3
  <2> QED
    BY <2>1, <1>1, <1>4 DEF Members, Injective
<1>7. Members(list) \ {Head(list)} \subseteq Members(rest)
  <2> SUFFICES ASSUME NEW i \in DOMAIN list, i # 1 PROVE list[i] \in Members(rest)
    BY <1>1 DEF Members
  <2>1. i - 1 \in DOMAIN rest /\ rest[i - 1] = list[i]
    BY <1>1, <1>2, <1>3
  <2> QED
    BY <2>1 DEF Members
<1>8. Head(list) \in Members(list)
  BY <1>1 DEF Members
<1> QED
  BY <1>2, <1>5, <1>6, <1>7, <1>8 DEF rest

\* A record is taken out of the list of published records.
LEMMA WithoutList ==
  ASSUME NEW S, NEW list \in Seq(S), NEW e \in Members(list), Injective(list)
  PROVE  /\ Without(list, e) \in Seq(S) /\ Injective(Without(list, e))
         /\ Members(Without(list, e)) = Members(list) \ {e}
<1> DEFINE k == CHOOSE i \in DOMAIN list : list[i] = e
           rest == RemoveAt(list, k)
<1>1. k \in DOMAIN list /\ list[k] = e
  BY DEF Members
<1>2. Without(list, e) = rest
  BY DEF Without
<1> HIDE DEF k
<1>3. /\ rest \in Seq(S) /\ DOMAIN rest = 1 .. Len(list) - 1
      /\ \A j \in 1 .. Len(list) - 1 :
           rest[j] = IF j < k THEN list[j] ELSE list[j + 1]
  BY <1>1, RemovedSeq
<1>4. DOMAIN list = 1 .. Len(list) /\ Len(list) \in Nat
  BY LenProperties
<1> HIDE DEF rest
<1>5. \A j \in DOMAIN rest :
        \/ j < k /\ j \in DOMAIN list /\ rest[j] = list[j]
        \/ j >= k /\ j + 1 \in DOMAIN list /\ rest[j] = list[j + 1]
  BY <1>1, <1>3, <1>4
<1>6. Injective(rest)
  <2> SUFFICES ASSUME NEW i \in DOMAIN rest, NEW j \in DOMAIN rest, rest[i] = rest[j]
               PROVE  i = j
    BY DEF Injective
  <2> DEFINE Place(n) == IF n < k THEN n ELSE n + 1
  <2>1. /\ Place(i) \in DOMAIN list /\ list[Place(i)] = rest[i]
        /\ Place(j) \in DOMAIN list /\ list[Place(j)] = rest[j]
    BY <1>1, <1>3, <1>4, <1>5
  <2>2. Place(i) = Place(j)
    BY <2>1 DEF Injective
  <2> QED
    BY <2>2, <1>1, <1>3, <1>4
<1>7. Members(rest) \subseteq Members(list) \ {e}
  <2> SUFFICES ASSUME NEW j \in DOMAIN rest
               PROVE  rest[j] \in Members(list) /\ rest[j] # e
    BY DEF Members
  <2>1. PICK n \in DOMAIN list : n # k /\ rest[j] = list[n]
    BY <1>1, <1>3, <1>4, <1>5
  <2> QED
    BY <2>1, <1>1 DEF Members, Injective
<1>8. Members(list) \ {e} \subseteq Members(rest)
  <2> SUFFICES ASSUME NEW i \in DOMAIN list, i # k PROVE list[i] \in Members(rest)
    BY <1>1 DEF Members
  <2>1. PICK j \in DOMAIN rest : rest[j] = list[i]
    <3>1. CASE i < k
      BY <3>1, <1>1, <1>3, <1>4
    <3>2. CASE i > k
      <4>1. i - 1 \in DOMAIN rest /\ rest[i - 1] = list[i]
        BY <3>2, <1>1, <1>3, <1>4
      <4> QED
        BY <4>1
    <3> QED
      BY <3>1, <3>2, <1>1, <1>4
  <2> QED
    BY <2>1 DEF Members
<1> QED
  BY <1>2, <1>3, <1>6, <1>7, <1>8

-----------------------------------------------------------------------------
(* The invariant. *)

\* The free list has every record that is EMPTY once, and the live list every
\* record that is READY.
ExactList(list, st, v) ==
  Injective(list) /\ Members(list) = {s \in Slots : st[s] = v}

ListsExact ==
  ExactList(freeList, state, "EMPTY") /\ ExactList(liveList, state, "READY")

\* A record in use is found by its identity, and what is found has it.
IdentitiesExact ==
  /\ \A s \in Slots : state[s] # "EMPTY" =>
       key[s] \in Keys /\ lookup[IdOf[key[s]]] = s
  /\ \A i \in Ids : lookup[i] # NoSlot =>
       state[lookup[i]] # "EMPTY" /\ IdOf[key[lookup[i]]] = i

\* The inductive invariant.
Managing == /\ TypeOK /\ CallbacksOwnTheirRecord /\ LoaderEntriesStable
            /\ ListsExact /\ IdentitiesExact

\* The states of a record that a callback is about.
Transient == {"LOADING", "FAILED", "UNLOADING"}

\* A record enters state v and the list of v.
LEMMA ListEntered ==
  ASSUME NEW list, NEW more, NEW v, NEW w, NEW st \in [Slots -> States],
         NEW s \in Slots, ExactList(list, st, v), Injective(more),
         Members(more) = Members(list) \union {s}, w = v
  PROVE  ExactList(more, [st EXCEPT ![s] = w], v)
  BY DEF ExactList

\* A record leaves state v and the list of v.
LEMMA ListLeft ==
  ASSUME NEW list, NEW less, NEW v, NEW w, NEW st \in [Slots -> States],
         NEW s \in Slots, ExactList(list, st, v), Injective(less),
         Members(less) = Members(list) \ {s}, w # v
  PROVE  ExactList(less, [st EXCEPT ![s] = w], v)
  BY DEF ExactList

\* A record that was not in state v does not enter it.
LEMMA ListKept ==
  ASSUME NEW list, NEW v, NEW w, NEW st \in [Slots -> States],
         NEW s \in Slots, ExactList(list, st, v), st[s] # v, w # v
  PROVE  ExactList(list, [st EXCEPT ![s] = w], v)
  BY DEF ExactList

-----------------------------------------------------------------------------
(* Callbacks. *)

\* A handle that the manager makes is a handle.
LEMMA HandlesMade ==
  ASSUME TypeOK, NEW s \in Slots
  PROVE  HandleOf(s) \in Handle
  BY ConstantAssumption DEF HandleOf, Handle, TypeOK

\* Every callback in progress is about a record.
LEMMA FrameSlots ==
  ASSUME TypeOK, NEW i \in DOMAIN callStack
  PROVE  callStack[i] \in Frame /\ callStack[i].slot \in Slots
<1>1. callStack \in Seq(Frame)
  BY DEF TypeOK
<1>2. callStack[i] \in Frame
  BY <1>1, LenProperties, ElementOfSeq
<1> QED
  BY <1>2 DEF Frame

\* The innermost callback.
LEMMA TopFrame ==
  ASSUME TypeOK, CallbacksOwnTheirRecord, callStack # <<>>
  PROVE  /\ Len(callStack) \in DOMAIN callStack /\ Len(callStack) \in Nat \ {0}
         /\ Top \in Frame /\ Top.slot \in Slots
         /\ state[Top.slot] = FrameState(Top.kind)
         /\ cCallbackDepth = Len(callStack)
<1>1. callStack \in Seq(Frame)
  BY DEF TypeOK
<1>2. Len(callStack) \in Nat \ {0} /\ DOMAIN callStack = 1 .. Len(callStack)
  BY <1>1, EmptySeq, LenProperties
<1>3. Len(callStack) \in DOMAIN callStack
  BY <1>2
<1>4. Top \in Frame
  BY <1>1, <1>2, <1>3, ElementOfSeq DEF Top
<1>5. Top.slot \in Slots
  BY <1>4 DEF Frame
<1> QED
  BY <1>2, <1>3, <1>4, <1>5 DEF CallbacksOwnTheirRecord, Top

\* A callback starts on a record that is in no other callback.
LEMMA CallbackStarts ==
  ASSUME TypeOK, CallbacksOwnTheirRecord, NEW f \in Frame,
         state[f.slot] \in {"EMPTY", "READY"},
         callStack' = Append(callStack, f),
         cCallbackDepth' = cCallbackDepth + 1,
         state' = [state EXCEPT ![f.slot] = FrameState(f.kind)]
  PROVE  /\ CallbacksOwnTheirRecord'
         /\ callStack' \in Seq(Frame) /\ cCallbackDepth' \in Nat
         /\ state' \in [Slots -> States]
         /\ FrameState(f.kind) \in Transient
         /\ DOMAIN callStack' = DOMAIN callStack \union {Len(callStack) + 1}
         /\ \A i \in DOMAIN callStack :
              callStack'[i] = callStack[i] /\ callStack[i].slot # f.slot
         /\ callStack'[Len(callStack) + 1] = f
<1>1. callStack \in Seq(Frame) /\ state \in [Slots -> States]
  BY DEF TypeOK
<1>2. f.slot \in Slots /\ f.kind \in {"load", "fail", "unload"}
  BY DEF Frame
<1>3. FrameState(f.kind) \in Transient
  BY <1>2 DEF FrameState, Transient
<1>4. /\ callStack' \in Seq(Frame) /\ Len(callStack') = Len(callStack) + 1
      /\ DOMAIN callStack' = 1 .. Len(callStack) + 1
      /\ \A i \in 1 .. Len(callStack) : callStack'[i] = callStack[i]
      /\ callStack'[Len(callStack) + 1] = f
  BY <1>1, AppendedSeq
<1>5. DOMAIN callStack = 1 .. Len(callStack) /\ Len(callStack) \in Nat
  BY <1>1, LenProperties
<1>6. DOMAIN callStack' = DOMAIN callStack \union {Len(callStack) + 1}
  BY <1>4, <1>5
<1>7. ASSUME NEW i \in DOMAIN callStack
      PROVE  /\ callStack[i] \in Frame /\ callStack'[i] = callStack[i]
             /\ callStack[i].slot \in Slots /\ callStack[i].slot # f.slot
             /\ state'[callStack[i].slot] = FrameState(callStack[i].kind)
  <2>1. callStack[i] \in Frame
    BY <1>1, <1>5, ElementOfSeq
  <2>2. callStack[i].slot \in Slots /\ callStack[i].kind \in {"load", "fail", "unload"}
    BY <2>1 DEF Frame
  <2>3. state[callStack[i].slot] = FrameState(callStack[i].kind)
    BY DEF CallbacksOwnTheirRecord
  <2>4. FrameState(callStack[i].kind) \in Transient
    BY <2>2 DEF FrameState, Transient
  <2>5. callStack[i].slot # f.slot
    BY <2>3, <2>4 DEF Transient
  <2> QED
    BY <1>1, <1>2, <1>4, <1>5, <2>1, <2>2, <2>3, <2>5
<1>8. state'[f.slot] = FrameState(f.kind) /\ state' \in [Slots -> States]
  BY <1>1, <1>2, <1>3 DEF States, Transient
<1>9. CallbacksOwnTheirRecord'
  <2>1. cCallbackDepth' = Len(callStack')
    BY <1>4 DEF CallbacksOwnTheirRecord
  <2>2. \A i \in DOMAIN callStack' :
          state'[callStack'[i].slot] = FrameState(callStack'[i].kind)
    BY <1>4, <1>6, <1>7, <1>8
  <2>3. \A i, j \in DOMAIN callStack' :
          callStack'[i].slot = callStack'[j].slot => i = j
    BY <1>4, <1>6, <1>7 DEF CallbacksOwnTheirRecord
  <2>4. \A s \in Slots : state'[s] \in {"LOADING", "FAILED", "UNLOADING"} =>
          \E i \in DOMAIN callStack' : callStack'[i].slot = s
    <3> SUFFICES ASSUME NEW s \in Slots, s # f.slot, state'[s] \in Transient
                 PROVE  \E i \in DOMAIN callStack' : callStack'[i].slot = s
      BY <1>4, <1>6 DEF Transient
    <3>1. state[s] \in {"LOADING", "FAILED", "UNLOADING"}
      BY <1>1 DEF Transient
    <3> QED
      BY <3>1, <1>6, <1>7 DEF CallbacksOwnTheirRecord
  <2> QED
    BY <2>1, <2>2, <2>3, <2>4 DEF CallbacksOwnTheirRecord, FrameState
<1> QED
  BY <1>3, <1>4, <1>5, <1>6, <1>7, <1>8, <1>9 DEF TypeOK

\* The innermost callback returns and its record is published or recycled.
LEMMA CallbackReturns ==
  ASSUME TypeOK, CallbacksOwnTheirRecord, callStack # <<>>,
         callStack' = Pop, cCallbackDepth' = cCallbackDepth - 1,
         NEW end \in {"EMPTY", "READY"},
         state' = [state EXCEPT ![Top.slot] = end]
  PROVE  /\ CallbacksOwnTheirRecord'
         /\ callStack' \in Seq(Frame) /\ cCallbackDepth' \in Nat
         /\ state' \in [Slots -> States]
         /\ \A i \in DOMAIN callStack' :
              /\ i \in DOMAIN callStack /\ callStack'[i] = callStack[i]
              /\ callStack[i].slot \in Slots /\ callStack[i].slot # Top.slot
<1>1. /\ callStack \in Seq(Frame) /\ state \in [Slots -> States]
      /\ Len(callStack) \in DOMAIN callStack /\ Len(callStack) \in Nat \ {0}
      /\ Top.slot \in Slots /\ cCallbackDepth = Len(callStack)
  BY TopFrame DEF TypeOK
<1>2. /\ callStack' \in Seq(Frame) /\ Len(callStack') = Len(callStack) - 1
      /\ DOMAIN callStack' = 1 .. Len(callStack) - 1
      /\ \A i \in 1 .. Len(callStack) - 1 : callStack'[i] = callStack[i]
  BY <1>1, PoppedSeq DEF Pop
<1>3. DOMAIN callStack = 1 .. Len(callStack)
  BY <1>1, LenProperties
<1>4. ASSUME NEW i \in DOMAIN callStack'
      PROVE  /\ i \in DOMAIN callStack /\ callStack'[i] = callStack[i]
             /\ callStack[i].slot \in Slots /\ callStack[i].slot # Top.slot
  <2>1. i \in DOMAIN callStack /\ i # Len(callStack) /\ callStack'[i] = callStack[i]
    BY <1>1, <1>2, <1>3
  <2>2. callStack[i] \in Frame
    BY <1>1, <1>3, <2>1, ElementOfSeq
  <2> QED
    BY <1>1, <2>1, <2>2 DEF Frame, Top, CallbacksOwnTheirRecord
<1>5. state' \in [Slots -> States]
  BY <1>1 DEF States
<1>6. CallbacksOwnTheirRecord'
  <2>1. cCallbackDepth' = Len(callStack')
    BY <1>1, <1>2
  <2>2. \A i \in DOMAIN callStack' :
          state'[callStack'[i].slot] = FrameState(callStack'[i].kind)
    BY <1>1, <1>4 DEF CallbacksOwnTheirRecord
  <2>3. \A i, j \in DOMAIN callStack' :
          callStack'[i].slot = callStack'[j].slot => i = j
    BY <1>4 DEF CallbacksOwnTheirRecord
  <2>4. ASSUME NEW s \in Slots, state'[s] \in {"LOADING", "FAILED", "UNLOADING"}
        PROVE  \E i \in DOMAIN callStack' : callStack'[i].slot = s
    <3>1. s # Top.slot /\ state[s] \in {"LOADING", "FAILED", "UNLOADING"}
      BY <1>1, <2>4
    <3>2. PICK i \in DOMAIN callStack : callStack[i].slot = s
      BY <3>1 DEF CallbacksOwnTheirRecord
    <3>3. i # Len(callStack)
      BY <3>1, <3>2 DEF Top
    <3>4. i \in DOMAIN callStack'
      BY <1>1, <1>2, <1>3, <3>3
    <3> QED
      BY <3>2, <3>4, <1>4
  <2> QED
    BY <2>1, <2>2, <2>3, <2>4 DEF CallbacksOwnTheirRecord, FrameState
<1> QED
  BY <1>1, <1>2, <1>4, <1>5, <1>6

-----------------------------------------------------------------------------
(* Tables. *)

\* The generation that follows a live one is live.
LEMMA GenerationsLive ==
  ASSUME NEW n \in 1 .. GenerationMax
  PROVE  NextGeneration(n) \in 1 .. GenerationMax
  BY ConstantAssumption DEF NextGeneration

\* A registered type has a loader entry of its own.
LEMMA TypesFound ==
  ASSUME NEW t \in Types, Registered(t)
  PROVE  FindType(t) \in 1 .. Len(types) /\ types[FindType(t)].type = t
  BY DEF Registered, FindType, TypeIndices

\* RemoveLookup and RecycleRecord of a record whose callback returned.
LEMMA RecordRecycled ==
  ASSUME Managing, NEW s \in Slots, state[s] \in Transient,
         NEW waiting \in Refs \union {NoSlot}, Recycle(s, waiting),
         liveList' = liveList
  PROVE  /\ key' \in [Slots -> Keys \union {NoKey}]
         /\ typeSlot' \in [Slots -> 0 .. TypeSlotMax]
         /\ nGeneration' \in [Slots -> 1 .. GenerationMax]
         /\ cReferences' \in [Slots -> 0 .. ReferenceMax]
         /\ lookup' \in [Ids -> Slots \union {NoSlot}]
         /\ freeList' \in Seq(Slots) /\ liveList' \in Seq(Slots)
         /\ holder' \in [Refs -> Owners \union {Nobody, Pending}]
         /\ handle' \in [Refs -> Handle]
         /\ age' \in [Refs -> 0 .. GenerationMax]
         /\ ListsExact' /\ IdentitiesExact'
<1> USE DEF Managing
<1>1. /\ state \in [Slots -> States] /\ key \in [Slots -> Keys \union {NoKey}]
      /\ typeSlot \in [Slots -> 0 .. TypeSlotMax]
      /\ nGeneration \in [Slots -> 1 .. GenerationMax]
      /\ cReferences \in [Slots -> 0 .. ReferenceMax]
      /\ lookup \in [Ids -> Slots \union {NoSlot}]
      /\ freeList \in Seq(Slots) /\ liveList \in Seq(Slots)
      /\ handle \in [Refs -> Handle]
      /\ holder \in [Refs -> Owners \union {Nobody, Pending}]
      /\ age \in [Refs -> 0 .. GenerationMax]
  BY DEF TypeOK
<1>2. /\ lookup' = [lookup EXCEPT ![IdOf[key[s]]] = NoSlot]
      /\ state' = [state EXCEPT ![s] = "EMPTY"]
      /\ key' = [key EXCEPT ![s] = NoKey]
      /\ typeSlot' = [typeSlot EXCEPT ![s] = 0]
      /\ nGeneration' = [nGeneration EXCEPT ![s] = NextGeneration(nGeneration[s])]
      /\ cReferences' = [cReferences EXCEPT ![s] = 0]
      /\ freeList' = <<s>> \o freeList
      /\ handle' = handle
  BY DEF Recycle, RemoveLookup
<1>3. /\ GenerationMax \in Nat \ {0} /\ TypeSlotMax \in Nat /\ ReferenceMax \in Nat
      /\ IdOf \in [Keys -> Ids] /\ NoSlot \notin Slots
  BY ConstantAssumption
<1>4. key[s] \in Keys /\ IdOf[key[s]] \in Ids /\ lookup[IdOf[key[s]]] = s
  BY <1>3 DEF IdentitiesExact, Transient
<1>5. /\ key' \in [Slots -> Keys \union {NoKey}]
      /\ typeSlot' \in [Slots -> 0 .. TypeSlotMax]
      /\ cReferences' \in [Slots -> 0 .. ReferenceMax]
      /\ lookup' \in [Ids -> Slots \union {NoSlot}]
      /\ handle' \in [Refs -> Handle]
  <2>1. key' \in [Slots -> Keys \union {NoKey}]
    BY <1>1, <1>2
  <2>2. typeSlot' \in [Slots -> 0 .. TypeSlotMax]
    BY <1>1, <1>2, <1>3
  <2>3. cReferences' \in [Slots -> 0 .. ReferenceMax]
    BY <1>1, <1>2, <1>3
  <2>4. lookup' \in [Ids -> Slots \union {NoSlot}]
    BY <1>1, <1>2, <1>4
  <2> QED
    BY <1>1, <1>2, <2>1, <2>2, <2>3, <2>4
<1>6. nGeneration' \in [Slots -> 1 .. GenerationMax]
  BY <1>1, <1>2, GenerationsLive
<1>7. holder' \in [Refs -> Owners \union {Nobody, Pending}]
  BY <1>1 DEF Recycle, Owners
<1>8. age' \in [Refs -> 0 .. GenerationMax]
  <2> SUFFICES ASSUME NEW r \in Refs PROVE age[r] < GenerationMax => age[r] + 1 \in 0 .. GenerationMax
    BY <1>1 DEF Recycle
  <2> QED
    BY <1>1, <1>3
<1>9. ListsExact'
  <2>1. /\ ExactList(freeList, state, "EMPTY") /\ ExactList(liveList, state, "READY")
        /\ state[s] # "READY"
    BY DEF ListsExact, Transient
  <2>2. s \notin Members(freeList) /\ Injective(freeList)
    BY <2>1 DEF ExactList, Transient
  <2>3. Injective(freeList') /\ Members(freeList') = Members(freeList) \union {s}
    BY <1>1, <1>2, <2>2, ConsedList
  <2>4. ExactList(freeList', state', "EMPTY")
    BY <1>1, <1>2, <2>1, <2>3, ListEntered
  <2>5. ExactList(liveList', state', "READY")
    BY <1>1, <1>2, <2>1, ListKept
  <2> QED
    BY <2>4, <2>5 DEF ListsExact
<1>10. freeList' \in Seq(Slots)
  BY <1>1, <1>2, ConsedList DEF ListsExact, ExactList, Transient
<1>11. IdentitiesExact'
  <2>1. ASSUME NEW p \in Slots, state'[p] # "EMPTY"
        PROVE  key'[p] \in Keys /\ lookup'[IdOf[key'[p]]] = p
    <3>1. p # s /\ state[p] # "EMPTY" /\ key'[p] = key[p]
      BY <1>1, <1>2, <2>1
    <3>2. key[p] \in Keys /\ lookup[IdOf[key[p]]] = p
      BY <3>1 DEF IdentitiesExact
    <3>3. IdOf[key[p]] # IdOf[key[s]]
      BY <3>1, <3>2, <1>4
    <3> QED
      BY <1>1, <1>2, <1>3, <3>1, <3>2, <3>3
  <2>2. ASSUME NEW i \in Ids, lookup'[i] # NoSlot
        PROVE  state'[lookup'[i]] # "EMPTY" /\ IdOf[key'[lookup'[i]]] = i
    <3>1. i # IdOf[key[s]] /\ lookup'[i] = lookup[i]
      BY <1>1, <1>2, <2>2
    <3>2. lookup[i] \in Slots /\ state[lookup[i]] # "EMPTY" /\ IdOf[key[lookup[i]]] = i
      BY <1>1, <2>2, <3>1 DEF IdentitiesExact
    <3>3. lookup[i] # s
      BY <3>1, <3>2
    <3> QED
      BY <1>1, <1>2, <3>1, <3>2, <3>3
  <2> QED
    BY <2>1, <2>2 DEF IdentitiesExact
<1> QED
  BY <1>1, <1>5, <1>6, <1>7, <1>8, <1>9, <1>10, <1>11

\* Steps that touch counters and clients only leave the tables as they were.
LEMMA TablesUntouched ==
  ASSUME Managing, types' = types, state' = state, key' = key,
         typeSlot' = typeSlot, lookup' = lookup, freeList' = freeList,
         liveList' = liveList, callStack' = callStack,
         cCallbackDepth' = cCallbackDepth
  PROVE  /\ CallbacksOwnTheirRecord' /\ LoaderEntriesStable'
         /\ ListsExact' /\ IdentitiesExact'
<1>1. CallbacksOwnTheirRecord'
  BY DEF Managing, CallbacksOwnTheirRecord
<1>2. LoaderEntriesStable'
  BY DEF Managing, LoaderEntriesStable
<1>3. ListsExact' /\ IdentitiesExact'
  BY DEF Managing, ListsExact, IdentitiesExact
<1> QED
  BY <1>1, <1>2, <1>3

\* A record that moves between two states in use keeps identity and loader.
LEMMA StillInUse ==
  ASSUME Managing, types' = types, key' = key, typeSlot' = typeSlot,
         lookup' = lookup, NEW s \in Slots, state[s] # "EMPTY",
         NEW w \in States \ {"EMPTY"}, state' = [state EXCEPT ![s] = w]
  PROVE  /\ IdentitiesExact'
         /\ \A p \in Slots : state'[p] # "EMPTY" =>
              \E i \in DOMAIN types : types[i] =
                 [type |-> TypeOf[key[p]], iTypeSlot |-> typeSlot[p]]
<1>1. state \in [Slots -> States] /\ lookup \in [Ids -> Slots \union {NoSlot}]
  BY DEF Managing, TypeOK
<1>2. \A p \in Slots : state'[p] # "EMPTY" <=> state[p] # "EMPTY"
  BY <1>1
<1>3. ASSUME NEW p \in Slots, state'[p] # "EMPTY"
      PROVE  key'[p] \in Keys /\ lookup'[IdOf[key'[p]]] = p
  BY <1>2, <1>3 DEF Managing, IdentitiesExact
<1>4. ASSUME NEW i \in Ids, lookup'[i] # NoSlot
      PROVE  state'[lookup'[i]] # "EMPTY" /\ IdOf[key'[lookup'[i]]] = i
  BY <1>1, <1>2, <1>4 DEF Managing, IdentitiesExact
<1>5. IdentitiesExact'
  BY <1>3, <1>4 DEF IdentitiesExact
<1> QED
  BY <1>2, <1>5 DEF Managing, LoaderEntriesStable

-----------------------------------------------------------------------------
(* The actions. *)

\* Res_Acquire of a key that is not cached reserves the first free record and
\* starts its load callback.
LEMMA MissKeepsManaging ==
  ASSUME Managing, NEW k \in Keys, NEW r \in Refs, NEW o \in Owners,
         AcquireMiss(k, r, o)
  PROVE  Managing'
<1> DEFINE s == Head(freeList)
           f == [kind |-> "load", slot |-> s, iType |-> FindType(TypeOf[k]),
                 ref |-> r, owner |-> o]
<1>1. /\ state \in [Slots -> States] /\ key \in [Slots -> Keys \union {NoKey}]
      /\ typeSlot \in [Slots -> 0 .. TypeSlotMax]
      /\ lookup \in [Ids -> Slots \union {NoSlot}]
      /\ freeList \in Seq(Slots) /\ holder \in [Refs -> Owners \union {Nobody, Pending}]
      /\ types \in Seq([type : Types, iTypeSlot : 1 .. TypeSlotMax])
      /\ TypeSlotMax \in Nat /\ NoSlot \notin Slots
      /\ TypeOf \in [Keys -> Types] /\ IdOf \in [Keys -> Ids]
  BY ConstantAssumption DEF Managing, TypeOK
<1>2. Registered(TypeOf[k]) /\ lookup[IdOf[k]] = NoSlot /\ freeList # <<>>
  BY DEF AcquireMiss, AcquireOutcome
<1>3. /\ freeList' = Tail(freeList)
      /\ key' = [key EXCEPT ![s] = k]
      /\ typeSlot' = [typeSlot EXCEPT ![s] = types[FindType(TypeOf[k])].iTypeSlot]
      /\ state' = [state EXCEPT ![s] = "LOADING"]
      /\ lookup' = [lookup EXCEPT ![IdOf[k]] = s]
      /\ callStack' = Append(callStack, f)
      /\ cCallbackDepth' = cCallbackDepth + 1
      /\ holder' = [holder EXCEPT ![r] = Pending]
      /\ UNCHANGED <<initialized, bShuttingDown, registry, nGeneration,
                     cReferences, liveList, handle, age>>
  BY DEF AcquireMiss
<1>4. TypeOf[k] \in Types /\ IdOf[k] \in Ids
  BY <1>1
<1>5. /\ FindType(TypeOf[k]) \in 1 .. Len(types) /\ DOMAIN types = 1 .. Len(types)
      /\ Len(types) \in Nat
      /\ types[FindType(TypeOf[k])].type = TypeOf[k]
      /\ types[FindType(TypeOf[k])] \in [type : Types, iTypeSlot : 1 .. TypeSlotMax]
  BY <1>1, <1>2, <1>4, TypesFound, LenProperties, ElementOfSeq
<1>6. /\ s \in Members(freeList) /\ Tail(freeList) \in Seq(Slots)
      /\ Injective(Tail(freeList))
      /\ Members(Tail(freeList)) = Members(freeList) \ {s}
  BY <1>1, <1>2, TailedList DEF Managing, ListsExact, ExactList
<1>7. s \in Slots /\ state[s] = "EMPTY"
  BY <1>6 DEF Managing, ListsExact, ExactList
<1>8. f \in Frame /\ f.slot = s /\ f.kind = "load" /\ f.iType = FindType(TypeOf[k])
  BY <1>5, <1>7 DEF Frame
<1> HIDE DEF s, f
<1>9. /\ CallbacksOwnTheirRecord'
      /\ callStack' \in Seq(Frame) /\ cCallbackDepth' \in Nat
      /\ state' \in [Slots -> States]
      /\ DOMAIN callStack' = DOMAIN callStack \union {Len(callStack) + 1}
      /\ \A i \in DOMAIN callStack :
           callStack'[i] = callStack[i] /\ callStack[i].slot # s
      /\ callStack'[Len(callStack) + 1] = f
  BY <1>3, <1>7, <1>8, CallbackStarts DEF Managing, FrameState
<1>10. TypeOK'
  <2>1. key' \in [Slots -> Keys \union {NoKey}]
    BY <1>1, <1>3
  <2>2. typeSlot' \in [Slots -> 0 .. TypeSlotMax]
    <3>1. types[FindType(TypeOf[k])].iTypeSlot \in 0 .. TypeSlotMax
      BY <1>1, <1>5
    <3> QED
      BY <1>1, <1>3, <3>1
  <2>3. lookup' \in [Ids -> Slots \union {NoSlot}]
    BY <1>1, <1>3, <1>7
  <2>4. holder' \in [Refs -> Owners \union {Nobody, Pending}]
    BY <1>1, <1>3
  <2> QED
    BY <1>3, <1>6, <1>9, <2>1, <2>2, <2>3, <2>4 DEF Managing, TypeOK, registry
<1>11. LoaderEntriesStable'
  <2>1. types' = types
    BY <1>3 DEF registry
  <2>2. ASSUME NEW i \in DOMAIN callStack'
        PROVE  /\ callStack'[i].iType \in DOMAIN types
               /\ types[callStack'[i].iType].type = TypeOf[key'[callStack'[i].slot]]
    <3>1. CASE i = Len(callStack) + 1
      BY <3>1, <1>1, <1>3, <1>5, <1>7, <1>8, <1>9
    <3>2. CASE i \in DOMAIN callStack
      <4>1. callStack'[i] = callStack[i] /\ key'[callStack[i].slot] = key[callStack[i].slot]
        BY <3>2, <1>1, <1>3, <1>9, FrameSlots DEF Managing
      <4> QED
        BY <3>2, <4>1 DEF Managing, LoaderEntriesStable
    <3> QED
      BY <3>1, <3>2, <1>9
  <2>3. ASSUME NEW p \in Slots, state'[p] # "EMPTY"
        PROVE  \E i \in DOMAIN types :
                 types[i] = [type |-> TypeOf[key'[p]], iTypeSlot |-> typeSlot'[p]]
    <3>1. CASE p = s
      <4>1. key'[p] = k /\ typeSlot'[p] = types[FindType(TypeOf[k])].iTypeSlot
        BY <3>1, <1>1, <1>3, <1>7
      <4> QED
        BY <4>1, <1>5
    <3>2. CASE p # s
      BY <2>3, <3>2, <1>1, <1>3 DEF Managing, LoaderEntriesStable
    <3> QED
      BY <3>1, <3>2
  <2> QED
    BY <2>1, <2>2, <2>3 DEF LoaderEntriesStable
<1>12. ListsExact'
  <2>1. ExactList(freeList, state, "EMPTY") /\ ExactList(liveList, state, "READY")
    BY DEF Managing, ListsExact
  <2>2. ExactList(freeList', state', "EMPTY")
    BY <1>1, <1>3, <1>6, <1>7, <2>1, ListLeft
  <2>3. ExactList(liveList', state', "READY")
    BY <1>1, <1>3, <1>7, <2>1, ListKept
  <2> QED
    BY <2>2, <2>3 DEF ListsExact
<1>13. IdentitiesExact'
  <2>1. ASSUME NEW p \in Slots, state'[p] # "EMPTY"
        PROVE  key'[p] \in Keys /\ lookup'[IdOf[key'[p]]] = p
    <3>1. CASE p = s
      BY <3>1, <1>1, <1>3, <1>4, <1>7
    <3>2. CASE p # s
      <4>1. key[p] \in Keys /\ lookup[IdOf[key[p]]] = p /\ key'[p] = key[p]
        BY <2>1, <3>2, <1>1, <1>3 DEF Managing, IdentitiesExact
      <4>2. IdOf[key[p]] # IdOf[k]
        BY <4>1, <1>1, <1>2
      <4> QED
        BY <4>1, <4>2, <1>1, <1>3, <1>4
    <3> QED
      BY <3>1, <3>2
  <2>2. ASSUME NEW i \in Ids, lookup'[i] # NoSlot
        PROVE  state'[lookup'[i]] # "EMPTY" /\ IdOf[key'[lookup'[i]]] = i
    <3>1. CASE i = IdOf[k]
      BY <3>1, <1>1, <1>3, <1>4, <1>7
    <3>2. CASE i # IdOf[k]
      <4>1. lookup'[i] = lookup[i] /\ lookup[i] \in Slots
        BY <2>2, <3>2, <1>1, <1>3, <1>4
      <4>2. state[lookup[i]] # "EMPTY" /\ IdOf[key[lookup[i]]] = i
        BY <4>1, <1>1 DEF Managing, IdentitiesExact
      <4> QED
        BY <4>1, <4>2, <1>1, <1>3, <1>7
    <3> QED
      BY <3>1, <3>2
  <2> QED
    BY <2>1, <2>2 DEF IdentitiesExact
<1> QED
  BY <1>9, <1>10, <1>11, <1>12, <1>13 DEF Managing

\* Res_Acquire of a cached key only counts one more reference.
LEMMA HitKeepsManaging ==
  ASSUME Managing, NEW k \in Keys, NEW r \in Refs, NEW o \in Owners,
         AcquireHit(k, r, o)
  PROVE  Managing'
<1> DEFINE s == lookup[IdOf[k]]
<1>1. /\ lookup \in [Ids -> Slots \union {NoSlot}] /\ IdOf \in [Keys -> Ids]
      /\ cReferences \in [Slots -> 0 .. ReferenceMax] /\ ReferenceMax \in Nat
      /\ holder \in [Refs -> Owners \union {Nobody, Pending}]
      /\ handle \in [Refs -> Handle] /\ age \in [Refs -> 0 .. GenerationMax]
      /\ GenerationMax \in Nat
  BY ConstantAssumption DEF Managing, TypeOK
<1>2. s \in Slots /\ cReferences[s] # ReferenceMax
  BY <1>1 DEF AcquireHit, AcquireOutcome
<1>3. HandleOf(s) \in Handle
  BY <1>2, HandlesMade DEF Managing
<1>4. /\ cReferences' = [cReferences EXCEPT ![s] = cReferences[s] + 1]
      /\ holder' = [holder EXCEPT ![r] = o]
      /\ handle' = [handle EXCEPT ![r] = HandleOf(s)]
      /\ age' = [age EXCEPT ![r] = 0]
      /\ UNCHANGED <<initialized, bShuttingDown, registry, state, key, typeSlot,
                     nGeneration, lookup, freeList, liveList, callStack,
                     cCallbackDepth>>
  BY DEF AcquireHit, AddReference
<1> HIDE DEF s
<1>5. cReferences' \in [Slots -> 0 .. ReferenceMax]
  BY <1>1, <1>2, <1>4
<1>6. /\ holder' \in [Refs -> Owners \union {Nobody, Pending}]
      /\ handle' \in [Refs -> Handle] /\ age' \in [Refs -> 0 .. GenerationMax]
  BY <1>1, <1>3, <1>4
<1>7. TypeOK'
  BY <1>4, <1>5, <1>6 DEF Managing, TypeOK, registry
<1> QED
  BY <1>4, <1>7, TablesUntouched DEF Managing, registry

\* Res_Retain only counts one more reference.
LEMMA RetainKeepsManaging ==
  ASSUME Managing, NEW r \in Refs, NEW r2 \in Refs, NEW o \in Owners,
         Retain(r, r2, o)
  PROVE  Managing'
<1> DEFINE s == handle[r].slot
<1>1. /\ cReferences \in [Slots -> 0 .. ReferenceMax] /\ ReferenceMax \in Nat
      /\ holder \in [Refs -> Owners \union {Nobody, Pending}]
      /\ handle \in [Refs -> Handle] /\ age \in [Refs -> 0 .. GenerationMax]
      /\ GenerationMax \in Nat
  BY ConstantAssumption DEF Managing, TypeOK
<1>2. s \in Slots /\ cReferences[s] # ReferenceMax
  BY <1>1 DEF Retain, Handle
<1>4. /\ cReferences' = [cReferences EXCEPT ![s] = cReferences[s] + 1]
      /\ holder' = [holder EXCEPT ![r2] = o]
      /\ handle' = [handle EXCEPT ![r2] = handle[r]]
      /\ age' = [age EXCEPT ![r2] = 0]
      /\ UNCHANGED <<initialized, bShuttingDown, registry, state, key, typeSlot,
                     nGeneration, lookup, freeList, liveList, callStack,
                     cCallbackDepth>>
  BY DEF Retain, AddReference
<1> HIDE DEF s
<1>5. cReferences' \in [Slots -> 0 .. ReferenceMax]
  BY <1>1, <1>2, <1>4
<1>6. /\ holder' \in [Refs -> Owners \union {Nobody, Pending}]
      /\ handle' \in [Refs -> Handle] /\ age' \in [Refs -> 0 .. GenerationMax]
  BY <1>1, <1>4
<1>7. TypeOK'
  BY <1>4, <1>5, <1>6 DEF Managing, TypeOK, registry
<1> QED
  BY <1>4, <1>7, TablesUntouched DEF Managing, registry

\* Res_Release of a reference that is not the last only counts one less.
LEMMA SharedReleaseKeepsManaging ==
  ASSUME Managing, NEW r \in Refs, ReleaseShared(r)
  PROVE  Managing'
<1> DEFINE s == handle[r].slot
<1>1. /\ cReferences \in [Slots -> 0 .. ReferenceMax] /\ ReferenceMax \in Nat
      /\ holder \in [Refs -> Owners \union {Nobody, Pending}]
      /\ handle \in [Refs -> Handle]
  BY ConstantAssumption DEF Managing, TypeOK
<1>2. s \in Slots /\ cReferences[s] > 1
  BY <1>1 DEF ReleaseShared, Handle
<1>4. /\ cReferences' = [cReferences EXCEPT ![s] = cReferences[s] - 1]
      /\ holder' = [holder EXCEPT ![r] = Nobody]
      /\ UNCHANGED <<initialized, bShuttingDown, registry, state, key, typeSlot,
                     nGeneration, lookup, freeList, liveList, callStack,
                     cCallbackDepth, handle, age>>
  BY DEF ReleaseShared
<1> HIDE DEF s
<1>5. cReferences' \in [Slots -> 0 .. ReferenceMax]
  BY <1>1, <1>2, <1>4
<1>6. holder' \in [Refs -> Owners \union {Nobody, Pending}]
  BY <1>1, <1>4
<1>7. TypeOK'
  BY <1>4, <1>5, <1>6 DEF Managing, TypeOK, registry
<1> QED
  BY <1>4, <1>7, TablesUntouched DEF Managing, registry

\* A Res_Release that is refused changes nothing in the manager.
LEMMA RefusedReleaseKeepsManaging ==
  ASSUME Managing, NEW r \in Refs, ReleaseRefused(r)
  PROVE  Managing'
<1>1. /\ holder' = [holder EXCEPT ![r] = Nobody]
      /\ UNCHANGED <<initialized, bShuttingDown, registry, record, lookup,
                     freeList, liveList, callStack, cCallbackDepth, handle, age>>
  BY DEF ReleaseRefused
<1>2. TypeOK'
  BY <1>1 DEF Managing, TypeOK, registry, record
<1> QED
  BY <1>1, <1>2, TablesUntouched DEF Managing, registry, record

\* UnloadRecord up to its callback: the record leaves the published ones.
LEMMA UnloadKeepsTables ==
  ASSUME Managing, NEW s \in Slots, state[s] = "READY", BeginUnload(s),
         UNCHANGED <<registry, key, typeSlot, lookup, freeList>>
  PROVE  /\ CallbacksOwnTheirRecord' /\ LoaderEntriesStable'
         /\ ListsExact' /\ IdentitiesExact'
         /\ state' \in [Slots -> States] /\ liveList' \in Seq(Slots)
         /\ callStack' \in Seq(Frame) /\ cCallbackDepth' \in Nat
<1> DEFINE f == [kind |-> "unload", slot |-> s,
                 iType |-> FindType(TypeOf[key[s]]), ref |-> NoSlot, owner |-> App]
<1>1. /\ state \in [Slots -> States] /\ liveList \in Seq(Slots)
      /\ types \in Seq([type : Types, iTypeSlot : 1 .. TypeSlotMax])
      /\ TypeOf \in [Keys -> Types]
  BY ConstantAssumption DEF Managing, TypeOK
<1>2. /\ Registered(TypeOf[key[s]])
      /\ state' = [state EXCEPT ![s] = "UNLOADING"]
      /\ liveList' = Without(liveList, s)
      /\ callStack' = Append(callStack, f)
      /\ cCallbackDepth' = cCallbackDepth + 1
  BY DEF BeginUnload
<1>3. key[s] \in Keys /\ TypeOf[key[s]] \in Types
  BY <1>1 DEF Managing, IdentitiesExact
<1>4. /\ FindType(TypeOf[key[s]]) \in DOMAIN types
      /\ FindType(TypeOf[key[s]]) \in Nat
      /\ types[FindType(TypeOf[key[s]])].type = TypeOf[key[s]]
  BY <1>1, <1>2, <1>3, TypesFound, LenProperties
<1>5. /\ f \in Frame /\ f.slot = s /\ f.kind = "unload"
      /\ f.iType = FindType(TypeOf[key[s]])
  BY <1>4 DEF Frame, Owners
<1> HIDE DEF f
<1>6. /\ CallbacksOwnTheirRecord'
      /\ callStack' \in Seq(Frame) /\ cCallbackDepth' \in Nat
      /\ state' \in [Slots -> States]
      /\ DOMAIN callStack' = DOMAIN callStack \union {Len(callStack) + 1}
      /\ \A i \in DOMAIN callStack :
           callStack'[i] = callStack[i] /\ callStack[i].slot # s
      /\ callStack'[Len(callStack) + 1] = f
  BY <1>2, <1>5, CallbackStarts DEF Managing, FrameState
<1>7. ExactList(freeList, state, "EMPTY") /\ ExactList(liveList, state, "READY")
  BY DEF Managing, ListsExact
<1>8. /\ Without(liveList, s) \in Seq(Slots) /\ Injective(Without(liveList, s))
      /\ Members(Without(liveList, s)) = Members(liveList) \ {s}
  BY <1>1, <1>7, WithoutList DEF ExactList
<1>9. ListsExact'
  <2>1. ExactList(freeList', state', "EMPTY")
    BY <1>1, <1>2, <1>7, ListKept
  <2>2. ExactList(liveList', state', "READY")
    BY <1>1, <1>2, <1>7, <1>8, ListLeft
  <2> QED
    BY <2>1, <2>2 DEF ListsExact
<1>10. types' = types /\ key' = key /\ typeSlot' = typeSlot /\ lookup' = lookup
  BY DEF registry
<1>11. /\ IdentitiesExact'
       /\ \A p \in Slots : state'[p] # "EMPTY" =>
            \E i \in DOMAIN types : types[i] =
               [type |-> TypeOf[key[p]], iTypeSlot |-> typeSlot[p]]
  BY <1>2, <1>10, StillInUse DEF States
<1>12. LoaderEntriesStable'
  <2>1. ASSUME NEW i \in DOMAIN callStack'
        PROVE  /\ callStack'[i].iType \in DOMAIN types
               /\ types[callStack'[i].iType].type = TypeOf[key[callStack'[i].slot]]
    <3>1. CASE i = Len(callStack) + 1
      BY <3>1, <1>4, <1>5, <1>6
    <3>2. CASE i \in DOMAIN callStack
      BY <3>2, <1>6 DEF Managing, LoaderEntriesStable
    <3> QED
      BY <3>1, <3>2, <1>6
  <2> QED
    BY <2>1, <1>10, <1>11 DEF LoaderEntriesStable
<1> QED
  BY <1>2, <1>6, <1>8, <1>9, <1>11, <1>12

\* Res_Release of the last reference starts the unload callback.
LEMMA LastReleaseKeepsManaging ==
  ASSUME Managing, NEW r \in Refs, ReleaseLast(r)
  PROVE  Managing'
<1> DEFINE s == handle[r].slot
<1>1. /\ cReferences \in [Slots -> 0 .. ReferenceMax] /\ ReferenceMax \in Nat
      /\ holder \in [Refs -> Owners \union {Nobody, Pending}]
      /\ handle \in [Refs -> Handle]
  BY ConstantAssumption DEF Managing, TypeOK
<1>2. s \in Slots /\ state[s] = "READY"
  BY <1>1 DEF ReleaseLast, IsReady, Handle
<1>3. /\ cReferences' = [cReferences EXCEPT ![s] = 0]
      /\ BeginUnload(s)
      /\ holder' = [holder EXCEPT ![r] = Nobody]
      /\ UNCHANGED <<initialized, bShuttingDown, registry, key, typeSlot,
                     nGeneration, lookup, freeList, handle, age>>
  BY DEF ReleaseLast
<1> HIDE DEF s
<1>4. /\ CallbacksOwnTheirRecord' /\ LoaderEntriesStable'
      /\ ListsExact' /\ IdentitiesExact'
      /\ state' \in [Slots -> States] /\ liveList' \in Seq(Slots)
      /\ callStack' \in Seq(Frame) /\ cCallbackDepth' \in Nat
  BY <1>2, <1>3, UnloadKeepsTables
<1>5. /\ cReferences' \in [Slots -> 0 .. ReferenceMax]
      /\ holder' \in [Refs -> Owners \union {Nobody, Pending}]
  BY <1>1, <1>2, <1>3
<1>6. TypeOK'
  BY <1>3, <1>4, <1>5 DEF Managing, TypeOK, registry
<1> QED
  BY <1>4, <1>6 DEF Managing

\* A turn of the loop of Res_Shutdown starts the unload callback of the newest
\* published record.
LEMMA ForcedUnloadKeepsManaging ==
  ASSUME Managing, ShutdownUnload
  PROVE  Managing'
<1>1. /\ liveList # <<>> /\ BeginUnload(NextVictim)
      /\ UNCHANGED <<initialized, bShuttingDown, registry, key, typeSlot,
                     nGeneration, cReferences, lookup, freeList, client>>
  BY DEF ShutdownUnload
<1>2. NextVictim \in Slots /\ state[NextVictim] = "READY"
  <2>1. liveList \in Seq(Slots) /\ ExactList(liveList, state, "READY")
    BY DEF Managing, TypeOK, ListsExact
  <2>2. Len(liveList) \in DOMAIN liveList
    BY <1>1, <2>1, EmptySeq, LenProperties
  <2>3. NextVictim \in Members(liveList)
    BY <2>2 DEF NextVictim, Members
  <2> QED
    BY <2>1, <2>3 DEF ExactList
<1>3. /\ CallbacksOwnTheirRecord' /\ LoaderEntriesStable'
      /\ ListsExact' /\ IdentitiesExact'
      /\ state' \in [Slots -> States] /\ liveList' \in Seq(Slots)
      /\ callStack' \in Seq(Frame) /\ cCallbackDepth' \in Nat
  BY <1>1, <1>2, UnloadKeepsTables
<1>4. TypeOK'
  BY <1>1, <1>3 DEF Managing, TypeOK, registry, client
<1> QED
  BY <1>3, <1>4 DEF Managing

\* A load callback succeeds: its record becomes a published one.
LEMMA LoadKeepsManaging ==
  ASSUME Managing, LoadSucceeds
  PROVE  Managing'
<1> DEFINE s == Top.slot
<1>1. /\ state \in [Slots -> States] /\ liveList \in Seq(Slots)
      /\ cReferences \in [Slots -> 0 .. ReferenceMax] /\ ReferenceMax \in Nat \ {0}
      /\ holder \in [Refs -> Owners \union {Nobody, Pending}]
      /\ handle \in [Refs -> Handle] /\ age \in [Refs -> 0 .. GenerationMax]
      /\ GenerationMax \in Nat
  BY ConstantAssumption DEF Managing, TypeOK
<1>2. /\ callStack # <<>> /\ Top.kind = "load"
      /\ callStack' = Pop /\ cCallbackDepth' = cCallbackDepth - 1
      /\ state' = [state EXCEPT ![s] = "READY"]
      /\ cReferences' = [cReferences EXCEPT ![s] = 1]
      /\ liveList' = Append(liveList, s)
      /\ holder' = [holder EXCEPT ![Top.ref] = Top.owner]
      /\ handle' = [handle EXCEPT ![Top.ref] = HandleOf(s)]
      /\ age' = [age EXCEPT ![Top.ref] = 0]
      /\ UNCHANGED <<initialized, bShuttingDown, registry, key, typeSlot,
                     nGeneration, lookup, freeList>>
  BY DEF LoadSucceeds
<1>3. s \in Slots /\ state[s] = "LOADING" /\ Top.owner \in Owners
  BY <1>2, TopFrame DEF Managing, FrameState, Frame
<1>4. HandleOf(s) \in Handle
  BY <1>3, HandlesMade DEF Managing
<1>5. /\ CallbacksOwnTheirRecord'
      /\ callStack' \in Seq(Frame) /\ cCallbackDepth' \in Nat
      /\ state' \in [Slots -> States]
      /\ \A i \in DOMAIN callStack' :
           /\ i \in DOMAIN callStack /\ callStack'[i] = callStack[i]
           /\ callStack[i].slot \in Slots /\ callStack[i].slot # s
  BY <1>2, CallbackReturns DEF Managing
<1> HIDE DEF s
<1>6. /\ ExactList(freeList, state, "EMPTY") /\ ExactList(liveList, state, "READY")
  BY DEF Managing, ListsExact
<1>7. s \notin Members(liveList) /\ Injective(liveList)
  BY <1>3, <1>6 DEF ExactList
<1>8. /\ liveList' \in Seq(Slots) /\ Injective(liveList')
      /\ Members(liveList') = Members(liveList) \union {s}
  BY <1>1, <1>2, <1>3, <1>7, AppendedList
<1>9. ListsExact'
  <2>1. ExactList(freeList', state', "EMPTY")
    BY <1>1, <1>2, <1>3, <1>6, ListKept
  <2>2. ExactList(liveList', state', "READY")
    BY <1>1, <1>2, <1>3, <1>6, <1>8, ListEntered
  <2> QED
    BY <2>1, <2>2 DEF ListsExact
<1>10. types' = types /\ key' = key /\ typeSlot' = typeSlot /\ lookup' = lookup
  BY <1>2 DEF registry
<1>11. /\ IdentitiesExact'
       /\ \A p \in Slots : state'[p] # "EMPTY" =>
            \E i \in DOMAIN types : types[i] =
               [type |-> TypeOf[key[p]], iTypeSlot |-> typeSlot[p]]
  BY <1>2, <1>3, <1>10, StillInUse DEF States
<1>12. LoaderEntriesStable'
  BY <1>5, <1>10, <1>11 DEF Managing, LoaderEntriesStable
<1>13. TypeOK'
  <2>1. cReferences' \in [Slots -> 0 .. ReferenceMax]
    BY <1>1, <1>2, <1>3
  <2>2. /\ holder' \in [Refs -> Owners \union {Nobody, Pending}]
        /\ handle' \in [Refs -> Handle] /\ age' \in [Refs -> 0 .. GenerationMax]
    <3> DEFINE r == Top.ref
               o == Top.owner
               h == HandleOf(s)
    <3>1. /\ holder' = [holder EXCEPT ![r] = o] /\ handle' = [handle EXCEPT ![r] = h]
          /\ age' = [age EXCEPT ![r] = 0] /\ o \in Owners /\ h \in Handle
      BY <1>2, <1>3, <1>4
    <3> HIDE DEF r, o, h
    <3>2. holder' \in [Refs -> Owners \union {Nobody, Pending}]
      BY <1>1, <3>1
    <3>3. handle' \in [Refs -> Handle]
      BY <1>1, <3>1
    <3>4. age' \in [Refs -> 0 .. GenerationMax]
      <4>1. 0 \in 0 .. GenerationMax
        BY <1>1
      <4> QED
        BY <4>1, <1>1, <3>1
    <3> QED
      BY <3>2, <3>3, <3>4
  <2> QED
    BY <1>2, <1>5, <1>8, <2>1, <2>2 DEF Managing, TypeOK, registry
<1> QED
  BY <1>5, <1>9, <1>11, <1>12, <1>13 DEF Managing

\* A load callback fails with storage: the callback changes, not its record.
LEMMA FailureKeepsManaging ==
  ASSUME Managing, LoadFailsWithPayload
  PROVE  Managing'
<1> DEFINE s == Top.slot
           n == Len(callStack)
           f == [Top EXCEPT !.kind = "fail"]
<1>1. /\ state \in [Slots -> States] /\ callStack \in Seq(Frame)
      /\ lookup \in [Ids -> Slots \union {NoSlot}]
  BY DEF Managing, TypeOK
<1>2. /\ callStack # <<>> /\ Top.kind = "load"
      /\ state' = [state EXCEPT ![s] = "FAILED"]
      /\ callStack' = [callStack EXCEPT ![n] = f]
      /\ UNCHANGED <<initialized, bShuttingDown, registry, key, typeSlot,
                     nGeneration, cReferences, lookup, freeList, liveList,
                     cCallbackDepth, client>>
  BY DEF LoadFailsWithPayload, Top
<1>3. /\ n \in DOMAIN callStack /\ Top \in Frame /\ s \in Slots
      /\ state[s] = "LOADING" /\ callStack[n] = Top
  BY <1>2, TopFrame DEF Managing, FrameState, Top
<1>4. /\ f \in Frame /\ f.slot = s /\ f.kind = "fail" /\ f.iType = Top.iType
  BY <1>3 DEF Frame
<1> HIDE DEF s, n, f
<1>5. /\ DOMAIN callStack' = DOMAIN callStack /\ callStack'[n] = f
      /\ \A i \in DOMAIN callStack : i # n => callStack'[i] = callStack[i]
  BY <1>2, <1>3
<1>6. callStack' \in Seq(Frame) /\ Len(callStack') = Len(callStack)
  BY <1>1, <1>2, <1>3, <1>4
<1>7. \A i \in DOMAIN callStack : callStack'[i].slot = callStack[i].slot
                                /\ callStack'[i].iType = callStack[i].iType
  BY <1>3, <1>4, <1>5, TopFrame DEF s
<1>8. \A i \in DOMAIN callStack : callStack[i].slot \in Slots
                                /\ (i # n => callStack[i].slot # s)
  BY <1>3, FrameSlots DEF Managing, CallbacksOwnTheirRecord, s
<1>9. CallbacksOwnTheirRecord'
  <2>1. cCallbackDepth' = Len(callStack')
    BY <1>2, <1>6 DEF Managing, CallbacksOwnTheirRecord
  <2>2. \A i \in DOMAIN callStack' :
          state'[callStack'[i].slot] = FrameState(callStack'[i].kind)
    <3> SUFFICES ASSUME NEW i \in DOMAIN callStack
                 PROVE  state'[callStack'[i].slot] = FrameState(callStack'[i].kind)
      BY <1>5
    <3>1. CASE i = n
      BY <3>1, <1>1, <1>2, <1>3, <1>4, <1>5 DEF FrameState
    <3>2. CASE i # n
      BY <3>2, <1>1, <1>2, <1>3, <1>5, <1>8 DEF Managing, CallbacksOwnTheirRecord
    <3> QED
      BY <3>1, <3>2
  <2>3. \A i, j \in DOMAIN callStack' :
          callStack'[i].slot = callStack'[j].slot => i = j
    BY <1>5, <1>7 DEF Managing, CallbacksOwnTheirRecord
  <2>4. \A p \in Slots : state'[p] \in {"LOADING", "FAILED", "UNLOADING"} =>
          \E i \in DOMAIN callStack' : callStack'[i].slot = p
    <3> SUFFICES ASSUME NEW p \in Slots, state'[p] \in {"LOADING", "FAILED", "UNLOADING"}
                 PROVE  \E i \in DOMAIN callStack : callStack[i].slot = p
      BY <1>5, <1>7
    <3>1. state[p] \in {"LOADING", "FAILED", "UNLOADING"}
      BY <1>1, <1>2, <1>3
    <3> QED
      BY <3>1 DEF Managing, CallbacksOwnTheirRecord
  <2> QED
    BY <2>1, <2>2, <2>3, <2>4 DEF CallbacksOwnTheirRecord, FrameState
<1>10. types' = types /\ key' = key /\ typeSlot' = typeSlot /\ lookup' = lookup
  BY <1>2 DEF registry
<1>11. /\ IdentitiesExact'
       /\ \A p \in Slots : state'[p] # "EMPTY" =>
            \E i \in DOMAIN types : types[i] =
               [type |-> TypeOf[key[p]], iTypeSlot |-> typeSlot[p]]
  BY <1>2, <1>3, <1>10, StillInUse DEF States
<1>12. LoaderEntriesStable'
  BY <1>5, <1>7, <1>10, <1>11 DEF Managing, LoaderEntriesStable
<1>13. ListsExact'
  BY <1>1, <1>2, <1>3, ListKept DEF Managing, ListsExact
<1>14. TypeOK'
  <2>1. state' \in [Slots -> States]
    BY <1>1, <1>2 DEF States
  <2> QED
    BY <1>2, <1>6, <2>1 DEF Managing, TypeOK, registry, client
<1> QED
  BY <1>9, <1>11, <1>12, <1>13, <1>14 DEF Managing

\* A callback returns and its record is recycled: what LoadFails,
\* FailedUnloadReturns and UnloadReturns share.
LEMMA RecyclingKeepsManaging ==
  ASSUME Managing, callStack # <<>>, callStack' = Pop,
         cCallbackDepth' = cCallbackDepth - 1,
         NEW waiting \in Refs \union {NoSlot}, Recycle(Top.slot, waiting),
         UNCHANGED <<initialized, bShuttingDown, registry, liveList>>
  PROVE  Managing'
<1> DEFINE s == Top.slot
<1>1. /\ state \in [Slots -> States] /\ key \in [Slots -> Keys \union {NoKey}]
      /\ typeSlot \in [Slots -> 0 .. TypeSlotMax]
  BY DEF Managing, TypeOK
<1>2. s \in Slots /\ state[s] \in Transient
  BY TopFrame DEF Managing, FrameState, Frame, Transient
<1>3. /\ state' = [state EXCEPT ![s] = "EMPTY"]
      /\ key' = [key EXCEPT ![s] = NoKey] /\ typeSlot' = [typeSlot EXCEPT ![s] = 0]
  BY DEF Recycle
<1>4. /\ CallbacksOwnTheirRecord'
      /\ callStack' \in Seq(Frame) /\ cCallbackDepth' \in Nat
      /\ state' \in [Slots -> States]
      /\ \A i \in DOMAIN callStack' :
           /\ i \in DOMAIN callStack /\ callStack'[i] = callStack[i]
           /\ callStack[i].slot \in Slots /\ callStack[i].slot # s
  BY <1>3, CallbackReturns DEF Managing
<1>5. /\ key' \in [Slots -> Keys \union {NoKey}]
      /\ typeSlot' \in [Slots -> 0 .. TypeSlotMax]
      /\ nGeneration' \in [Slots -> 1 .. GenerationMax]
      /\ cReferences' \in [Slots -> 0 .. ReferenceMax]
      /\ lookup' \in [Ids -> Slots \union {NoSlot}]
      /\ freeList' \in Seq(Slots) /\ liveList' \in Seq(Slots)
      /\ holder' \in [Refs -> Owners \union {Nobody, Pending}]
      /\ handle' \in [Refs -> Handle]
      /\ age' \in [Refs -> 0 .. GenerationMax]
      /\ ListsExact' /\ IdentitiesExact'
  BY <1>2, RecordRecycled
<1> HIDE DEF s
<1>6. LoaderEntriesStable'
  <2>1. types' = types
    BY DEF registry
  <2>2. ASSUME NEW i \in DOMAIN callStack'
        PROVE  /\ callStack'[i].iType \in DOMAIN types
               /\ types[callStack'[i].iType].type = TypeOf[key'[callStack'[i].slot]]
    <3>1. key'[callStack[i].slot] = key[callStack[i].slot]
      BY <1>1, <1>3, <1>4
    <3> QED
      BY <3>1, <1>4 DEF Managing, LoaderEntriesStable
  <2>3. ASSUME NEW p \in Slots, state'[p] # "EMPTY"
        PROVE  \E i \in DOMAIN types :
                 types[i] = [type |-> TypeOf[key'[p]], iTypeSlot |-> typeSlot'[p]]
    <3>1. p # s /\ state[p] # "EMPTY" /\ key'[p] = key[p] /\ typeSlot'[p] = typeSlot[p]
      BY <2>3, <1>1, <1>3
    <3> QED
      BY <3>1 DEF Managing, LoaderEntriesStable
  <2> QED
    BY <2>1, <2>2, <2>3 DEF LoaderEntriesStable
<1>7. TypeOK'
  BY <1>4, <1>5 DEF Managing, TypeOK, registry
<1> QED
  BY <1>4, <1>5, <1>6, <1>7 DEF Managing

\* The three callbacks after which a record is recycled.
LEMMA ReturnsKeepManaging ==
  ASSUME Managing, LoadFails \/ FailedUnloadReturns \/ UnloadReturns
  PROVE  Managing'
<1>1. callStack # <<>>
  BY DEF LoadFails, FailedUnloadReturns, UnloadReturns
<1>2. Top.ref \in Refs \union {NoSlot}
  BY <1>1, TopFrame DEF Managing, Frame
<1>3. CASE LoadFails
  BY <1>2, <1>3, RecyclingKeepsManaging DEF LoadFails
<1>4. CASE FailedUnloadReturns
  BY <1>2, <1>4, RecyclingKeepsManaging DEF FailedUnloadReturns
<1>5. CASE UnloadReturns
  BY <1>5, RecyclingKeepsManaging DEF UnloadReturns
<1> QED
  BY <1>3, <1>4, <1>5

\* Res_RegisterType adds a loader entry after the others.
LEMMA RegistrationKeepsManaging ==
  ASSUME Managing, NEW t \in Types, RegisterType(t)
  PROVE  Managing'
<1> DEFINE e == [type |-> t, iTypeSlot |-> iNextTypeSlot]
           Entry == [type : Types, iTypeSlot : 1 .. TypeSlotMax]
<1>1. /\ types \in Seq(Entry) /\ iNextTypeSlot \in 1 .. TypeSlotMax + 1
      /\ TypeSlotMax \in Nat /\ cTypeCapacity \in Nat
  BY ConstantAssumption DEF Managing, TypeOK
<1>2. /\ Len(types) < cTypeCapacity /\ iNextTypeSlot <= TypeSlotMax
      /\ types' = Append(types, e) /\ iNextTypeSlot' = iNextTypeSlot + 1
      /\ UNCHANGED <<initialized, bShuttingDown, record, lookup, freeList,
                     liveList, callStack, cCallbackDepth, client>>
  BY DEF RegisterType
<1>3. e \in Entry
  BY <1>1, <1>2
<1> HIDE DEF e, Entry
<1>4. /\ types' \in Seq(Entry) /\ Len(types') = Len(types) + 1
      /\ DOMAIN types' = 1 .. Len(types) + 1
      /\ \A i \in 1 .. Len(types) : types'[i] = types[i]
  BY <1>1, <1>2, <1>3, AppendedSeq
<1>5. DOMAIN types = 1 .. Len(types) /\ Len(types) \in Nat
  BY <1>1, LenProperties
<1>6. \A i \in DOMAIN types : i \in DOMAIN types' /\ types'[i] = types[i]
  BY <1>4, <1>5
<1>7. LoaderEntriesStable'
  BY <1>2, <1>6 DEF Managing, LoaderEntriesStable, record
<1>8. CallbacksOwnTheirRecord'
  BY <1>2 DEF Managing, CallbacksOwnTheirRecord, record
<1>9. ListsExact' /\ IdentitiesExact'
  BY <1>2 DEF Managing, ListsExact, IdentitiesExact, record
<1>10. TypeOK'
  <2>1. Len(types') <= cTypeCapacity /\ iNextTypeSlot' \in 1 .. TypeSlotMax + 1
    BY <1>1, <1>2, <1>4, <1>5
  <2> QED
    BY <1>2, <1>4, <2>1 DEF Managing, TypeOK, record, client, Entry
<1> QED
  BY <1>7, <1>8, <1>9, <1>10 DEF Managing

\* No callback is in progress and no record in use is of the type, so moving
\* the later loader entries down disturbs nobody.
LEMMA UnregistrationKeepsManaging ==
  ASSUME Managing, NEW t \in Types, UnregisterType(t)
  PROVE  Managing'
<1> DEFINE k == FindType(t)
           Entry == [type : Types, iTypeSlot : 1 .. TypeSlotMax]
<1>1. types \in Seq(Entry) /\ callStack \in Seq(Frame) /\ cTypeCapacity \in Nat
  BY ConstantAssumption DEF Managing, TypeOK
<1>2. /\ cCallbackDepth = 0 /\ Registered(t)
      /\ \A s \in Slots : state[s] # "EMPTY" => TypeOf[key[s]] # t
      /\ types' = RemoveAt(types, k)
      /\ UNCHANGED <<initialized, bShuttingDown, iNextTypeSlot, record, lookup,
                     freeList, liveList, callStack, cCallbackDepth, client>>
  BY DEF UnregisterType, MayChangeRegistry
<1>3. /\ DOMAIN types = 1 .. Len(types) /\ Len(types) \in Nat
      /\ k \in DOMAIN types /\ types[k].type = t
  BY <1>1, <1>2, TypesFound, LenProperties
<1> HIDE DEF k, Entry
<1>4. /\ types' \in Seq(Entry) /\ Len(types') = Len(types) - 1
      /\ DOMAIN types' = 1 .. Len(types) - 1
      /\ \A j \in 1 .. Len(types) - 1 :
           types'[j] = IF j < k THEN types[j] ELSE types[j + 1]
  BY <1>1, <1>2, <1>3, RemovedSeq
<1>5. DOMAIN callStack' = {}
  <2>1. Len(callStack) = 0 /\ callStack' = callStack
    BY <1>2 DEF Managing, CallbacksOwnTheirRecord
  <2>2. DOMAIN callStack = 1 .. Len(callStack)
    BY <1>1, LenProperties
  <2> QED
    BY <2>1, <2>2
<1>6. ASSUME NEW i \in DOMAIN types, i # k
      PROVE  \E j \in DOMAIN types' : types'[j] = types[i]
  <2>1. CASE i < k
    BY <2>1, <1>3, <1>4
  <2>2. CASE i > k
    <3>1. i - 1 \in DOMAIN types' /\ types'[i - 1] = types[i]
      BY <2>2, <1>3, <1>4
    <3> QED
      BY <3>1
  <2> QED
    BY <1>3, <1>6, <2>1, <2>2
<1>7. LoaderEntriesStable'
  <2>1. ASSUME NEW s \in Slots, state[s] # "EMPTY"
        PROVE  \E j \in DOMAIN types' :
                 types'[j] = [type |-> TypeOf[key[s]], iTypeSlot |-> typeSlot[s]]
    <3>1. PICK i \in DOMAIN types :
            types[i] = [type |-> TypeOf[key[s]], iTypeSlot |-> typeSlot[s]]
      BY <2>1 DEF Managing, LoaderEntriesStable
    <3>2. i # k
      BY <2>1, <3>1, <1>2, <1>3
    <3> QED
      BY <3>1, <3>2, <1>6
  <2> QED
    BY <2>1, <1>2, <1>5 DEF LoaderEntriesStable, record
<1>8. CallbacksOwnTheirRecord'
  BY <1>2 DEF Managing, CallbacksOwnTheirRecord, record
<1>9. ListsExact' /\ IdentitiesExact'
  BY <1>2 DEF Managing, ListsExact, IdentitiesExact, record
<1>10. TypeOK'
  <2>1. Len(types') <= cTypeCapacity
    BY <1>1, <1>3, <1>4 DEF Managing, TypeOK
  <2> QED
    BY <1>2, <1>4, <2>1 DEF Managing, TypeOK, record, client, Entry
<1> QED
  BY <1>7, <1>8, <1>9, <1>10 DEF Managing

-----------------------------------------------------------------------------
(* Lifecycle. *)

\* The free list that Res_Init builds has every record once.
LEMMA FreshFreeList ==
  LET list == [i \in 1 .. cResourceCapacity |-> i - 1]
  IN  list \in Seq(Slots) /\ Injective(list) /\ Members(list) = Slots
<1> DEFINE list == [i \in 1 .. cResourceCapacity |-> i - 1]
<1>1. cResourceCapacity \in Nat
  BY ConstantAssumption
<1>2. \A i \in 1 .. cResourceCapacity : i - 1 \in Slots
  BY <1>1 DEF Slots
<1>3. list \in Seq(Slots)
  BY <1>1, <1>2
<1>4. Injective(list)
  BY <1>1 DEF Injective
<1>5. Members(list) \subseteq Slots
  BY <1>2 DEF Members
<1>6. ASSUME NEW s \in Slots PROVE s \in Members(list)
  <2>1. s + 1 \in DOMAIN list /\ list[s + 1] = s
    BY <1>1 DEF Slots
  <2> QED
    BY <2>1 DEF Members
<1> QED
  BY <1>3, <1>4, <1>5, <1>6

\* A manager that was not initialized yet is as Res_Init leaves it.
LEMMA InitIsManaging == ASSUME Init PROVE Managing
<1>1. /\ TypeSlotMax \in Nat \ {0} /\ GenerationMax \in Nat \ {0}
      /\ ReferenceMax \in Nat /\ cTypeCapacity \in Nat /\ cResourceCapacity \in Nat \ {0}
  BY ConstantAssumption
<1>2. NoHandle \in Handle
  BY <1>1 DEF NoHandle, Handle, Slots
<1>3. TypeOK
  <2>1. /\ state \in [Slots -> States] /\ key \in [Slots -> Keys \union {NoKey}]
        /\ typeSlot \in [Slots -> 0 .. TypeSlotMax]
        /\ nGeneration \in [Slots -> 1 .. GenerationMax]
        /\ cReferences \in [Slots -> 0 .. ReferenceMax]
    BY <1>1 DEF Init, States
  <2>2. /\ lookup \in [Ids -> Slots \union {NoSlot}]
        /\ holder \in [Refs -> Owners \union {Nobody, Pending}]
        /\ handle \in [Refs -> Handle] /\ age \in [Refs -> 0 .. GenerationMax]
    BY <1>1, <1>2 DEF Init
  <2>3. /\ types \in Seq([type : Types, iTypeSlot : 1 .. TypeSlotMax])
        /\ Len(types) <= cTypeCapacity
        /\ iNextTypeSlot \in 1 .. TypeSlotMax + 1
    BY <1>1 DEF Init
  <2>4. freeList \in Seq(Slots)
    BY FreshFreeList DEF Init
  <2>5. /\ initialized \in BOOLEAN /\ bShuttingDown \in BOOLEAN
        /\ liveList \in Seq(Slots) /\ callStack \in Seq(Frame)
        /\ cCallbackDepth \in Nat
    <3>1. /\ initialized = FALSE /\ bShuttingDown = FALSE /\ liveList = <<>>
          /\ callStack = <<>> /\ cCallbackDepth = 0
      BY DEF Init
    <3>2. initialized \in BOOLEAN /\ bShuttingDown \in BOOLEAN
      BY <3>1, Zenon
    <3>3. /\ liveList \in Seq(Slots) /\ callStack \in Seq(Frame)
          /\ cCallbackDepth \in Nat
      BY <3>1
    <3> QED
      BY <3>2, <3>3
  <2> QED
    BY <2>1, <2>2, <2>3, <2>4, <2>5 DEF TypeOK
<1>4. CallbacksOwnTheirRecord
  BY DEF Init, CallbacksOwnTheirRecord
<1>5. LoaderEntriesStable
  BY DEF Init, LoaderEntriesStable
<1>6. ListsExact
  <2>1. ExactList(freeList, state, "EMPTY")
    BY FreshFreeList DEF Init, ExactList
  <2>2. ExactList(liveList, state, "READY")
    BY DEF Init, ExactList, Injective, Members
  <2> QED
    BY <2>1, <2>2 DEF ListsExact
<1>7. IdentitiesExact
  BY DEF Init, IdentitiesExact
<1> QED
  BY <1>3, <1>4, <1>5, <1>6, <1>7 DEF Managing

\* The end of Res_Shutdown leaves the manager as the next Res_Init needs it.
LEMMA EndKeepsManaging == ASSUME Managing, ShutdownEnd PROVE Managing'
<1>1. /\ TypeSlotMax \in Nat \ {0} /\ GenerationMax \in Nat \ {0}
      /\ ReferenceMax \in Nat /\ cTypeCapacity \in Nat /\ cResourceCapacity \in Nat \ {0}
  BY ConstantAssumption
<1>2. NoHandle \in Handle
  BY <1>1 DEF NoHandle, Handle, Slots
<1>3. TypeOK'
  <2>1. /\ state' \in [Slots -> States] /\ key' \in [Slots -> Keys \union {NoKey}]
        /\ typeSlot' \in [Slots -> 0 .. TypeSlotMax]
        /\ nGeneration' \in [Slots -> 1 .. GenerationMax]
        /\ cReferences' \in [Slots -> 0 .. ReferenceMax]
    BY <1>1 DEF ShutdownEnd, States
  <2>2. /\ lookup' \in [Ids -> Slots \union {NoSlot}]
        /\ holder' \in [Refs -> Owners \union {Nobody, Pending}]
        /\ handle' \in [Refs -> Handle] /\ age' \in [Refs -> 0 .. GenerationMax]
    BY <1>1, <1>2 DEF ShutdownEnd
  <2>3. /\ types' \in Seq([type : Types, iTypeSlot : 1 .. TypeSlotMax])
        /\ Len(types') <= cTypeCapacity
        /\ iNextTypeSlot' \in 1 .. TypeSlotMax + 1
    BY <1>1 DEF ShutdownEnd
  <2>4. freeList' \in Seq(Slots)
    BY FreshFreeList DEF ShutdownEnd
  <2>5. /\ initialized' \in BOOLEAN /\ bShuttingDown' \in BOOLEAN
        /\ liveList' \in Seq(Slots) /\ callStack' \in Seq(Frame)
        /\ cCallbackDepth' \in Nat
    BY DEF ShutdownEnd, Managing, TypeOK
  <2> QED
    BY <2>1, <2>2, <2>3, <2>4, <2>5 DEF TypeOK
<1>4. CallbacksOwnTheirRecord'
  BY DEF ShutdownEnd, Managing, CallbacksOwnTheirRecord
<1>5. LoaderEntriesStable'
  BY DEF ShutdownEnd, LoaderEntriesStable
<1>6. ListsExact'
  <2>1. ExactList(freeList', state', "EMPTY")
    BY FreshFreeList DEF ShutdownEnd, ExactList
  <2>2. ExactList(liveList', state', "READY")
    BY DEF ShutdownEnd, ExactList, Injective, Members
  <2> QED
    BY <2>1, <2>2 DEF ListsExact
<1>7. IdentitiesExact'
  BY DEF ShutdownEnd, IdentitiesExact
<1> QED
  BY <1>3, <1>4, <1>5, <1>6, <1>7 DEF Managing

\* The calls that only change a phase of the lifecycle.
LEMMA PhasesKeepManaging ==
  ASSUME Managing, ManagerInit \/ Shutdown \/ UNCHANGED vars
  PROVE  Managing'
<1>1. /\ UNCHANGED <<registry, record, lookup, freeList, liveList, callStack,
                     cCallbackDepth, client>>
      /\ initialized' \in BOOLEAN /\ bShuttingDown' \in BOOLEAN
  BY DEF ManagerInit, Shutdown, vars, Managing, TypeOK
<1>2. TypeOK'
  BY <1>1 DEF Managing, TypeOK, registry, record, client
<1> QED
  BY <1>1, <1>2, TablesUntouched DEF Managing, registry, record

-----------------------------------------------------------------------------
(* The theorems. *)

\* Every step keeps the invariant.
LEMMA StepKeepsManaging == Managing /\ [Next]_vars => Managing'
<1> SUFFICES ASSUME Managing, [Next]_vars PROVE Managing'
  OBVIOUS
<1>1. ASSUME NEW t \in Types, RegisterType(t) \/ UnregisterType(t) PROVE Managing'
  BY <1>1, RegistrationKeepsManaging, UnregistrationKeepsManaging
<1>2. ASSUME NEW k \in Keys, NEW r \in Refs, NEW o \in Owners,
             AcquireHit(k, r, o) \/ AcquireMiss(k, r, o)
      PROVE  Managing'
  BY <1>2, HitKeepsManaging, MissKeepsManaging
<1>3. ASSUME NEW r \in Refs, NEW r2 \in Refs, NEW o \in Owners, Retain(r, r2, o)
      PROVE  Managing'
  BY <1>3, RetainKeepsManaging
<1>4. ASSUME NEW r \in Refs, ReleaseShared(r) \/ ReleaseLast(r) \/ ReleaseRefused(r)
      PROVE  Managing'
  BY <1>4, SharedReleaseKeepsManaging, LastReleaseKeepsManaging,
     RefusedReleaseKeepsManaging
<1>5. CASE ManagerInit \/ Shutdown \/ UNCHANGED vars
  BY <1>5, PhasesKeepManaging
<1>6. CASE ShutdownUnload \/ ShutdownEnd
  BY <1>6, ForcedUnloadKeepsManaging, EndKeepsManaging
<1>7. CASE LoadSucceeds \/ LoadFails \/ LoadFailsWithPayload
           \/ FailedUnloadReturns \/ UnloadReturns
  BY <1>7, LoadKeepsManaging, FailureKeepsManaging, ReturnsKeepManaging
<1> QED
  BY <1>1, <1>2, <1>3, <1>4, <1>5, <1>6, <1>7 DEF Next

\* The invariant holds in every state the manager can reach.
LEMMA AlwaysManaging == Spec => []Managing
<1>1. Init => Managing
  BY InitIsManaging
<1> QED
  BY <1>1, StepKeepsManaging, PTL DEF Spec

\* Every variable keeps its type: generations stay live, references within
\* their width, slots within the table, however callbacks nest.
THEOREM ManagerTypeCorrect == Spec => []TypeOK
<1>1. Managing => TypeOK
  BY DEF Managing
<1> QED
  BY <1>1, AlwaysManaging, PTL

\* However callbacks call back into the manager, each record that is loading,
\* failed or unloading belongs to exactly one callback in progress, and the
\* depth that guards Res_Shutdown and the registry counts them.
THEOREM CallbacksMatched == Spec => []CallbacksOwnTheirRecord
<1>1. Managing => CallbacksOwnTheirRecord
  BY DEF Managing
<1> QED
  BY <1>1, AlwaysManaging, PTL

\* The loader entry kept by pointer across a callback (pType in Res_Acquire) is
\* the entry of its record's type when the callback returns, although
\* Res_UnregisterType compacts the array.
THEOREM LoadersStay == Spec => []LoaderEntriesStable
<1>1. Managing => LoaderEntriesStable
  BY DEF Managing
<1> QED
  BY <1>1, AlwaysManaging, PTL

\* How often an exact list names a record.
LEMMA NamedOnce ==
  ASSUME NEW list, NEW st, NEW v, ExactList(list, st, v), NEW s \in Slots
  PROVE  Cardinality({i \in DOMAIN list : list[i] = s}) =
           IF st[s] = v THEN 1 ELSE 0
<1> DEFINE Places == {i \in DOMAIN list : list[i] = s}
<1>1. CASE st[s] = v
  <2>1. PICK i \in DOMAIN list : list[i] = s
    BY <1>1 DEF ExactList, Members
  <2>2. Places = {i}
    BY <2>1 DEF ExactList, Injective
  <2> QED
    BY <1>1, <2>2, FS_Singleton
<1>2. CASE st[s] # v
  <2>1. Places = {}
    BY <1>2 DEF ExactList, Members
  <2> QED
    BY <1>2, <2>1, FS_EmptySet
<1> QED
  BY <1>1, <1>2

\* The identity index, the free list and the list of published records agree
\* with the records: no identity is loaded twice, no slot is lost or free twice.
THEOREM TablesStayExact == Spec => []TablesAgree
<1>1. ASSUME Managing PROVE TablesAgree
  <2>1. ExactList(freeList, state, "EMPTY") /\ ExactList(liveList, state, "READY")
    BY <1>1 DEF Managing, ListsExact
  <2>2. ASSUME NEW s \in Slots
        PROVE  /\ Cardinality({i \in DOMAIN freeList : freeList[i] = s}) =
                    (IF state[s] = "EMPTY" THEN 1 ELSE 0)
               /\ Cardinality({i \in DOMAIN liveList : liveList[i] = s}) =
                    (IF state[s] = "READY" THEN 1 ELSE 0)
    <3>1. Cardinality({i \in DOMAIN freeList : freeList[i] = s}) =
            (IF state[s] = "EMPTY" THEN 1 ELSE 0)
      BY <2>1, NamedOnce
    <3>2. Cardinality({i \in DOMAIN liveList : liveList[i] = s}) =
            (IF state[s] = "READY" THEN 1 ELSE 0)
      BY <2>1, NamedOnce
    <3> QED
      BY <3>1, <3>2
  <2>3. IdentitiesExact
    BY <1>1 DEF Managing
  <2> QED
    BY <2>2, <2>3 DEF IdentitiesExact, TablesAgree
<1>2. Managing => TablesAgree
  BY <1>1
<1> QED
  BY <1>2, AlwaysManaging, PTL
-----------------------------------------------------------------------------
(* The invariants about references and handles. *)

\* A callback that was started by an acquisition, which waits for it.
Loads(frame) == frame.kind \in {"load", "fail"}

\* A load waits with a free reference of its own, on behalf of the application or
\* of a load further down the stack; none is in progress once a shutdown began.
Granting ==
  /\ \A i \in DOMAIN callStack : Loads(callStack[i]) =>
       /\ ~bShuttingDown
       /\ callStack[i].ref \in Refs /\ holder[callStack[i].ref] = Pending
       /\ \/ callStack[i].owner = App
          \/ \E j \in DOMAIN callStack :
               /\ j < i /\ callStack[j].kind = "load"
               /\ callStack[j].slot = callStack[i].owner
  /\ \A i, j \in DOMAIN callStack :
       Loads(callStack[i]) /\ Loads(callStack[j]) /\ callStack[i].ref = callStack[j].ref
         => i = j

Counting ==
  \A s \in Slots : state[s] = "READY" =>
    cReferences[s] = Cardinality(HoldersOf(s)) /\ cReferences[s] > 0

Resolving ==
  bShuttingDown \/ \A r \in Refs : holder[r] \in Owners => IsReady(handle[r])

Before(list, a, b) ==
  \E i, j \in DOMAIN list : i < j /\ list[i] = a /\ list[j] = b

\* What a payload holds is published, and was before the payload was.
Depending ==
  \A r \in Refs : holder[r] \in Slots =>
    /\ IsReady(handle[r]) /\ state[holder[r]] # "EMPTY"
    /\ state[holder[r]] = "READY" => Before(liveList, handle[r].slot, holder[r])

Holding == Granting /\ Counting /\ Resolving /\ Depending

\* How far the generation of a slot has gone on since a handle to it was made.
Ageing ==
  \A r \in Refs : handle[r] # NoHandle =>
    /\ handle[r].gen \in 1 .. GenerationMax
    /\ age[r] < GenerationMax =>
         LET now == nGeneration[handle[r].slot]
         IN  now = handle[r].gen + age[r] \/ now + GenerationMax = handle[r].gen + age[r]

-----------------------------------------------------------------------------
(* Handles and their holders. *)

\* What TypeOK says of the variables that clients see.
LEMMA ClientTypes ==
  ASSUME TypeOK
  PROVE  /\ holder \in [Refs -> Owners \union {Nobody, Pending}]
         /\ handle \in [Refs -> Handle] /\ age \in [Refs -> 0 .. GenerationMax]
         /\ nGeneration \in [Slots -> 1 .. GenerationMax]
         /\ typeSlot \in [Slots -> 0 .. TypeSlotMax]
         /\ state \in [Slots -> States]
         /\ cReferences \in [Slots -> 0 .. ReferenceMax]
         /\ liveList \in Seq(Slots) /\ callStack \in Seq(Frame)
         /\ Nobody \notin Owners /\ Pending \notin Owners /\ Nobody # Pending
         /\ App \notin Slots /\ App \in Owners /\ Slots \subseteq Owners
         /\ NoSlot \notin Refs
         /\ GenerationMax \in Nat \ {0} /\ ReferenceMax \in Nat \ {0}
  BY ConstantAssumption DEF TypeOK, Owners

\* Res_Get succeeds on the handle that the manager would make now.
LEMMA HandleResolves ==
  ASSUME TypeOK, NEW h \in Handle
  PROVE  IsReady(h) <=> h = HandleOf(h.slot) /\ state[h.slot] = "READY"
<1>1. h = [slot |-> h.slot, gen |-> h.gen, tslot |-> h.tslot] /\ h.slot \in Slots
  BY DEF Handle
<1>2. nGeneration[h.slot] \in 1 .. GenerationMax
  BY <1>1, ClientTypes
<1>3. HandleOf(h.slot) # NoHandle
  BY <1>2, ClientTypes DEF HandleOf, NoHandle
<1>4. HandleOf(h.slot) = [slot |-> h.slot, gen |-> nGeneration[h.slot],
                          tslot |-> typeSlot[h.slot]]
  BY DEF HandleOf
<1> QED
  BY <1>1, <1>3, <1>4 DEF IsReady, ResolveHandle

\* The handle of a slot names it.
LEMMA HandleSlots == \A s : HandleOf(s).slot = s
  BY DEF HandleOf

\* The references to a slot are finitely many.
LEMMA HoldersFinite ==
  ASSUME NEW s
  PROVE  /\ IsFiniteSet(HoldersOf(s)) /\ Cardinality(HoldersOf(s)) \in Nat
         /\ HoldersOf(s) \subseteq Refs
  BY ConstantAssumption, FS_Subset, FS_CardinalityType DEF HoldersOf

\* A record that one reference holds has no other holder.
LEMMA OnlyHolder ==
  ASSUME NEW s, NEW r \in HoldersOf(s), Cardinality(HoldersOf(s)) = 1
  PROVE  HoldersOf(s) = {r}
<1>1. IsFiniteSet(HoldersOf(s))
  BY HoldersFinite
<1>2. Cardinality(HoldersOf(s) \ {r}) = 0
  BY <1>1, FS_RemoveElement
<1>3. HoldersOf(s) \ {r} = {}
  BY <1>1, <1>2, FS_Difference, FS_EmptySet
<1> QED
  BY <1>3

-----------------------------------------------------------------------------
(* The order of the published records. *)

\* Appending keeps the order of a list, and the new element is the last.
LEMMA BeforeAppend ==
  ASSUME NEW S, NEW list \in Seq(S), NEW e \in S, NEW a, NEW b
  PROVE  /\ Before(list, a, b) => Before(Append(list, e), a, b)
         /\ a \in Members(list) => Before(Append(list, e), a, e)
<1>1. /\ DOMAIN list = 1 .. Len(list) /\ Len(list) \in Nat
      /\ DOMAIN Append(list, e) = 1 .. Len(list) + 1
      /\ \A i \in 1 .. Len(list) : Append(list, e)[i] = list[i]
      /\ Append(list, e)[Len(list) + 1] = e
  BY AppendedSeq, LenProperties
<1>2. ASSUME NEW i \in DOMAIN list, NEW j \in DOMAIN list, i < j,
             list[i] = a, list[j] = b
      PROVE  Before(Append(list, e), a, b)
  BY <1>1, <1>2 DEF Before
<1>3. ASSUME NEW i \in DOMAIN list, list[i] = a
      PROVE  Before(Append(list, e), a, e)
  <2>1. /\ i \in DOMAIN Append(list, e) /\ Len(list) + 1 \in DOMAIN Append(list, e)
        /\ i < Len(list) + 1 /\ Append(list, e)[i] = a
    BY <1>1, <1>3
  <2> QED
    BY <1>1, <2>1 DEF Before
<1> QED
  BY <1>2, <1>3 DEF Before, Members

\* Removing an element keeps the order of the others.
LEMMA BeforeWithout ==
  ASSUME NEW S, NEW list \in Seq(S), NEW e \in Members(list), NEW a, NEW b,
         Before(list, a, b), a # e, b # e
  PROVE  Before(Without(list, e), a, b)
<1> DEFINE k == CHOOSE i \in DOMAIN list : list[i] = e
           rest == RemoveAt(list, k)
           Place(n) == IF n < k THEN n ELSE n - 1
<1>1. k \in DOMAIN list /\ list[k] = e
  BY DEF Members
<1>2. Without(list, e) = rest
  BY DEF Without
<1> HIDE DEF k
<1>3. /\ DOMAIN list = 1 .. Len(list) /\ Len(list) \in Nat
      /\ DOMAIN rest = 1 .. Len(list) - 1
      /\ \A j \in 1 .. Len(list) - 1 :
           rest[j] = IF j < k THEN list[j] ELSE list[j + 1]
  BY <1>1, RemovedSeq, LenProperties
<1> HIDE DEF rest
<1>4. ASSUME NEW i \in DOMAIN list, i # k
      PROVE  Place(i) \in DOMAIN rest /\ rest[Place(i)] = list[i]
  BY <1>1, <1>3, <1>4
<1>5. PICK i, j \in DOMAIN list : i < j /\ list[i] = a /\ list[j] = b
  BY DEF Before
<1>6. i # k /\ j # k
  BY <1>1, <1>5
<1>7. Place(i) < Place(j)
  BY <1>1, <1>3, <1>5, <1>6
<1>8. /\ Place(i) \in DOMAIN rest /\ rest[Place(i)] = a
      /\ Place(j) \in DOMAIN rest /\ rest[Place(j)] = b
  BY <1>4, <1>5, <1>6
<1> QED
  BY <1>2, <1>7, <1>8 DEF Before

-----------------------------------------------------------------------------
(* References granted and given back. *)

\* Res_Acquire of a cached key and Res_Retain: one more reference to a published
\* record, for the application or the load in progress.
LEMMA GrantKeeps ==
  ASSUME Managing, Holding, ~bShuttingDown,
         NEW r \in Refs, NEW o \in Caller, NEW s \in Slots,
         holder[r] = Nobody, state[s] = "READY",
         cReferences' = [cReferences EXCEPT ![s] = @ + 1],
         holder' = [holder EXCEPT ![r] = o],
         handle' = [handle EXCEPT ![r] = HandleOf(s)],
         UNCHANGED <<bShuttingDown, state, typeSlot, nGeneration, liveList, callStack>>
  PROVE  Holding'
<1> USE DEF Managing
<1>1. /\ holder \in [Refs -> Owners \union {Nobody, Pending}]
      /\ handle \in [Refs -> Handle] /\ cReferences \in [Slots -> 0 .. ReferenceMax]
      /\ Nobody \notin Owners /\ Nobody # Pending /\ Pending \notin Owners
      /\ Slots \subseteq Owners /\ App \notin Slots /\ App \in Owners
      /\ ReferenceMax \in Nat
  BY ClientTypes
<1>2. o \in Owners /\ (o \in Slots => state[o] = "LOADING")
  <2>1. CASE callStack = <<>> \/ Top.kind # "load"
    BY <1>1, <2>1 DEF Caller
  <2>2. CASE callStack # <<>> /\ Top.kind = "load"
    BY <1>1, <2>2, TopFrame DEF Caller, FrameState
  <2> QED
    BY <2>1, <2>2
<1>3. HandleOf(s) \in Handle /\ HandleOf(s).slot = s
  BY HandlesMade, HandleSlots
<1>4. \A p \in Slots : HandleOf(p)' = HandleOf(p)
  BY DEF HandleOf
<1>5. \A h \in Handle : IsReady(h)' <=> IsReady(h)
  BY DEF IsReady, ResolveHandle
<1>6. IsReady(HandleOf(s))
  BY <1>3, HandleResolves
<1>7. Granting'
  BY <1>1 DEF Holding, Granting
<1>8. Counting'
  <2>1. HoldersOf(s)' = HoldersOf(s) \union {r} /\ r \notin HoldersOf(s)
    BY <1>1, <1>2, <1>4 DEF HoldersOf
  <2>2. ASSUME NEW p \in Slots, p # s PROVE HoldersOf(p)' = HoldersOf(p)
    <3>1. HandleOf(p) # HandleOf(s)
      BY <2>2, HandleSlots
    <3>2. \A q \in Refs : q # r => holder'[q] = holder[q] /\ handle'[q] = handle[q]
      BY <1>1
    <3>3. handle'[r] = HandleOf(s) /\ holder[r] \notin Owners
      BY <1>1
    <3> QED
      BY <1>4, <3>1, <3>2, <3>3 DEF HoldersOf
  <2>3. Cardinality(HoldersOf(s)') = Cardinality(HoldersOf(s)) + 1
    BY <2>1, HoldersFinite, FS_AddElement
  <2>4. Cardinality(HoldersOf(s)) \in Nat
    BY HoldersFinite
  <2>5. cReferences'[s] = cReferences[s] + 1 /\ cReferences[s] \in Nat
        /\ \A p \in Slots : p # s => cReferences'[p] = cReferences[p]
    BY <1>1
  <2> QED
    BY <2>2, <2>3, <2>4, <2>5 DEF Holding, Counting
<1>9. Resolving'
  BY <1>1, <1>5, <1>6, <1>3 DEF Holding, Resolving
<1>10. Depending'
  <2> SUFFICES ASSUME NEW q \in Refs, holder'[q] \in Slots
               PROVE  /\ IsReady(handle[q])' /\ state'[holder'[q]] # "EMPTY"
                      /\ state'[holder'[q]] = "READY" =>
                           Before(liveList', handle'[q].slot, holder'[q])
    BY DEF Depending
  <2>1. CASE q = r
    <3>1. holder'[q] = o /\ handle'[q] = HandleOf(s) /\ state'[o] = "LOADING"
      BY <1>1, <1>2, <2>1
    <3>2. IsReady(handle[q])'
      BY <3>1, <1>6 DEF IsReady, ResolveHandle
    <3> QED
      BY <3>1, <3>2
  <2>2. CASE q # r
    <3>1. holder'[q] = holder[q] /\ handle'[q] = handle[q] /\ handle[q] \in Handle
      BY <1>1, <2>2
    <3>2. IsReady(handle[q])
      BY <3>1 DEF Holding, Depending
    <3>3. IsReady(handle[q])'
      BY <3>1, <3>2 DEF IsReady, ResolveHandle
    <3> QED
      BY <3>1, <3>3 DEF Holding, Depending
  <2> QED
    BY <2>1, <2>2
<1> QED
  BY <1>7, <1>8, <1>9, <1>10 DEF Holding

\* An acquisition that finds the resource adds the reference it counts.
LEMMA HitKeeps ==
  ASSUME Managing, Holding, NEW k \in Keys, NEW r \in Refs, NEW o \in Owners,
         AcquireHit(k, r, o)
  PROVE  Holding'
<1> DEFINE s == lookup[IdOf[k]]
<1>1. lookup \in [Ids -> Slots \union {NoSlot}] /\ IdOf \in [Keys -> Ids]
  BY ConstantAssumption DEF Managing, TypeOK
<1>2. s \in Slots /\ state[s] = "READY" /\ ~bShuttingDown
  BY <1>1 DEF AcquireHit, AcquireOutcome, RejectsNewWork
<1>3. /\ o \in Caller /\ holder[r] = Nobody
      /\ cReferences' = [cReferences EXCEPT ![s] = @ + 1]
      /\ holder' = [holder EXCEPT ![r] = o]
      /\ handle' = [handle EXCEPT ![r] = HandleOf(s)]
      /\ UNCHANGED <<bShuttingDown, state, typeSlot, nGeneration, liveList, callStack>>
  BY DEF AcquireHit, AddReference, Available
<1> HIDE DEF s
<1> QED
  BY <1>2, <1>3, GrantKeeps

\* A retained reference is counted.
LEMMA RetainKeeps ==
  ASSUME Managing, Holding, NEW r \in Refs, NEW r2 \in Refs, NEW o \in Owners,
         Retain(r, r2, o)
  PROVE  Holding'
<1> DEFINE s == handle[r].slot
<1>1. handle[r] \in Handle /\ s \in Slots
  BY ClientTypes DEF Managing, Handle
<1>2. state[s] = "READY" /\ handle[r] = HandleOf(s) /\ ~bShuttingDown
  BY <1>1, HandleResolves DEF Managing, Retain, RejectsNewWork
<1>3. /\ o \in Caller /\ holder[r2] = Nobody
      /\ cReferences' = [cReferences EXCEPT ![s] = @ + 1]
      /\ holder' = [holder EXCEPT ![r2] = o]
      /\ handle' = [handle EXCEPT ![r2] = handle[r]]
      /\ UNCHANGED <<bShuttingDown, state, typeSlot, nGeneration, liveList, callStack>>
  BY DEF Retain, AddReference, Available
<1> HIDE DEF s
<1> QED
  BY <1>1, <1>2, <1>3, GrantKeeps

\* A reference is given up that the record, still published, no longer counts.
LEMMA GivenUpKeeps ==
  ASSUME Managing, Holding, NEW r \in Refs, holder[r] \in Owners,
         holder' = [holder EXCEPT ![r] = Nobody],
         \A p \in Slots : state[p] = "READY" =>
           cReferences'[p] = Cardinality(HoldersOf(p) \ {r}) /\ cReferences'[p] > 0,
         UNCHANGED <<bShuttingDown, state, typeSlot, nGeneration, liveList, callStack,
                     handle>>
  PROVE  Holding'
<1> USE DEF Managing
<1>1. /\ holder \in [Refs -> Owners \union {Nobody, Pending}]
      /\ Nobody \notin Owners /\ Nobody # Pending /\ Pending \notin Owners
      /\ Slots \subseteq Owners
  BY ClientTypes
<1>2. \A q \in Refs : q # r => holder'[q] = holder[q]
  BY <1>1
<1>3. holder'[r] = Nobody
  BY <1>1
<1>4. Granting'
  BY <1>1, <1>2 DEF Holding, Granting
<1>5. Counting'
  <2>1. \A p \in Slots : HoldersOf(p)' = HoldersOf(p) \ {r}
    BY <1>1, <1>2, <1>3 DEF HoldersOf, HandleOf
  <2> QED
    BY <2>1 DEF Counting
<1>6. \A q \in Refs : IsReady(handle[q])' <=> IsReady(handle[q])
  BY DEF IsReady, ResolveHandle
<1>7. Resolving' /\ Depending'
  BY <1>1, <1>2, <1>3, <1>6 DEF Holding, Resolving, Depending
<1> QED
  BY <1>4, <1>5, <1>7 DEF Holding

\* A release that is not the last takes one reference off the count.
LEMMA SharedReleaseKeeps ==
  ASSUME Managing, Holding, NEW r \in Refs, ReleaseShared(r)
  PROVE  Holding'
<1> DEFINE s == handle[r].slot
<1>1. handle[r] \in Handle /\ s \in Slots
  BY ClientTypes DEF Managing, Handle
<1>2. state[s] = "READY" /\ handle[r] = HandleOf(s)
  BY <1>1, HandleResolves DEF Managing, ReleaseShared
<1>3. /\ holder[r] \in Owners /\ cReferences[s] > 1
      /\ cReferences' = [cReferences EXCEPT ![s] = @ - 1]
      /\ holder' = [holder EXCEPT ![r] = Nobody]
      /\ UNCHANGED <<bShuttingDown, state, typeSlot, nGeneration, liveList, callStack,
                     handle>>
  BY DEF ReleaseShared
<1> HIDE DEF s
<1>4. r \in HoldersOf(s) /\ \A p \in Slots : p # s => r \notin HoldersOf(p)
  BY <1>2, <1>3, HandleSlots DEF HoldersOf
<1>5. /\ cReferences'[s] = cReferences[s] - 1 /\ cReferences[s] \in Nat
      /\ \A p \in Slots : p # s => cReferences'[p] = cReferences[p]
  BY <1>1, <1>3, ClientTypes DEF Managing
<1>6. ASSUME NEW p \in Slots, state[p] = "READY"
      PROVE  cReferences'[p] = Cardinality(HoldersOf(p) \ {r}) /\ cReferences'[p] > 0
  <2>1. cReferences[p] = Cardinality(HoldersOf(p)) /\ cReferences[p] > 0
    BY <1>6 DEF Holding, Counting
  <2>2. CASE p = s
    <3>1. Cardinality(HoldersOf(s) \ {r}) = Cardinality(HoldersOf(s)) - 1
      BY <1>4, HoldersFinite, FS_RemoveElement
    <3> QED
      BY <2>1, <2>2, <3>1, <1>3, <1>5
  <2>3. CASE p # s
    <3>1. HoldersOf(p) \ {r} = HoldersOf(p)
      BY <2>3, <1>4
    <3> QED
      BY <2>1, <2>3, <3>1, <1>5
  <2> QED
    BY <2>2, <2>3
<1> QED
  BY <1>3, <1>6, GivenUpKeeps

\* A release that is refused gives up a reference that no count knows.
LEMMA RefusedReleaseKeeps ==
  ASSUME Managing, Holding, NEW r \in Refs, ReleaseRefused(r)
  PROVE  Holding'
<1>1. /\ holder[r] \in Owners /\ holder' = [holder EXCEPT ![r] = Nobody]
      /\ ~(IsReady(handle[r]) /\ cReferences[handle[r].slot] > 0)
      /\ UNCHANGED <<bShuttingDown, state, typeSlot, nGeneration, liveList, callStack,
                     handle>>
      /\ cReferences' = cReferences
  BY DEF ReleaseRefused, record
<1>2. ASSUME NEW p \in Slots, state[p] = "READY"
      PROVE  cReferences'[p] = Cardinality(HoldersOf(p) \ {r}) /\ cReferences'[p] > 0
  <2>1. cReferences[p] = Cardinality(HoldersOf(p)) /\ cReferences[p] > 0
    BY <1>2 DEF Holding, Counting
  <2>2. handle[r] \in Handle
    BY ClientTypes DEF Managing
  <2>3. r \notin HoldersOf(p)
    <3> SUFFICES ASSUME handle[r] = HandleOf(p) PROVE FALSE
      BY DEF HoldersOf
    <3>1. handle[r].slot = p
      BY HandleSlots
    <3>2. IsReady(handle[r])
      BY <1>2, <2>2, <3>1, HandleResolves DEF Managing
    <3> QED
      BY <1>1, <2>1, <3>1, <3>2
  <2>4. HoldersOf(p) \ {r} = HoldersOf(p)
    BY <2>3
  <2> QED
    BY <1>1, <2>1, <2>4
<1> QED
  BY <1>1, <1>2, GivenUpKeeps

-----------------------------------------------------------------------------
(* Callbacks. *)

\* Res_Acquire of a key that is not cached: the reference waits for the load.
LEMMA MissKeeps ==
  ASSUME Managing, Holding, NEW k \in Keys, NEW r \in Refs, NEW o \in Owners,
         AcquireMiss(k, r, o)
  PROVE  Holding'
<1> USE DEF Managing
<1> DEFINE s == Head(freeList)
           f == [kind |-> "load", slot |-> s, iType |-> FindType(TypeOf[k]),
                 ref |-> r, owner |-> o]
<1>1. /\ holder \in [Refs -> Owners \union {Nobody, Pending}]
      /\ state \in [Slots -> States] /\ typeSlot \in [Slots -> 0 .. TypeSlotMax]
      /\ Nobody \notin Owners /\ Nobody # Pending /\ Pending \notin Owners
      /\ Slots \subseteq Owners /\ callStack \in Seq(Frame) /\ handle \in [Refs -> Handle]
  BY ClientTypes
<1>2. /\ o \in Caller /\ holder[r] = Nobody /\ ~bShuttingDown /\ freeList # <<>>
      /\ Registered(TypeOf[k])
      /\ typeSlot' = [typeSlot EXCEPT ![s] = types[FindType(TypeOf[k])].iTypeSlot]
      /\ state' = [state EXCEPT ![s] = "LOADING"]
      /\ callStack' = Append(callStack, f)
      /\ holder' = [holder EXCEPT ![r] = Pending]
      /\ UNCHANGED <<bShuttingDown, nGeneration, cReferences, liveList, handle>>
  BY DEF AcquireMiss, AcquireOutcome, RejectsNewWork, Available
<1>3. s \in Slots /\ state[s] = "EMPTY"
  <2>1. freeList \in Seq(Slots) /\ ExactList(freeList, state, "EMPTY")
    BY DEF TypeOK, ListsExact
  <2>2. s \in Members(freeList)
    BY <1>2, <2>1, TailedList DEF ExactList
  <2> QED
    BY <2>1, <2>2 DEF ExactList
<1>4. f.kind = "load" /\ f.ref = r /\ f.owner = o /\ f.slot = s
  OBVIOUS
<1> HIDE DEF s, f
<1>5. \A q \in Refs : q # r => holder'[q] = holder[q]
  BY <1>1, <1>2
<1>6. holder'[r] = Pending
  BY <1>1, <1>2
<1>7. \A p \in Slots : p # s => state'[p] = state[p] /\ HandleOf(p)' = HandleOf(p)
  BY <1>1, <1>2 DEF HandleOf
<1>8. state'[s] = "LOADING"
  BY <1>1, <1>2, <1>3
<1>9. /\ DOMAIN callStack = 1 .. Len(callStack) /\ Len(callStack) \in Nat
      /\ DOMAIN callStack' = 1 .. Len(callStack) + 1
      /\ \A i \in 1 .. Len(callStack) : callStack'[i] = callStack[i]
      /\ callStack'[Len(callStack) + 1] = f
  BY <1>1, <1>2
<1>10. Granting'
  <2>1. ASSUME NEW i \in DOMAIN callStack', Loads(callStack'[i])
        PROVE  /\ ~bShuttingDown'
               /\ callStack'[i].ref \in Refs /\ holder'[callStack'[i].ref] = Pending
               /\ \/ callStack'[i].owner = App
                  \/ \E j \in DOMAIN callStack' :
                       /\ j < i /\ callStack'[j].kind = "load"
                       /\ callStack'[j].slot = callStack'[i].owner
    <3>1. CASE i \in DOMAIN callStack
      <4>1. callStack'[i] = callStack[i]
        BY <3>1, <1>9
      <4>2. /\ callStack[i].ref \in Refs /\ holder[callStack[i].ref] = Pending
            /\ \/ callStack[i].owner = App
               \/ \E j \in DOMAIN callStack :
                    /\ j < i /\ callStack[j].kind = "load"
                    /\ callStack[j].slot = callStack[i].owner
        BY <2>1, <3>1, <4>1 DEF Holding, Granting
      <4>3. callStack[i].ref # r
        BY <1>1, <1>2, <4>2
      <4>4. \A j \in DOMAIN callStack :
              j \in DOMAIN callStack' /\ callStack'[j] = callStack[j]
        BY <1>9
      <4> QED
        BY <1>2, <1>5, <4>1, <4>2, <4>3, <4>4
    <3>2. CASE i \notin DOMAIN callStack
      <4>1. i = Len(callStack) + 1 /\ callStack'[i] = f
        BY <3>2, <1>9
      <4>2. CASE o = App
        BY <4>1, <4>2, <1>2, <1>4, <1>6
      <4>3. CASE o # App
        <5>1. callStack # <<>> /\ Top.kind = "load" /\ Top.slot = o
          BY <1>2, <4>3 DEF Caller
        <5>2. Len(callStack) \in DOMAIN callStack
          BY <5>1, TopFrame
        <5>3. Len(callStack) \in DOMAIN callStack' /\ Len(callStack) < i
              /\ callStack'[Len(callStack)] = Top
          BY <1>9, <4>1, <5>2 DEF Top
        <5> QED
          BY <4>1, <5>1, <5>3, <1>2, <1>4, <1>6
      <4> QED
        BY <4>2, <4>3
    <3> QED
      BY <3>1, <3>2
  <2>2. ASSUME NEW i \in DOMAIN callStack, Loads(callStack[i])
        PROVE  callStack[i].ref # r
    BY <2>2, <1>1, <1>2 DEF Holding, Granting
  <2>3. \A i, j \in DOMAIN callStack' :
          Loads(callStack'[i]) /\ Loads(callStack'[j])
            /\ callStack'[i].ref = callStack'[j].ref => i = j
    BY <2>2, <1>4, <1>9 DEF Holding, Granting
  <2> QED
    BY <2>1, <2>3 DEF Granting, Loads
<1>11. Counting'
  <2> SUFFICES ASSUME NEW p \in Slots, state'[p] = "READY"
               PROVE  cReferences'[p] = Cardinality(HoldersOf(p)') /\ cReferences'[p] > 0
    BY DEF Counting
  <2>1. p # s /\ state[p] = "READY" /\ HandleOf(p)' = HandleOf(p)
    BY <1>7, <1>8
  <2>2. HoldersOf(p)' = HoldersOf(p)
    BY <2>1, <1>1, <1>2, <1>5, <1>6 DEF HoldersOf
  <2> QED
    BY <2>1, <2>2, <1>2 DEF Holding, Counting
<1>12. ASSUME NEW q \in Refs, IsReady(handle[q]) PROVE IsReady(handle[q])'
  <2>1. handle[q] \in Handle /\ handle[q].slot \in Slots /\ handle'[q] = handle[q]
    BY <1>1, <1>2 DEF Handle
  <2>2. handle[q].slot # s /\ state[handle[q].slot] = "READY"
    BY <1>12, <1>3 DEF IsReady
  <2> QED
    BY <1>1, <1>2, <1>12, <2>1, <2>2 DEF IsReady, ResolveHandle
<1>13. Resolving'
  BY <1>1, <1>2, <1>5, <1>6, <1>12 DEF Holding, Resolving
<1>14. Depending'
  <2> SUFFICES ASSUME NEW q \in Refs, holder'[q] \in Slots
               PROVE  /\ IsReady(handle[q])' /\ state'[holder'[q]] # "EMPTY"
                      /\ state'[holder'[q]] = "READY" =>
                           Before(liveList', handle'[q].slot, holder'[q])
    BY DEF Depending
  <2>1. q # r /\ holder'[q] = holder[q]
    BY <1>1, <1>5, <1>6
  <2>2. /\ IsReady(handle[q]) /\ state[holder[q]] # "EMPTY"
        /\ state[holder[q]] = "READY" => Before(liveList, handle[q].slot, holder[q])
    BY <2>1 DEF Holding, Depending
  <2>3. holder[q] # s
    BY <1>3, <2>2
  <2> QED
    BY <1>2, <1>7, <1>12, <2>1, <2>2, <2>3
<1> QED
  BY <1>10, <1>11, <1>13, <1>14 DEF Holding

\* UnloadRecord up to its callback.  The references in given are given up with it;
\* a reference that stays held to the record is lost to the shutdown.
LEMMA UnloadKeeps ==
  ASSUME Managing, Holding, NEW s \in Slots, state[s] = "READY", BeginUnload(s),
         NEW given \in SUBSET Refs, \A q \in given : holder[q] \in Owners,
         holder' = [q \in Refs |-> IF q \in given THEN Nobody ELSE holder[q]],
         \A p \in Slots : p # s /\ state[p] = "READY" =>
           cReferences'[p] = cReferences[p] /\ \A q \in given : q \notin HoldersOf(p),
         \A q \in HoldersOf(s) \ given : bShuttingDown /\ holder[q] \notin Slots,
         UNCHANGED <<bShuttingDown, typeSlot, nGeneration, handle>>
  PROVE  Holding'
<1> USE DEF Managing
<1>1. /\ holder \in [Refs -> Owners \union {Nobody, Pending}]
      /\ state \in [Slots -> States] /\ handle \in [Refs -> Handle]
      /\ Nobody \notin Owners /\ Nobody # Pending /\ Pending \notin Owners
      /\ Slots \subseteq Owners /\ callStack \in Seq(Frame) /\ liveList \in Seq(Slots)
  BY ClientTypes
<1> DEFINE f == [kind |-> "unload", slot |-> s, iType |-> FindType(TypeOf[key[s]]),
                 ref |-> NoSlot, owner |-> App]
<1>2. /\ state' = [state EXCEPT ![s] = "UNLOADING"]
      /\ liveList' = Without(liveList, s) /\ callStack' = Append(callStack, f)
  BY DEF BeginUnload
<1>3. f.kind = "unload"
  OBVIOUS
<1> HIDE DEF f
<1>4. \A q \in Refs \ given : holder'[q] = holder[q]
  OBVIOUS
<1>5. \A q \in given : holder'[q] = Nobody
  OBVIOUS
<1>6. \A p \in Slots : p # s => state'[p] = state[p]
  BY <1>1, <1>2
<1>7. state'[s] = "UNLOADING"
  BY <1>1, <1>2
<1>8. /\ DOMAIN callStack = 1 .. Len(callStack) /\ Len(callStack) \in Nat
      /\ DOMAIN callStack' = 1 .. Len(callStack) + 1
      /\ \A i \in 1 .. Len(callStack) : callStack'[i] = callStack[i]
      /\ callStack'[Len(callStack) + 1] = f
  BY <1>1, <1>2
<1>9. \A i \in DOMAIN callStack' : Loads(callStack'[i]) =>
        i \in DOMAIN callStack /\ callStack'[i] = callStack[i]
  BY <1>3, <1>8 DEF Loads
<1>10. Granting'
  <2>1. ASSUME NEW i \in DOMAIN callStack', Loads(callStack'[i])
        PROVE  /\ ~bShuttingDown'
               /\ callStack'[i].ref \in Refs /\ holder'[callStack'[i].ref] = Pending
               /\ \/ callStack'[i].owner = App
                  \/ \E j \in DOMAIN callStack' :
                       /\ j < i /\ callStack'[j].kind = "load"
                       /\ callStack'[j].slot = callStack'[i].owner
    <3>1. i \in DOMAIN callStack /\ callStack'[i] = callStack[i]
      BY <1>9, <2>1
    <3>2. /\ ~bShuttingDown
          /\ callStack[i].ref \in Refs /\ holder[callStack[i].ref] = Pending
          /\ \/ callStack[i].owner = App
             \/ \E j \in DOMAIN callStack :
                  /\ j < i /\ callStack[j].kind = "load"
                  /\ callStack[j].slot = callStack[i].owner
      BY <2>1, <3>1 DEF Holding, Granting
    <3>3. callStack[i].ref \notin given
      BY <1>1, <3>2
    <3>4. \A j \in DOMAIN callStack :
            j \in DOMAIN callStack' /\ callStack'[j] = callStack[j]
      BY <1>8
    <3> QED
      BY <1>4, <3>1, <3>2, <3>3, <3>4
  <2>2. \A i, j \in DOMAIN callStack' :
          Loads(callStack'[i]) /\ Loads(callStack'[j])
            /\ callStack'[i].ref = callStack'[j].ref => i = j
    BY <1>9 DEF Holding, Granting
  <2> QED
    BY <2>1, <2>2 DEF Granting, Loads
<1>11. Counting'
  <2> SUFFICES ASSUME NEW p \in Slots, state'[p] = "READY"
               PROVE  cReferences'[p] = Cardinality(HoldersOf(p)') /\ cReferences'[p] > 0
    BY DEF Counting
  <2>1. p # s /\ state[p] = "READY"
    BY <1>6, <1>7
  <2>2. HoldersOf(p)' = HoldersOf(p)
    BY <2>1, <1>1, <1>4, <1>5 DEF HoldersOf, HandleOf
  <2> QED
    BY <2>1, <2>2 DEF Holding, Counting
<1>12. ASSUME NEW q \in Refs, IsReady(handle[q]), handle[q].slot # s
       PROVE  IsReady(handle[q])'
  <2>1. handle[q].slot \in Slots
    BY <1>1 DEF Handle
  <2> QED
    BY <1>6, <1>12, <2>1 DEF IsReady, ResolveHandle
<1>13. ASSUME NEW q \in Refs, holder[q] \in Owners, IsReady(handle[q]),
              handle[q].slot = s
       PROVE  q \in HoldersOf(s)
  BY <1>1, <1>13, HandleResolves DEF HoldersOf
<1>14. Resolving'
  <2> SUFFICES ASSUME ~bShuttingDown', NEW q \in Refs, holder'[q] \in Owners
               PROVE  IsReady(handle[q])'
    BY DEF Resolving
  <2>1. q \notin given /\ holder[q] \in Owners /\ ~bShuttingDown
    BY <1>1, <1>4, <1>5
  <2>2. IsReady(handle[q])
    BY <2>1 DEF Holding, Resolving
  <2> QED
    BY <2>1, <2>2, <1>12, <1>13
<1>15. Depending'
  <2> SUFFICES ASSUME NEW q \in Refs, holder'[q] \in Slots
               PROVE  /\ IsReady(handle[q])' /\ state'[holder'[q]] # "EMPTY"
                      /\ state'[holder'[q]] = "READY" =>
                           Before(liveList', handle'[q].slot, holder'[q])
    BY DEF Depending
  <2>1. q \notin given /\ holder'[q] = holder[q] /\ holder[q] \in Owners
    BY <1>1, <1>4, <1>5
  <2>2. /\ IsReady(handle[q]) /\ state[holder[q]] # "EMPTY"
        /\ state[holder[q]] = "READY" => Before(liveList, handle[q].slot, holder[q])
    BY <2>1 DEF Holding, Depending
  <2>3. handle[q].slot # s
    BY <2>1, <2>2, <1>13
  <2>4. state'[holder[q]] # "EMPTY" /\ (state'[holder[q]] = "READY" =>
          holder[q] # s /\ state[holder[q]] = "READY")
    BY <2>1, <2>2, <1>6, <1>7
  <2>5. s \in Members(liveList)
    BY DEF ListsExact, ExactList
  <2>6. state'[holder[q]] = "READY" => Before(liveList', handle[q].slot, holder[q])
    BY <1>1, <1>2, <2>2, <2>3, <2>4, <2>5, BeforeWithout
  <2> QED
    BY <2>1, <2>2, <2>3, <2>4, <2>6, <1>12
<1> QED
  BY <1>10, <1>11, <1>14, <1>15 DEF Holding

\* The last release leaves no holder.
LEMMA LastReleaseKeeps ==
  ASSUME Managing, Holding, NEW r \in Refs, ReleaseLast(r)
  PROVE  Holding'
<1> DEFINE s == handle[r].slot
<1>1. handle[r] \in Handle /\ s \in Slots
  BY ClientTypes DEF Managing, Handle
<1>2. state[s] = "READY" /\ handle[r] = HandleOf(s)
  BY <1>1, HandleResolves DEF Managing, ReleaseLast
<1>3. /\ holder[r] \in Owners /\ cReferences[s] = 1 /\ BeginUnload(s)
      /\ cReferences' = [cReferences EXCEPT ![s] = 0]
      /\ holder' = [holder EXCEPT ![r] = Nobody]
      /\ UNCHANGED <<bShuttingDown, typeSlot, nGeneration, handle>>
  BY DEF ReleaseLast
<1> HIDE DEF s
<1>4. r \in HoldersOf(s) /\ \A p \in Slots : p # s => r \notin HoldersOf(p)
  BY <1>2, <1>3, HandleSlots DEF HoldersOf
<1>5. Cardinality(HoldersOf(s)) = 1
  BY <1>1, <1>2, <1>3 DEF Holding, Counting
<1>6. HoldersOf(s) = {r}
  BY <1>4, <1>5, OnlyHolder
<1>7. \A p \in Slots : p # s => cReferences'[p] = cReferences[p]
  BY <1>3, ClientTypes DEF Managing
<1> DEFINE given == {r}
<1>8. /\ given \in SUBSET Refs /\ \A q \in given : holder[q] \in Owners
      /\ holder' = [q \in Refs |-> IF q \in given THEN Nobody ELSE holder[q]]
      /\ \A q \in HoldersOf(s) \ given : bShuttingDown /\ holder[q] \notin Slots
      /\ \A p \in Slots : p # s /\ state[p] = "READY" =>
           cReferences'[p] = cReferences[p] /\ \A q \in given : q \notin HoldersOf(p)
  BY <1>3, <1>4, <1>6, <1>7, ClientTypes DEF Managing
<1> HIDE DEF given
<1> QED
  BY <1>1, <1>2, <1>3, <1>8, UnloadKeeps

\* The newest published record has no user among the published ones.
LEMMA ForcedUnloadKeeps ==
  ASSUME Managing, Holding, ShutdownUnload
  PROVE  Holding'
<1> USE DEF Managing
<1> DEFINE s == NextVictim
<1>1. /\ bShuttingDown /\ callStack = <<>> /\ liveList # <<>> /\ BeginUnload(s)
      /\ UNCHANGED <<bShuttingDown, typeSlot, nGeneration, cReferences, holder, handle>>
  BY DEF ShutdownUnload, client
<1>2. /\ holder \in [Refs -> Owners \union {Nobody, Pending}]
      /\ liveList \in Seq(Slots) /\ state \in [Slots -> States]
      /\ handle \in [Refs -> Handle]
  BY ClientTypes
<1>3. /\ Len(liveList) \in DOMAIN liveList /\ s = liveList[Len(liveList)]
      /\ DOMAIN liveList = 1 .. Len(liveList) /\ Len(liveList) \in Nat
  BY <1>1, <1>2, EmptySeq, LenProperties DEF NextVictim
<1>4. s \in Slots /\ state[s] = "READY"
  BY <1>3 DEF ListsExact, ExactList, Members
<1> HIDE DEF s
<1>5. ASSUME NEW q \in HoldersOf(s), holder[q] \in Slots PROVE FALSE
  <2>1. q \in Refs /\ handle[q].slot = s
    BY HandleSlots DEF HoldersOf
  <2>2. /\ state[holder[q]] # "EMPTY"
        /\ state[holder[q]] = "READY" => Before(liveList, s, holder[q])
    BY <1>5, <2>1 DEF Holding, Depending
  <2>3. state[holder[q]] \notin {"LOADING", "FAILED", "UNLOADING"}
    BY <1>1, <1>5 DEF CallbacksOwnTheirRecord
  <2>4. state[holder[q]] = "READY"
    BY <1>2, <1>5, <2>2, <2>3 DEF States
  <2>5. PICK i, j \in DOMAIN liveList : i < j /\ liveList[i] = s
    BY <2>2, <2>4 DEF Before
  <2>6. i = Len(liveList)
    BY <1>3, <2>5 DEF ListsExact, ExactList, Injective
  <2> QED
    BY <1>3, <2>5, <2>6
<1> DEFINE none == {}
<1>6. /\ none \in SUBSET Refs /\ \A q \in none : holder[q] \in Owners
      /\ holder' = [q \in Refs |-> IF q \in none THEN Nobody ELSE holder[q]]
      /\ \A q \in HoldersOf(s) \ none : bShuttingDown /\ holder[q] \notin Slots
      /\ \A p \in Slots : p # s /\ state[p] = "READY" =>
           cReferences'[p] = cReferences[p] /\ \A q \in none : q \notin HoldersOf(p)
  BY <1>1, <1>2, <1>5
<1> HIDE DEF none
<1> QED
  BY <1>1, <1>4, <1>6, UnloadKeeps

\* A load callback succeeds: the reference that waited is granted.
LEMMA LoadKeeps ==
  ASSUME Managing, Holding, LoadSucceeds
  PROVE  Holding'
<1> USE DEF Managing
<1> DEFINE s == Top.slot
           r == Top.ref
           o == Top.owner
<1>1. /\ holder \in [Refs -> Owners \union {Nobody, Pending}]
      /\ handle \in [Refs -> Handle] /\ state \in [Slots -> States]
      /\ cReferences \in [Slots -> 0 .. ReferenceMax]
      /\ Nobody \notin Owners /\ Nobody # Pending /\ Pending \notin Owners
      /\ Slots \subseteq Owners /\ callStack \in Seq(Frame) /\ liveList \in Seq(Slots)
      /\ App \notin Slots /\ App \in Owners /\ ReferenceMax \in Nat
  BY ClientTypes
<1>2. /\ callStack # <<>> /\ Top.kind = "load" /\ callStack' = Pop
      /\ state' = [state EXCEPT ![s] = "READY"]
      /\ cReferences' = [cReferences EXCEPT ![s] = 1]
      /\ liveList' = Append(liveList, s)
      /\ holder' = [holder EXCEPT ![r] = o]
      /\ handle' = [handle EXCEPT ![r] = HandleOf(s)]
      /\ UNCHANGED <<bShuttingDown, typeSlot, nGeneration>>
  BY DEF LoadSucceeds
<1>3. /\ Len(callStack) \in DOMAIN callStack /\ Len(callStack) \in Nat \ {0}
      /\ s \in Slots /\ state[s] = "LOADING" /\ Top = callStack[Len(callStack)]
  BY <1>2, TopFrame DEF FrameState, Top
<1>4. /\ DOMAIN callStack' = 1 .. Len(callStack) - 1
      /\ DOMAIN callStack = 1 .. Len(callStack)
      /\ \A i \in DOMAIN callStack' : callStack'[i] = callStack[i]
  BY <1>1, <1>2, PoppedSeq, LenProperties DEF Pop
<1>5. /\ ~bShuttingDown /\ r \in Refs /\ holder[r] = Pending
      /\ \/ o = App
         \/ \E j \in DOMAIN callStack :
              j < Len(callStack) /\ callStack[j].kind = "load" /\ callStack[j].slot = o
  BY <1>2, <1>3 DEF Holding, Granting, Loads
<1>6. o \in Owners /\ o # s /\ (o \in Slots => state[o] = "LOADING")
  <2>1. CASE o = App
    BY <2>1, <1>1, <1>3
  <2>2. CASE o # App
    <3>1. PICK j \in DOMAIN callStack :
            j < Len(callStack) /\ callStack[j].kind = "load" /\ callStack[j].slot = o
      BY <2>2, <1>5
    <3>2. state[o] = "LOADING"
      BY <3>1 DEF CallbacksOwnTheirRecord, FrameState
    <3>3. o # s
      BY <3>1, <1>3 DEF CallbacksOwnTheirRecord
    <3>4. o \in Slots
      BY <3>1, FrameSlots
    <3> QED
      BY <3>2, <3>3, <3>4, <1>1
  <2> QED
    BY <2>1, <2>2
<1>7. HandleOf(s) \in Handle /\ HandleOf(s).slot = s
  BY <1>3, HandlesMade, HandleSlots
<1>8. \A i \in DOMAIN callStack' : Loads(callStack'[i]) => callStack'[i].ref # r
  <2> SUFFICES ASSUME NEW i \in DOMAIN callStack', Loads(callStack[i]),
                      callStack[i].ref = r
               PROVE  FALSE
    BY <1>4
  <2>1. i \in DOMAIN callStack /\ i # Len(callStack)
    BY <1>3, <1>4
  <2>2. Loads(callStack[Len(callStack)])
    BY <1>2, <1>3 DEF Loads
  <2> QED
    BY <2>1, <2>2, <1>3 DEF Holding, Granting
<1> HIDE DEF s, r, o
<1>9. /\ \A q \in Refs : q # r => holder'[q] = holder[q] /\ handle'[q] = handle[q]
      /\ holder'[r] = o /\ handle'[r] = HandleOf(s)
  BY <1>1, <1>2, <1>5
<1>10. /\ state'[s] = "READY" /\ cReferences'[s] = 1
       /\ \A p \in Slots :
            p # s => state'[p] = state[p] /\ cReferences'[p] = cReferences[p]
  BY <1>1, <1>2, <1>3
<1>11. \A p \in Slots : HandleOf(p)' = HandleOf(p)
  BY <1>2 DEF HandleOf
<1>12. Granting'
  <2>1. ASSUME NEW i \in DOMAIN callStack', Loads(callStack'[i])
        PROVE  /\ ~bShuttingDown'
               /\ callStack'[i].ref \in Refs /\ holder'[callStack'[i].ref] = Pending
               /\ \/ callStack'[i].owner = App
                  \/ \E j \in DOMAIN callStack' :
                       /\ j < i /\ callStack'[j].kind = "load"
                       /\ callStack'[j].slot = callStack'[i].owner
    <3>1. i \in DOMAIN callStack /\ callStack'[i] = callStack[i] /\ callStack[i].ref # r
      BY <1>3, <1>4, <1>8, <2>1
    <3>2. /\ callStack[i].ref \in Refs /\ holder[callStack[i].ref] = Pending
          /\ \/ callStack[i].owner = App
             \/ \E j \in DOMAIN callStack :
                  /\ j < i /\ callStack[j].kind = "load"
                  /\ callStack[j].slot = callStack[i].owner
      BY <2>1, <3>1 DEF Holding, Granting
    <3>3. \A j \in DOMAIN callStack :
            j < i => j \in DOMAIN callStack' /\ callStack'[j] = callStack[j]
      BY <1>3, <1>4
    <3> QED
      BY <1>2, <1>5, <1>9, <3>1, <3>2, <3>3
  <2>2. \A i, j \in DOMAIN callStack' :
          Loads(callStack'[i]) /\ Loads(callStack'[j])
            /\ callStack'[i].ref = callStack'[j].ref => i = j
    BY <1>3, <1>4 DEF Holding, Granting
  <2> QED
    BY <2>1, <2>2 DEF Granting, Loads
<1>13. \A q \in Refs : holder[q] \in Owners => IsReady(handle[q]) /\ handle[q].slot # s
  BY <1>3, <1>5 DEF Holding, Resolving, IsReady
<1>14. Counting'
  <2> SUFFICES ASSUME NEW p \in Slots, state'[p] = "READY"
               PROVE  cReferences'[p] = Cardinality(HoldersOf(p)') /\ cReferences'[p] > 0
    BY DEF Counting
  <2>1. CASE p = s
    <3>1. \A q \in Refs : q # r => ~(holder'[q] \in Owners /\ handle'[q] = HandleOf(s))
      BY <1>7, <1>9, <1>13
    <3>2. HandleOf(p)' = HandleOf(s)
      BY <1>11, <2>1
    <3>3. HoldersOf(p)' = {r}
      BY <1>5, <1>6, <1>9, <3>1, <3>2 DEF HoldersOf
    <3>4. Cardinality(HoldersOf(p)') = 1
      BY <3>3, FS_Singleton
    <3>5. cReferences'[p] = 1
      BY <2>1, <1>10
    <3> QED
      BY <3>4, <3>5
  <2>2. CASE p # s
    <3>1. HandleOf(p) # HandleOf(s)
      BY <2>2, HandleSlots
    <3>2. HoldersOf(p)' = HoldersOf(p)
      BY <1>1, <1>5, <1>9, <1>11, <3>1 DEF HoldersOf
    <3> QED
      BY <2>2, <3>2, <1>10 DEF Holding, Counting
  <2> QED
    BY <2>1, <2>2
<1>15. ASSUME NEW q \in Refs, holder'[q] \in Owners PROVE IsReady(handle[q])'
  <2>1. CASE q = r
    <3>1. HandleOf(s) # NoHandle
      BY <1>3, ClientTypes DEF HandleOf, NoHandle
    <3>2. HandleOf(s).gen = nGeneration[s] /\ HandleOf(s).tslot = typeSlot[s]
      BY DEF HandleOf
    <3> QED
      BY <2>1, <3>1, <3>2, <1>2, <1>7, <1>9, <1>10 DEF IsReady, ResolveHandle
  <2>2. CASE q # r
    <3>1. handle'[q] = handle[q] /\ IsReady(handle[q]) /\ handle[q].slot # s
      BY <2>2, <1>9, <1>13, <1>15
    <3>2. handle[q].slot \in Slots
      BY <1>1 DEF Handle
    <3> QED
      BY <3>1, <3>2, <1>2, <1>10 DEF IsReady, ResolveHandle
  <2> QED
    BY <2>1, <2>2
<1>16. Resolving'
  BY <1>15 DEF Resolving
<1>17. Depending'
  <2> SUFFICES ASSUME NEW q \in Refs, holder'[q] \in Slots
               PROVE  /\ state'[holder'[q]] # "EMPTY"
                      /\ state'[holder'[q]] = "READY" =>
                           Before(liveList', handle'[q].slot, holder'[q])
    BY <1>1, <1>15 DEF Depending
  <2>1. CASE q = r
    BY <2>1, <1>6, <1>9, <1>10
  <2>2. CASE q # r
    <3>1. /\ holder'[q] = holder[q] /\ handle'[q] = handle[q]
          /\ IsReady(handle[q]) /\ handle[q].slot \in Slots
          /\ state[holder[q]] # "EMPTY"
          /\ state[holder[q]] = "READY" => Before(liveList, handle[q].slot, holder[q])
      BY <2>2, <1>1, <1>9 DEF Holding, Depending, Handle
    <3>2. handle[q].slot \in Members(liveList)
      BY <3>1 DEF ListsExact, ExactList, IsReady
    <3>3. CASE holder[q] = s
      BY <3>1, <3>2, <3>3, <1>1, <1>2, <1>3, <1>10, BeforeAppend
    <3>4. CASE holder[q] # s
      BY <3>1, <3>4, <1>1, <1>2, <1>3, <1>10, BeforeAppend
    <3> QED
      BY <3>3, <3>4
  <2> QED
    BY <2>1, <2>2
<1> QED
  BY <1>12, <1>14, <1>16, <1>17 DEF Holding

\* A load callback fails with storage to free: only its kind changes.
LEMMA FailureKeeps ==
  ASSUME Managing, Holding, LoadFailsWithPayload
  PROVE  Holding'
<1> USE DEF Managing
<1> DEFINE s == Top.slot
           n == Len(callStack)
<1>1. /\ state \in [Slots -> States] /\ callStack \in Seq(Frame)
      /\ handle \in [Refs -> Handle] /\ Slots \subseteq Owners
  BY ClientTypes
<1>2. /\ callStack # <<>> /\ Top.kind = "load"
      /\ state' = [state EXCEPT ![s] = "FAILED"]
      /\ callStack' = [callStack EXCEPT ![n].kind = "fail"]
      /\ UNCHANGED <<bShuttingDown, typeSlot, nGeneration, cReferences, liveList,
                     holder, handle>>
  BY DEF LoadFailsWithPayload, client
<1>3. /\ n \in DOMAIN callStack /\ n \in Nat \ {0} /\ s \in Slots
      /\ state[s] = "LOADING" /\ Top = callStack[n] /\ DOMAIN callStack = 1 .. n
  BY <1>1, <1>2, TopFrame, LenProperties DEF FrameState, Top
<1>4. ASSUME NEW i \in DOMAIN callStack
      PROVE  /\ i \in DOMAIN callStack' /\ (i # n => callStack'[i] = callStack[i])
             /\ Loads(callStack'[i]) <=> Loads(callStack[i])
             /\ callStack'[i].ref = callStack[i].ref
             /\ callStack'[i].owner = callStack[i].owner
             /\ callStack'[i].slot = callStack[i].slot
  <2>1. callStack[i] \in Frame
    BY FrameSlots
  <2> QED
    BY <1>1, <1>2, <1>3, <2>1 DEF Frame, Loads
<1>5. DOMAIN callStack' = DOMAIN callStack
  BY <1>1, <1>2
<1> HIDE DEF s, n
<1>6. Granting'
  <2>1. ASSUME NEW i \in DOMAIN callStack', Loads(callStack'[i])
        PROVE  /\ ~bShuttingDown'
               /\ callStack'[i].ref \in Refs /\ holder'[callStack'[i].ref] = Pending
               /\ \/ callStack'[i].owner = App
                  \/ \E j \in DOMAIN callStack' :
                       /\ j < i /\ callStack'[j].kind = "load"
                       /\ callStack'[j].slot = callStack'[i].owner
    <3>1. /\ ~bShuttingDown
          /\ callStack[i].ref \in Refs /\ holder[callStack[i].ref] = Pending
          /\ \/ callStack[i].owner = App
             \/ \E j \in DOMAIN callStack :
                  /\ j < i /\ callStack[j].kind = "load"
                  /\ callStack[j].slot = callStack[i].owner
      BY <2>1, <1>4, <1>5 DEF Holding, Granting
    <3>2. \A j \in DOMAIN callStack : j < i => callStack'[j] = callStack[j]
      BY <1>3, <1>4, <1>5
    <3> QED
      BY <1>2, <1>4, <1>5, <3>1, <3>2
  <2>2. \A i, j \in DOMAIN callStack' :
          Loads(callStack'[i]) /\ Loads(callStack'[j])
            /\ callStack'[i].ref = callStack'[j].ref => i = j
    BY <1>4, <1>5 DEF Holding, Granting
  <2> QED
    BY <2>1, <2>2 DEF Granting, Loads
<1>7. \A p \in Slots : (state'[p] = "READY" <=> state[p] = "READY")
        /\ (state'[p] = "EMPTY" <=> state[p] = "EMPTY")
  BY <1>1, <1>2, <1>3
<1>8. \A p : HoldersOf(p)' = HoldersOf(p)
  BY <1>2 DEF HoldersOf, HandleOf
<1>9. \A q \in Refs : IsReady(handle[q])' <=> IsReady(handle[q])
  BY <1>1, <1>2, <1>7 DEF IsReady, ResolveHandle, Handle
<1>10. Counting'
  BY <1>2, <1>7, <1>8 DEF Holding, Counting
<1>11. Resolving' /\ Depending'
  BY <1>2, <1>7, <1>9 DEF Holding, Resolving, Depending
<1> QED
  BY <1>6, <1>10, <1>11 DEF Holding

\* A callback returned and its record is recycled: nobody held a reference to it
\* that still resolved, and what it held itself goes to the application.
LEMMA RecyclingKeeps ==
  ASSUME Managing, Holding, callStack # <<>>, callStack' = Pop,
         NEW waiting \in Refs \union {NoSlot}, Recycle(Top.slot, waiting),
         Loads(Top) => waiting = Top.ref, ~Loads(Top) => waiting = NoSlot,
         UNCHANGED <<bShuttingDown, liveList>>
  PROVE  Holding'
<1> USE DEF Managing
<1> DEFINE s == Top.slot
<1>1. /\ holder \in [Refs -> Owners \union {Nobody, Pending}]
      /\ handle \in [Refs -> Handle] /\ state \in [Slots -> States]
      /\ typeSlot \in [Slots -> 0 .. TypeSlotMax]
      /\ nGeneration \in [Slots -> 1 .. GenerationMax]
      /\ cReferences \in [Slots -> 0 .. ReferenceMax]
      /\ Nobody \notin Owners /\ Nobody # Pending /\ Pending \notin Owners
      /\ Slots \subseteq Owners /\ callStack \in Seq(Frame)
      /\ App \notin Slots /\ App \in Owners /\ NoSlot \notin Refs
  BY ClientTypes
<1>2. /\ state' = [state EXCEPT ![s] = "EMPTY"]
      /\ typeSlot' = [typeSlot EXCEPT ![s] = 0]
      /\ nGeneration' = [nGeneration EXCEPT ![s] = NextGeneration(@)]
      /\ cReferences' = [cReferences EXCEPT ![s] = 0]
      /\ holder' = [q \in Refs |-> IF q = waiting THEN Nobody
                                   ELSE IF holder[q] = s THEN App ELSE holder[q]]
      /\ handle' = handle
  BY DEF Recycle
<1>3. /\ Len(callStack) \in DOMAIN callStack /\ Len(callStack) \in Nat \ {0}
      /\ s \in Slots /\ state[s] \in Transient /\ Top = callStack[Len(callStack)]
  <2>1. /\ Len(callStack) \in DOMAIN callStack /\ Len(callStack) \in Nat \ {0}
        /\ s \in Slots /\ state[s] = FrameState(Top.kind) /\ Top \in Frame
    BY TopFrame
  <2>2. state[s] \in Transient
    BY <2>1 DEF Frame, FrameState, Transient
  <2> QED
    BY <2>1, <2>2 DEF Top
<1>4. /\ DOMAIN callStack' = 1 .. Len(callStack) - 1
      /\ DOMAIN callStack = 1 .. Len(callStack)
      /\ \A i \in DOMAIN callStack' : callStack'[i] = callStack[i]
  BY <1>1, PoppedSeq, LenProperties DEF Pop
<1>5. waiting \in Refs => holder[waiting] = Pending
  BY <1>1, <1>3 DEF Holding, Granting
<1>6. \A i \in DOMAIN callStack' : Loads(callStack'[i]) => callStack'[i].ref # waiting
  <2> SUFFICES ASSUME NEW i \in DOMAIN callStack', Loads(callStack[i]),
                      callStack[i].ref = waiting
               PROVE  FALSE
    BY <1>4
  <2>1. i \in DOMAIN callStack /\ i # Len(callStack)
    BY <1>3, <1>4
  <2>2. callStack[i].ref \in Refs
    BY <2>1 DEF Holding, Granting
  <2>3. Loads(callStack[Len(callStack)]) /\ callStack[Len(callStack)].ref = waiting
    BY <1>1, <1>3, <2>2
  <2> QED
    BY <2>1, <2>3, <1>3 DEF Holding, Granting
<1> HIDE DEF s
<1>7. \A p \in Slots : p # s =>
        /\ state'[p] = state[p] /\ cReferences'[p] = cReferences[p]
        /\ nGeneration'[p] = nGeneration[p] /\ typeSlot'[p] = typeSlot[p]
        /\ HandleOf(p)' = HandleOf(p)
  BY <1>1, <1>2 DEF HandleOf
<1>8. state'[s] = "EMPTY"
  BY <1>1, <1>2, <1>3
<1>9. \A q \in Refs : /\ holder'[q] \in Owners <=> holder[q] \in Owners
                      /\ holder'[q] \in Slots => holder'[q] = holder[q] /\ holder[q] # s
                      /\ holder[q] = Pending /\ q # waiting => holder'[q] = Pending
  BY <1>1, <1>2, <1>3, <1>5
<1>10. Granting'
  <2>1. ASSUME NEW i \in DOMAIN callStack', Loads(callStack'[i])
        PROVE  /\ ~bShuttingDown'
               /\ callStack'[i].ref \in Refs /\ holder'[callStack'[i].ref] = Pending
               /\ \/ callStack'[i].owner = App
                  \/ \E j \in DOMAIN callStack' :
                       /\ j < i /\ callStack'[j].kind = "load"
                       /\ callStack'[j].slot = callStack'[i].owner
    <3>1. i \in DOMAIN callStack /\ callStack'[i] = callStack[i]
          /\ callStack[i].ref # waiting
      BY <1>3, <1>4, <1>6, <2>1
    <3>2. /\ ~bShuttingDown
          /\ callStack[i].ref \in Refs /\ holder[callStack[i].ref] = Pending
          /\ \/ callStack[i].owner = App
             \/ \E j \in DOMAIN callStack :
                  /\ j < i /\ callStack[j].kind = "load"
                  /\ callStack[j].slot = callStack[i].owner
      BY <2>1, <3>1 DEF Holding, Granting
    <3>3. \A j \in DOMAIN callStack :
            j < i => j \in DOMAIN callStack' /\ callStack'[j] = callStack[j]
      BY <1>3, <1>4
    <3> QED
      BY <1>9, <3>1, <3>2, <3>3
  <2>2. \A i, j \in DOMAIN callStack' :
          Loads(callStack'[i]) /\ Loads(callStack'[j])
            /\ callStack'[i].ref = callStack'[j].ref => i = j
    BY <1>3, <1>4 DEF Holding, Granting
  <2> QED
    BY <2>1, <2>2 DEF Granting, Loads
<1>11. Counting'
  <2> SUFFICES ASSUME NEW p \in Slots, state'[p] = "READY"
               PROVE  cReferences'[p] = Cardinality(HoldersOf(p)') /\ cReferences'[p] > 0
    BY DEF Counting
  <2>1. p # s
    BY <1>8
  <2>2. HoldersOf(p)' = HoldersOf(p)
    BY <2>1, <1>2, <1>7, <1>9 DEF HoldersOf
  <2> QED
    BY <2>1, <2>2, <1>7 DEF Holding, Counting
<1>12. ASSUME NEW q \in Refs, IsReady(handle[q]) PROVE IsReady(handle[q])'
  <2>1. handle[q].slot \in Slots /\ handle[q].slot # s
    BY <1>1, <1>3, <1>12 DEF Handle, IsReady, Transient
  <2> QED
    BY <2>1, <1>2, <1>7, <1>12 DEF IsReady, ResolveHandle
<1>13. Resolving'
  BY <1>9, <1>12 DEF Holding, Resolving
<1>14. Depending'
  <2> SUFFICES ASSUME NEW q \in Refs, holder'[q] \in Slots
               PROVE  /\ IsReady(handle[q])' /\ state'[holder'[q]] # "EMPTY"
                      /\ state'[holder'[q]] = "READY" =>
                           Before(liveList', handle'[q].slot, holder'[q])
    BY DEF Depending
  <2>1. holder'[q] = holder[q] /\ holder[q] # s
    BY <1>9
  <2>2. /\ IsReady(handle[q]) /\ state[holder[q]] # "EMPTY"
        /\ state[holder[q]] = "READY" => Before(liveList, handle[q].slot, holder[q])
    BY <2>1 DEF Holding, Depending
  <2> QED
    BY <1>2, <1>7, <1>12, <2>1, <2>2
<1> QED
  BY <1>10, <1>11, <1>13, <1>14 DEF Holding

\* A callback that returns and frees its slot leaves it held by nobody.
LEMMA ReturnsKeep ==
  ASSUME Managing, Holding, LoadFails \/ FailedUnloadReturns \/ UnloadReturns
  PROVE  Holding'
<1>1. callStack # <<>> /\ callStack' = Pop /\ UNCHANGED <<bShuttingDown, liveList>>
  BY DEF LoadFails, FailedUnloadReturns, UnloadReturns
<1>2. CASE LoadFails \/ FailedUnloadReturns
  <2>1. Recycle(Top.slot, Top.ref) /\ Loads(Top)
    BY <1>2 DEF LoadFails, FailedUnloadReturns, Loads
  <2>2. Top.ref \in Refs
    BY <1>1, <2>1, TopFrame DEF Managing, Holding, Granting, Top
  <2> QED
    BY <1>1, <2>1, <2>2, RecyclingKeeps
<1>3. CASE UnloadReturns
  <2>1. Recycle(Top.slot, NoSlot) /\ ~Loads(Top)
    BY <1>3 DEF UnloadReturns, Loads
  <2> QED
    BY <1>1, <2>1, RecyclingKeeps
<1> QED
  BY <1>2, <1>3

-----------------------------------------------------------------------------
(* The lifecycle. *)

\* Steps that change nothing of this keep it.
LEMMA UntouchedHolding ==
  ASSUME Holding,
         UNCHANGED <<bShuttingDown, state, typeSlot, nGeneration, cReferences, liveList,
                     callStack, holder, handle>>
  PROVE  Holding'
  BY DEF Holding, Granting, Counting, Resolving, Depending, HoldersOf, HandleOf,
         IsReady, ResolveHandle

\* Beginning to shut down changes no count.
LEMMA ShutdownKeeps ==
  ASSUME Managing, Holding, Shutdown
  PROVE  Holding'
<1>1. /\ bShuttingDown'
      /\ UNCHANGED <<state, typeSlot, nGeneration, cReferences, liveList, callStack,
                     holder, handle>>
  BY DEF Shutdown, record, client
<1>2. DOMAIN callStack = {}
  <2>1. callStack \in Seq(Frame) /\ Len(callStack) = 0
    BY DEF Managing, TypeOK, CallbacksOwnTheirRecord, Shutdown
  <2> QED
    BY <2>1, LenProperties
<1>3. Granting' /\ Resolving'
  BY <1>1, <1>2 DEF Granting, Resolving
<1>4. Counting' /\ Depending'
  BY <1>1 DEF Holding, Counting, Depending, HoldersOf, HandleOf, IsReady, ResolveHandle
<1> QED
  BY <1>3, <1>4 DEF Holding

\* Nothing is held in a manager with no resource.
LEMMA FreshHolding ==
  ASSUME callStack = <<>>, state = [s \in Slots |-> "EMPTY"],
         holder = [r \in Refs |-> Nobody]
  PROVE  Holding
<1>1. Nobody \notin Owners /\ Slots \subseteq Owners
  BY ConstantAssumption DEF Owners
<1> QED
  BY <1>1 DEF Holding, Granting, Counting, Resolving, Depending

\* The invariant holds initially.
LEMMA HoldingStarts == Init => Holding
  BY FreshHolding DEF Init

\* The end of a shutdown leaves nothing held.
LEMMA EndHolds ==
  ASSUME ShutdownEnd
  PROVE  Holding'
<1>1. /\ callStack' = <<>> /\ state' = [s \in Slots |-> "EMPTY"]
      /\ holder' = [r \in Refs |-> Nobody]
  BY DEF ShutdownEnd
<1>2. Nobody \notin Owners /\ Slots \subseteq Owners
  BY ConstantAssumption DEF Owners
<1> QED
  BY <1>1, <1>2 DEF Holding, Granting, Counting, Resolving, Depending

\* Every step keeps the invariant.
LEMMA StepKeepsHolding == Managing /\ Holding /\ [Next]_vars => Holding'
<1> SUFFICES ASSUME Managing, Holding, [Next]_vars PROVE Holding'
  OBVIOUS
<1>1. ASSUME NEW t \in Types, RegisterType(t) \/ UnregisterType(t) PROVE Holding'
  BY <1>1, UntouchedHolding DEF RegisterType, UnregisterType, record, client
<1>2. ASSUME NEW k \in Keys, NEW r \in Refs, NEW o \in Owners,
             AcquireHit(k, r, o) \/ AcquireMiss(k, r, o)
      PROVE  Holding'
  BY <1>2, HitKeeps, MissKeeps
<1>3. ASSUME NEW r \in Refs, NEW r2 \in Refs, NEW o \in Owners, Retain(r, r2, o)
      PROVE  Holding'
  BY <1>3, RetainKeeps
<1>4. ASSUME NEW r \in Refs, ReleaseShared(r) \/ ReleaseLast(r) \/ ReleaseRefused(r)
      PROVE  Holding'
  BY <1>4, SharedReleaseKeeps, LastReleaseKeeps, RefusedReleaseKeeps
<1>5. CASE ManagerInit \/ UNCHANGED vars
  BY <1>5, UntouchedHolding DEF ManagerInit, vars, record, client
<1>6. CASE Shutdown \/ ShutdownUnload \/ ShutdownEnd
  BY <1>6, ShutdownKeeps, ForcedUnloadKeeps, EndHolds
<1>7. CASE LoadSucceeds \/ LoadFails \/ LoadFailsWithPayload
           \/ FailedUnloadReturns \/ UnloadReturns
  BY <1>7, LoadKeeps, FailureKeeps, ReturnsKeep
<1> QED
  BY <1>1, <1>2, <1>3, <1>4, <1>5, <1>6, <1>7 DEF Next

\* It holds in every state.
LEMMA AlwaysHolding == Spec => []Holding
<1> QED
  BY HoldingStarts, StepKeepsHolding, AlwaysManaging, PTL DEF Spec

-----------------------------------------------------------------------------
(* The theorems about references. *)

\* Every published record counts exactly the references that clients hold, whatever
\* callbacks acquire, retain and release, and until a shutdown every handle that is
\* held resolves.
THEOREM CountsAreExact == Spec => []ReferencesCounted
<1>1. Holding => ReferencesCounted
  BY DEF Holding, Counting, Resolving, ReferencesCounted
<1> QED
  BY <1>1, AlwaysHolding, PTL

\* What a payload acquired while it was loaded stays published until the payload is
\* unloaded: the loop of Res_Shutdown takes the newest record first.
THEOREM UsersGoFirst == Spec => []DependenciesOutliveUsers
<1>1. Holding => DependenciesOutliveUsers
  BY DEF Holding, Depending, DependenciesOutliveUsers
<1> QED
  BY <1>1, AlwaysHolding, PTL

-----------------------------------------------------------------------------
(* How old handles are. *)

\* A slot whose generation moves on is one generation older to its handles.
LEMMA OneOlder ==
  ASSUME NEW g \in 1 .. GenerationMax, NEW a \in 0 .. GenerationMax,
         a + 1 < GenerationMax, NEW n \in 1 .. GenerationMax,
         n = g + a \/ n + GenerationMax = g + a
  PROVE  \/ NextGeneration(n) = g + (a + 1)
         \/ NextGeneration(n) + GenerationMax = g + (a + 1)
<1>1. GenerationMax \in Nat \ {0}
  BY ConstantAssumption
<1> QED
  BY <1>1 DEF NextGeneration

\* A handle is handed out for the record as it is.
LEMMA NewHandleAges ==
  ASSUME Managing, Ageing, NEW r \in Refs, NEW h \in Handle,
         h.gen = nGeneration[h.slot],
         handle' = [handle EXCEPT ![r] = h], age' = [age EXCEPT ![r] = 0],
         nGeneration' = nGeneration
  PROVE  Ageing'
<1>1. /\ handle \in [Refs -> Handle] /\ age \in [Refs -> 0 .. GenerationMax]
      /\ nGeneration \in [Slots -> 1 .. GenerationMax] /\ h.slot \in Slots
  BY ClientTypes DEF Managing, Handle
<1>2. h.gen \in 1 .. GenerationMax /\ h.gen = h.gen + 0
  BY <1>1
<1> SUFFICES ASSUME NEW q \in Refs, handle'[q] # NoHandle
             PROVE  /\ handle'[q].gen \in 1 .. GenerationMax
                    /\ age'[q] < GenerationMax =>
                         \/ nGeneration[handle'[q].slot] = handle'[q].gen + age'[q]
                         \/ nGeneration[handle'[q].slot] + GenerationMax
                              = handle'[q].gen + age'[q]
  BY DEF Ageing
<1>3. CASE q = r
  BY <1>1, <1>2, <1>3
<1>4. CASE q # r
  <2>1. handle'[q] = handle[q] /\ age'[q] = age[q]
    BY <1>1, <1>4
  <2> QED
    BY <2>1 DEF Ageing
<1> QED
  BY <1>3, <1>4

\* A record is recycled: every handle to its slot grows older by one.
LEMMA RecyclingAges ==
  ASSUME Managing, Ageing, NEW s \in Slots, NEW waiting, Recycle(s, waiting)
  PROVE  Ageing'
<1>1. /\ handle \in [Refs -> Handle] /\ age \in [Refs -> 0 .. GenerationMax]
      /\ nGeneration \in [Slots -> 1 .. GenerationMax]
      /\ GenerationMax \in Nat \ {0}
  BY ClientTypes DEF Managing
<1>2. /\ handle' = handle
      /\ nGeneration' = [nGeneration EXCEPT ![s] = NextGeneration(nGeneration[s])]
      /\ age' = [q \in Refs |->
                   IF /\ handle[q] # NoHandle /\ handle[q].slot = s
                      /\ age[q] < GenerationMax
                     THEN age[q] + 1 ELSE age[q]]
  BY DEF Recycle
<1> SUFFICES ASSUME NEW q \in Refs, handle[q] # NoHandle
             PROVE  /\ handle[q].gen \in 1 .. GenerationMax
                    /\ age'[q] < GenerationMax =>
                         \/ nGeneration'[handle[q].slot] = handle[q].gen + age'[q]
                         \/ nGeneration'[handle[q].slot] + GenerationMax
                              = handle[q].gen + age'[q]
  BY <1>2 DEF Ageing
<1> DEFINE p == handle[q].slot
           g == handle[q].gen
           n == nGeneration[p]
<1>3. /\ g \in 1 .. GenerationMax /\ p \in Slots /\ age[q] \in 0 .. GenerationMax
      /\ n \in 1 .. GenerationMax
      /\ age[q] < GenerationMax => n = g + age[q] \/ n + GenerationMax = g + age[q]
  BY <1>1 DEF Ageing, Handle
<1>4. nGeneration'[p] = IF p = s THEN NextGeneration(n) ELSE n
  BY <1>1, <1>2, <1>3
<1>5. age'[q] = IF p = s /\ age[q] < GenerationMax THEN age[q] + 1 ELSE age[q]
  BY <1>2
<1> HIDE DEF p, g, n
<1>6. ASSUME age'[q] < GenerationMax
      PROVE  \/ nGeneration'[p] = g + age'[q]
             \/ nGeneration'[p] + GenerationMax = g + age'[q]
  <2>1. CASE p # s
    BY <1>3, <1>4, <1>5, <1>6, <2>1
  <2>2. CASE p = s
    <3>1. age[q] < GenerationMax /\ age[q] + 1 < GenerationMax
      BY <1>1, <1>3, <1>5, <1>6, <2>2
    <3>2. age'[q] = age[q] + 1 /\ nGeneration'[p] = NextGeneration(n)
      BY <1>4, <1>5, <2>2, <3>1
    <3> QED
      BY <1>3, <3>1, <3>2, OneOlder
  <2> QED
    BY <2>1, <2>2
<1> QED
  BY <1>3, <1>6 DEF p, g

\* Steps that change nothing of this keep it.
LEMMA SameAges ==
  ASSUME Ageing, UNCHANGED <<nGeneration, handle, age>>
  PROVE  Ageing'
  BY DEF Ageing

\* The invariant holds initially, and again after a shutdown.
LEMMA AgeingStarts ==
  /\ Init => Ageing
  /\ ShutdownEnd => Ageing'
  BY DEF Init, ShutdownEnd, Ageing

\* Every step keeps the invariant.
LEMMA StepKeepsAgeing == Managing /\ Ageing /\ [Next]_vars => Ageing'
<1> SUFFICES ASSUME Managing, Ageing, [Next]_vars PROVE Ageing'
  OBVIOUS
<1>1. TypeOK /\ CallbacksOwnTheirRecord
  BY DEF Managing
<1>2. ASSUME NEW k \in Keys, NEW r \in Refs, NEW o \in Owners, AcquireHit(k, r, o)
      PROVE  Ageing'
  <2> DEFINE s == lookup[IdOf[k]]
  <2>1. s \in Slots
    <3>1. lookup \in [Ids -> Slots \union {NoSlot}] /\ IdOf[k] \in Ids
      BY <1>1, ConstantAssumption DEF TypeOK
    <3>2. s # NoSlot
      BY <1>2 DEF AcquireHit, AcquireOutcome
    <3> QED
      BY <3>1, <3>2
  <2>2. /\ handle' = [handle EXCEPT ![r] = HandleOf(s)]
        /\ age' = [age EXCEPT ![r] = 0] /\ nGeneration' = nGeneration
    BY <1>2 DEF AcquireHit
  <2> HIDE DEF s
  <2>3. /\ HandleOf(s) \in Handle /\ HandleOf(s).slot = s
        /\ HandleOf(s).gen = nGeneration[s]
    BY <1>1, <2>1, HandlesMade DEF HandleOf
  <2> QED
    BY <2>2, <2>3, NewHandleAges
<1>3. ASSUME NEW r \in Refs, NEW r2 \in Refs, NEW o \in Owners, Retain(r, r2, o)
      PROVE  Ageing'
  <2>1. /\ handle' = [handle EXCEPT ![r2] = handle[r]]
        /\ age' = [age EXCEPT ![r2] = 0] /\ nGeneration' = nGeneration
        /\ IsReady(handle[r])
    BY <1>3 DEF Retain
  <2>2. handle[r] \in Handle /\ handle[r].gen = nGeneration[handle[r].slot]
    BY <1>1, <2>1, ClientTypes DEF IsReady, ResolveHandle
  <2> QED
    BY <2>1, <2>2, NewHandleAges
<1>4. CASE LoadSucceeds
  <2> DEFINE s == Top.slot
             r == Top.ref
  <2>1. /\ callStack # <<>> /\ Top.kind = "load"
        /\ handle' = [handle EXCEPT ![r] = HandleOf(s)]
        /\ age' = [age EXCEPT ![r] = 0] /\ nGeneration' = nGeneration
    BY <1>4 DEF LoadSucceeds
  <2>2. s \in Slots /\ r \in Refs \union {NoSlot}
    BY <1>1, <2>1, TopFrame DEF Frame
  <2> HIDE DEF s, r
  <2>3. /\ HandleOf(s) \in Handle /\ HandleOf(s).slot = s
        /\ HandleOf(s).gen = nGeneration[s]
    BY <1>1, <2>2, HandlesMade DEF HandleOf
  <2>4. CASE r \in Refs
    BY <2>1, <2>3, <2>4, NewHandleAges
  <2>5. CASE r \notin Refs
    BY <1>1, <2>1, <2>5, ClientTypes, SameAges
  <2> QED
    BY <2>4, <2>5
<1>5. CASE LoadFails \/ FailedUnloadReturns \/ UnloadReturns
  <2>1. callStack # <<>> /\ \E waiting : Recycle(Top.slot, waiting)
    BY <1>5 DEF LoadFails, FailedUnloadReturns, UnloadReturns
  <2>2. Top.slot \in Slots
    BY <1>1, <2>1, TopFrame
  <2> QED
    BY <2>1, <2>2, RecyclingAges
<1>6. CASE ShutdownEnd
  BY <1>6, AgeingStarts
<1>7. ASSUME NEW t \in Types, RegisterType(t) \/ UnregisterType(t) PROVE Ageing'
  BY <1>7, SameAges DEF RegisterType, UnregisterType, record, client
<1>8. ASSUME NEW k \in Keys, NEW r \in Refs, NEW o \in Owners, AcquireMiss(k, r, o)
      PROVE  Ageing'
  BY <1>8, SameAges DEF AcquireMiss
<1>9. ASSUME NEW r \in Refs, ReleaseShared(r) \/ ReleaseLast(r) \/ ReleaseRefused(r)
      PROVE  Ageing'
  BY <1>9, SameAges DEF ReleaseShared, ReleaseLast, ReleaseRefused, record
<1>10. CASE \/ ManagerInit \/ Shutdown \/ ShutdownUnload \/ LoadFailsWithPayload
            \/ UNCHANGED vars
  BY <1>10, SameAges
     DEF ManagerInit, Shutdown, ShutdownUnload, LoadFailsWithPayload, vars, record,
         client
<1> QED
  BY <1>2, <1>3, <1>4, <1>5, <1>6, <1>7, <1>8, <1>9, <1>10 DEF Next

\* A handle whose record was recycled does not resolve until the generation of
\* its slot has gone all the way around, however the slot is reused meanwhile.
THEOREM StaleHandlesStayStale == Spec => []StaleHandlesRejected
<1>1. ASSUME Managing, Ageing PROVE StaleHandlesRejected
  <2> SUFFICES ASSUME NEW r \in Refs, age[r] \in 1 .. GenerationMax - 1,
                      ResolveHandle(handle[r])
               PROVE  FALSE
    BY DEF StaleHandlesRejected
  <2> DEFINE n == nGeneration[handle[r].slot]
             g == handle[r].gen
  <2>1. handle[r] # NoHandle /\ n = g
    BY DEF ResolveHandle
  <2>2. GenerationMax \in Nat \ {0}
    BY ConstantAssumption
  <2>3. /\ g \in 1 .. GenerationMax
        /\ n = g + age[r] \/ n + GenerationMax = g + age[r]
    BY <1>1, <2>1, <2>2 DEF Ageing
  <2> HIDE DEF n, g
  <2> QED
    BY <2>1, <2>2, <2>3
<1>2. Managing /\ Ageing => StaleHandlesRejected
  BY <1>1
<1> QED
  BY <1>2, AgeingStarts, StepKeepsAgeing, AlwaysManaging, PTL DEF Spec

-----------------------------------------------------------------------------
(* What Res_Acquire answers. *)

\* A record in use is found under its key, and nothing else is.
LEMMA KeysFound ==
  ASSUME Managing, NEW k \in Keys
  PROVE  LET s == lookup[IdOf[k]]
         IN  /\ s # NoSlot => s \in Slots /\ state[s] # "EMPTY" /\ key[s] \in Keys
             /\ \A t \in Slots : state[t] # "EMPTY" /\ key[t] = k => s = t
             /\ \A t \in Slots : t # NoSlot
<1>1. /\ lookup \in [Ids -> Slots \union {NoSlot}] /\ IdOf[k] \in Ids
      /\ NoSlot \notin Slots
  BY ConstantAssumption DEF Managing, TypeOK
<1> QED
  BY <1>1 DEF Managing, IdentitiesExact

\* A record that is being loaded, rolled back or unloaded is in a callback of
\* its own kind, and a callback is about such a record.
LEMMA CallsAbout ==
  ASSUME Managing, NEW s \in Slots, NEW kind \in {"load", "fail", "unload"}
  PROVE  state[s] = FrameState(kind) <=>
           \E i \in DOMAIN callStack : callStack[i].kind = kind /\ callStack[i].slot = s
<1>1. ASSUME NEW i \in DOMAIN callStack
      PROVE  /\ callStack[i].kind \in {"load", "fail", "unload"}
             /\ state[callStack[i].slot] = FrameState(callStack[i].kind)
  BY FrameSlots DEF Managing, CallbacksOwnTheirRecord, Frame
<1>2. \A a, b \in {"load", "fail", "unload"} : FrameState(a) = FrameState(b) => a = b
  BY DEF FrameState
<1>3. ASSUME state[s] = FrameState(kind)
      PROVE  \E i \in DOMAIN callStack : callStack[i].slot = s
  BY <1>3 DEF Managing, CallbacksOwnTheirRecord, FrameState
<1> QED
  BY <1>1, <1>2, <1>3

\* The answer of Res_Acquire is true of the records and of the callbacks in
\* progress: a cycle, a busy or full table, a hit and a miss are what they say.
THEOREM AnswersAreTrue == Spec => []AcquireAnswersTrue
<1>1. ASSUME Managing PROVE AcquireAnswersTrue
  <2> DEFINE Calling(kind, k) == \E i \in DOMAIN callStack :
               callStack[i].kind = kind /\ key[callStack[i].slot] = k
  <2>1. ASSUME NEW k \in Keys, NEW kind \in {"load", "fail", "unload"}
        PROVE  LET s == lookup[IdOf[k]]
               IN  Calling(kind, k) <=>
                     s # NoSlot /\ key[s] = k /\ state[s] = FrameState(kind)
    <3> DEFINE s == lookup[IdOf[k]]
    <3>1. ASSUME Calling(kind, k)
          PROVE  s # NoSlot /\ key[s] = k /\ state[s] = FrameState(kind)
      <4>1. PICK i \in DOMAIN callStack :
              callStack[i].kind = kind /\ key[callStack[i].slot] = k
        BY <3>1
      <4>2. callStack[i].slot \in Slots /\ state[callStack[i].slot] = FrameState(kind)
        BY <1>1, <4>1, FrameSlots, CallsAbout DEF Managing
      <4>3. FrameState(kind) # "EMPTY"
        BY DEF FrameState
      <4>4. s = callStack[i].slot
        BY <1>1, <4>1, <4>2, <4>3, KeysFound
      <4> QED
        BY <1>1, <4>1, <4>2, <4>4, KeysFound
    <3>2. ASSUME s # NoSlot /\ key[s] = k /\ state[s] = FrameState(kind)
          PROVE  Calling(kind, k)
      <4>1. s \in Slots
        BY <1>1, <3>2, KeysFound
      <4>2. PICK i \in DOMAIN callStack :
              callStack[i].kind = kind /\ callStack[i].slot = s
        BY <1>1, <3>2, <4>1, CallsAbout
      <4> QED
        BY <3>2, <4>2
    <3> QED
      BY <3>1, <3>2
  <2>2. ASSUME NEW k \in Keys
        PROVE  LET Answer == AcquireOutcome(k)
               IN  /\ Answer = "DEPENDENCY_CYCLE" <=> Calling("load", k) /\ ~bShuttingDown
                   /\ Answer = "RESOURCE_BUSY" =>
                        bShuttingDown \/ Calling("fail", k) \/ Calling("unload", k)
                   /\ Answer = "CAPACITY_EXCEEDED" => \A s \in Slots : state[s] # "EMPTY"
                   /\ Answer = "HIT" =>
                        \E s \in Slots : state[s] = "READY" /\ key[s] = k
                   /\ Answer = "MISS" =>
                        \A s \in Slots : state[s] # "EMPTY" => key[s] # k
    <3> DEFINE s == lookup[IdOf[k]]
               A == AcquireOutcome(k)
    <3>1. /\ A = "DEPENDENCY_CYCLE" <=>
               /\ ~bShuttingDown /\ Registered(TypeOf[k]) /\ s # NoSlot
               /\ key[s] = k /\ state[s] = "LOADING"
          /\ A = "RESOURCE_BUSY" =>
               \/ bShuttingDown
               \/ s # NoSlot /\ key[s] = k /\ state[s] \notin {"LOADING", "READY"}
          /\ A = "CAPACITY_EXCEEDED" => freeList = <<>>
          /\ A = "HIT" => s # NoSlot /\ key[s] = k /\ state[s] = "READY"
          /\ A = "MISS" => s = NoSlot
      BY DEF AcquireOutcome, RejectsNewWork, SameIdentity
    <3>2. /\ s # NoSlot => s \in Slots /\ state[s] # "EMPTY"
          /\ \A t \in Slots : state[t] # "EMPTY" /\ key[t] = k => s = t
          /\ \A t \in Slots : t # NoSlot
      BY <1>1, KeysFound
    <3>3. /\ Calling("load", k) <=> s # NoSlot /\ key[s] = k /\ state[s] = "LOADING"
          /\ Calling("fail", k) <=> s # NoSlot /\ key[s] = k /\ state[s] = "FAILED"
          /\ Calling("unload", k) <=> s # NoSlot /\ key[s] = k /\ state[s] = "UNLOADING"
      BY <2>1 DEF FrameState
    <3> HIDE DEF Calling, A
    <3>4. ASSUME s # NoSlot, key[s] = k
          PROVE  Registered(TypeOf[k])
      <4>1. \E i \in DOMAIN types : types[i] =
              [type |-> TypeOf[key[s]], iTypeSlot |-> typeSlot[s]]
        BY <1>1, <3>2, <3>4 DEF Managing, LoaderEntriesStable
      <4>2. DOMAIN types = 1 .. Len(types)
        BY <1>1 DEF Managing, TypeOK
      <4> QED
        BY <3>4, <4>1, <4>2 DEF Registered, TypeIndices
    <3>5. s # NoSlot =>
            state[s] \in {"LOADING", "READY", "FAILED", "UNLOADING"}
      BY <1>1, <3>2, ClientTypes DEF Managing, States
    <3>6. freeList = <<>> => \A t \in Slots : state[t] # "EMPTY"
      BY <1>1 DEF Managing, ListsExact, ExactList, Members
    <3> HIDE DEF s
    <3>7. A = "DEPENDENCY_CYCLE" <=> Calling("load", k) /\ ~bShuttingDown
      BY <3>1, <3>3, <3>4
    <3>8. A = "RESOURCE_BUSY" =>
            bShuttingDown \/ Calling("fail", k) \/ Calling("unload", k)
      BY <3>1, <3>3, <3>5
    <3>9. A = "HIT" => \E t \in Slots : state[t] = "READY" /\ key[t] = k
      BY <3>1, <3>2
    <3>10. A = "MISS" => \A t \in Slots : state[t] # "EMPTY" => key[t] # k
      BY <3>1, <3>2
    <3> QED
      BY <3>1, <3>6, <3>7, <3>8, <3>9, <3>10 DEF A
  <2> QED
    BY <2>2 DEF AcquireAnswersTrue
<1>2. Managing => AcquireAnswersTrue
  BY <1>1
<1> QED
  BY <1>2, AlwaysManaging, PTL

-----------------------------------------------------------------------------
(* The tables are used as their implementation allows. *)

\* Taking an element out of an array closes the gap.
LEMMA GapClosed ==
  ASSUME NEW S, NEW seq \in Seq(S), NEW n \in DOMAIN seq
  PROVE  RemoveAt(seq, n) = SubSeq(seq, 1, n - 1) \o SubSeq(seq, n + 1, Len(seq))
<1> DEFINE front == SubSeq(seq, 1, n - 1)
           back == SubSeq(seq, n + 1, Len(seq))
<1>1. /\ Len(seq) \in Nat /\ n \in 1 .. Len(seq) /\ DOMAIN seq = 1 .. Len(seq)
      /\ \A i \in 1 .. Len(seq) : seq[i] \in S
  BY LenProperties
<1>2. /\ front \in Seq(S) /\ Len(front) = n - 1
      /\ \A i \in 1 .. n - 1 : front[i] = seq[i]
  <2>1. \A i \in 1 .. n - 1 : seq[i] \in S
    BY <1>1
  <2> QED
    BY <1>1, <2>1, SubSeqProperties
<1>3. /\ back \in Seq(S) /\ Len(back) = Len(seq) - n
      /\ \A i \in 1 .. Len(seq) - n : back[i] = seq[n + i]
  <2>1. \A i \in n + 1 .. Len(seq) : seq[i] \in S
    BY <1>1
  <2>2. /\ back \in Seq(S)
        /\ Len(back) = IF n + 1 <= Len(seq) THEN Len(seq) - (n + 1) + 1 ELSE 0
        /\ \A i \in 1 .. Len(seq) - (n + 1) + 1 : back[i] = seq[(n + 1) + i - 1]
    BY <1>1, <2>1, SubSeqProperties
  <2> HIDE DEF back
  <2>3. Len(back) = Len(seq) - n
    BY <1>1, <2>2
  <2>4. ASSUME NEW i \in 1 .. Len(seq) - n PROVE back[i] = seq[n + i]
    <3>1. i \in 1 .. Len(seq) - (n + 1) + 1 /\ (n + 1) + i - 1 = n + i
      BY <1>1
    <3> QED
      BY <2>2, <3>1
  <2> QED
    BY <2>2, <2>3, <2>4
<1> HIDE DEF front, back
<1>4. /\ front \o back \in Seq(S) /\ Len(front \o back) = Len(seq) - 1
      /\ \A i \in 1 .. Len(seq) - 1 :
           (front \o back)[i] = IF i <= n - 1 THEN front[i] ELSE back[i - (n - 1)]
  <2>1. Len(front) + Len(back) = Len(seq) - 1
    BY <1>1, <1>2, <1>3
  <2>2. /\ front \o back \in Seq(S) /\ Len(front \o back) = Len(front) + Len(back)
        /\ \A i \in 1 .. Len(front) + Len(back) : (front \o back)[i] =
             IF i <= Len(front) THEN front[i] ELSE back[i - Len(front)]
    BY <1>2, <1>3, ConcatProperties
  <2> QED
    BY <1>2, <2>1, <2>2
<1>5. \A i \in 1 .. Len(seq) - 1 :
        (front \o back)[i] = IF i < n THEN seq[i] ELSE seq[i + 1]
  <2> SUFFICES ASSUME NEW i \in 1 .. Len(seq) - 1
               PROVE  (front \o back)[i] = IF i < n THEN seq[i] ELSE seq[i + 1]
    OBVIOUS
  <2>1. CASE i < n
    <3>1. i <= n - 1 /\ i \in 1 .. n - 1
      BY <1>1, <2>1
    <3> QED
      BY <1>2, <1>4, <2>1, <3>1
  <2>2. CASE ~(i < n)
    <3>1. i - (n - 1) \in 1 .. Len(seq) - n /\ n + (i - (n - 1)) = i + 1
      BY <1>1, <2>2
    <3>2. back[i - (n - 1)] = seq[n + (i - (n - 1))]
      BY <1>3, <3>1
    <3>3. (front \o back)[i] = back[i - (n - 1)]
      <4>1. ~(i <= n - 1)
        BY <1>1, <2>2
      <4> QED
        BY <1>4, <4>1
    <3> QED
      BY <2>2, <3>1, <3>2, <3>3
  <2> QED
    BY <2>1, <2>2
<1>6. /\ RemoveAt(seq, n) \in Seq(S) /\ Len(RemoveAt(seq, n)) = Len(seq) - 1
      /\ \A i \in 1 .. Len(seq) - 1 :
           RemoveAt(seq, n)[i] = IF i < n THEN seq[i] ELSE seq[i + 1]
  BY RemovedSeq
<1>7. RemoveAt(seq, n) = front \o back
  BY <1>4, <1>5, <1>6, SeqEqual
<1> QED
  BY <1>7 DEF front, back

\* A record leaves the list of published records.
LEMMA UnloadRetires ==
  ASSUME Managing, NEW s \in Slots, state[s] = "READY",
         liveList' = Without(liveList, s), UNCHANGED <<lookup, freeList>>
  PROVE  Index!Next
<1> DEFINE n == CHOOSE i \in DOMAIN liveList : liveList[i] = s
<1>1. s \in Members(liveList) /\ liveList \in Seq(Slots)
  BY DEF Managing, ListsExact, ExactList, TypeOK
<1>2. n \in DOMAIN liveList
  BY <1>1 DEF Members
<1>3. liveList' = RemoveAt(liveList, n)
  BY DEF Without
<1> HIDE DEF n
<1>4. liveList' = SubSeq(liveList, 1, n - 1) \o SubSeq(liveList, n + 1, Len(liveList))
  BY <1>1, <1>2, <1>3, GapClosed
<1> QED
  BY <1>2, <1>4 DEF Index!Next, Index!Retire

\* A record goes from its identity back to the head of the free list.
LEMMA RecyclingFrees ==
  ASSUME Managing, NEW s \in Slots, state[s] \in Transient, NEW waiting,
         Recycle(s, waiting), UNCHANGED liveList
  PROVE  Index!Next
<1> DEFINE i == IdOf[key[s]]
<1>1. key[s] \in Keys /\ lookup[i] = s
  BY DEF Managing, IdentitiesExact, Transient
<1>2. i \in Ids /\ NoSlot \notin Slots
  BY <1>1, ConstantAssumption
<1>3. ~Index!Listed(s)
  BY DEF Managing, ListsExact, ExactList, Members, Index!Listed, Transient
<1>4. /\ lookup' = [lookup EXCEPT ![i] = NoSlot] /\ freeList' = <<s>> \o freeList
  BY DEF Recycle, RemoveLookup
<1> HIDE DEF i
<1>5. Index!Recycle(i)
  BY <1>1, <1>2, <1>3, <1>4 DEF Index!Recycle
<1> QED
  BY <1>2, <1>5 DEF Index!Next

\* When the shutdown loop is done no record is in use.
LEMMA NothingLeft ==
  ASSUME Managing, callStack = <<>>, liveList = <<>>, NEW s \in Slots
  PROVE  state[s] = "EMPTY"
<1>1. state[s] \notin {"LOADING", "FAILED", "UNLOADING"}
  BY DEF Managing, CallbacksOwnTheirRecord
<1>2. state[s] # "READY"
  BY DEF Managing, ListsExact, ExactList, Members
<1> QED
  BY <1>1, <1>2, ClientTypes DEF Managing, States

\* The end of a shutdown resets the index.
LEMMA EndResets ==
  ASSUME Managing, ShutdownEnd
  PROVE  Index!Next
<1>1. callStack = <<>> /\ liveList = <<>> /\ liveList' = liveList
  BY DEF ShutdownEnd
<1>2. ASSUME NEW i \in Ids PROVE lookup[i] = NoSlot
  BY <1>1, NothingLeft DEF Managing, IdentitiesExact, TypeOK
<1>3. /\ lookup' = [i \in Ids |-> NoSlot]
      /\ freeList' = [i \in 1 .. cResourceCapacity |-> i - 1]
  BY DEF ShutdownEnd
<1>4. Index!Reset
  BY <1>1, <1>2, <1>3 DEF Index!Reset
<1> QED
  BY <1>4 DEF Index!Next

\* Every step of the manager is one operation of the tables or none.
LEMMA StepUsesIndex == Managing /\ [Next]_vars => [Index!Next]_(Index!ivars)
<1> SUFFICES ASSUME Managing, [Next]_vars
             PROVE  Index!Next \/ UNCHANGED <<lookup, freeList, liveList>>
  BY DEF Index!ivars
<1>1. TypeOK /\ CallbacksOwnTheirRecord
  BY DEF Managing
<1>2. ASSUME NEW k \in Keys, NEW r \in Refs, NEW o \in Owners, AcquireMiss(k, r, o)
      PROVE  Index!Next
  <2> DEFINE i == IdOf[k]
  <2>1. i \in Ids
    BY ConstantAssumption
  <2>2. lookup[i] = NoSlot /\ freeList # <<>>
    BY <1>2 DEF AcquireMiss, AcquireOutcome
  <2>3. /\ lookup' = [lookup EXCEPT ![i] = Head(freeList)]
        /\ freeList' = Tail(freeList) /\ liveList' = liveList
    BY <1>2 DEF AcquireMiss
  <2> HIDE DEF i
  <2>4. Index!Reserve(i)
    BY <2>2, <2>3 DEF Index!Reserve
  <2> QED
    BY <2>1, <2>4 DEF Index!Next
<1>3. CASE LoadSucceeds
  <2> DEFINE s == Top.slot
  <2>1. callStack # <<>> /\ Top.kind = "load"
    BY <1>3 DEF LoadSucceeds
  <2>2. s \in Slots /\ state[s] = "LOADING"
    BY <1>1, <2>1, TopFrame DEF FrameState
  <2>3. liveList' = Append(liveList, s) /\ UNCHANGED <<lookup, freeList>>
    BY <1>3 DEF LoadSucceeds
  <2> HIDE DEF s
  <2>4. IdOf[key[s]] \in Ids /\ lookup[IdOf[key[s]]] = s
    BY <2>2, ConstantAssumption DEF Managing, IdentitiesExact
  <2>5. ~Index!Listed(s)
    BY <2>2 DEF Managing, ListsExact, ExactList, Members, Index!Listed
  <2>6. Index!Publish(s) /\ s \in Index!Slots
    BY <2>2, <2>3, <2>4, <2>5 DEF Index!Publish, Index!Used, Index!Slots, Slots
  <2> QED
    BY <2>6 DEF Index!Next
<1>4. CASE LoadFails \/ FailedUnloadReturns \/ UnloadReturns
  <2>1. /\ callStack # <<>> /\ UNCHANGED liveList
        /\ \E waiting : Recycle(Top.slot, waiting)
        /\ Top.kind \in {"load", "fail", "unload"}
    BY <1>4 DEF LoadFails, FailedUnloadReturns, UnloadReturns
  <2>2. Top.slot \in Slots /\ state[Top.slot] \in Transient
    BY <1>1, <2>1, TopFrame DEF FrameState, Transient
  <2> QED
    BY <2>1, <2>2, RecyclingFrees
<1>5. ASSUME NEW r \in Refs, ReleaseLast(r) PROVE Index!Next
  <2> DEFINE s == handle[r].slot
  <2>1. /\ state[s] = "READY" /\ liveList' = Without(liveList, s)
        /\ UNCHANGED <<lookup, freeList>>
    BY <1>5 DEF ReleaseLast, BeginUnload, IsReady
  <2>2. s \in Slots
    BY <1>1, ClientTypes DEF Handle
  <2> QED
    BY <2>1, <2>2, UnloadRetires
<1>6. CASE ShutdownUnload
  <2> DEFINE s == NextVictim
  <2>1. /\ liveList # <<>> /\ liveList' = Without(liveList, s)
        /\ UNCHANGED <<lookup, freeList>>
    BY <1>6 DEF ShutdownUnload, BeginUnload
  <2>2. /\ liveList \in Seq(Slots)
        /\ Members(liveList) = {t \in Slots : state[t] = "READY"}
    BY <1>1 DEF Managing, ListsExact, ExactList, TypeOK
  <2>3. Len(liveList) \in DOMAIN liveList
    BY <2>1, <2>2, EmptySeq, LenProperties
  <2>4. s \in Slots /\ state[s] = "READY"
    BY <2>2, <2>3 DEF Members, NextVictim
  <2> QED
    BY <2>1, <2>4, UnloadRetires
<1>7. CASE ShutdownEnd
  BY <1>7, EndResets
<1>8. ASSUME NEW t \in Types, RegisterType(t) \/ UnregisterType(t)
      PROVE  UNCHANGED <<lookup, freeList, liveList>>
  BY <1>8 DEF RegisterType, UnregisterType
<1>9. ASSUME NEW k \in Keys, NEW r \in Refs, NEW o \in Owners, AcquireHit(k, r, o)
      PROVE  UNCHANGED <<lookup, freeList, liveList>>
  BY <1>9 DEF AcquireHit
<1>10. ASSUME NEW r \in Refs, NEW r2 \in Refs, NEW o \in Owners, Retain(r, r2, o)
       PROVE  UNCHANGED <<lookup, freeList, liveList>>
  BY <1>10 DEF Retain
<1>11. ASSUME NEW r \in Refs, ReleaseShared(r) \/ ReleaseRefused(r)
       PROVE  UNCHANGED <<lookup, freeList, liveList>>
  BY <1>11 DEF ReleaseShared, ReleaseRefused
<1>12. CASE ManagerInit \/ Shutdown \/ LoadFailsWithPayload \/ UNCHANGED vars
  BY <1>12 DEF ManagerInit, Shutdown, LoadFailsWithPayload, vars
<1> QED
  BY <1>2, <1>3, <1>4, <1>5, <1>6, <1>7, <1>8, <1>9, <1>10, <1>11, <1>12 DEF Next

\* A new manager has an empty index.
LEMMA InitUsesIndex == Init => Index!Init
  BY DEF Init, Index!Init

\* The manager uses its identity index and its two lists only as ResourceIndex
\* allows, which is what the tables of the code, in ResourceTables, provide.
THEOREM TablesUsedAsProvided == Spec => UsesIndex
  BY InitUsesIndex, StepUsesIndex, AlwaysManaging, PTL
     DEF Spec, UsesIndex, Index!Spec

-----------------------------------------------------------------------------
(* The promise of the manager. *)

-----------------------------------------------------------------------------
(* What is seen of a key. *)

Seen(st) ==
  CASE st \in {"LOADING", "FAILED"} -> "loading"
    [] st = "READY" -> "ready"
    [] st = "UNLOADING" -> "unloading"

\* What is seen of key k when slot s holds it.
Shown(k, s) ==
  /\ PhaseOf(k) = Seen(state[s])
  /\ SharersOf(k) = IF state[s] = "READY" THEN HoldersOf(s) ELSE {}

\* A resource that has a slot is shown as that slot is.
LEMMA KeyShown ==
  Managing => \A s \in Slots, k \in Keys :
                state[s] # "EMPTY" /\ key[s] = k => Shown(k, s)
<1> SUFFICES ASSUME Managing, NEW s \in Slots, NEW k \in Keys,
                    state[s] # "EMPTY", key[s] = k
             PROVE  Shown(k, s)
  OBVIOUS
<1>1. SlotsOf(k) = {s}
  <2>1. \A t \in Slots : state[t] # "EMPTY" /\ key[t] = k => lookup[IdOf[k]] = t
    BY DEF Managing, IdentitiesExact
  <2> QED
    BY <2>1 DEF SlotsOf
<1>2. (CHOOSE t \in SlotsOf(k) : TRUE) = s
  BY <1>1
<1>3. PhaseOf(k) = Seen(state[s])
  BY <1>1, <1>2 DEF PhaseOf, Seen
<1>4. SharersOf(k) = IF state[s] = "READY" THEN HoldersOf(s) ELSE {}
  BY <1>1 DEF SharersOf
<1> QED
  BY <1>3, <1>4 DEF Shown

\* A resource that has no slot is absent and shared by nobody.
LEMMA KeyAbsent ==
  \A k \in Keys : (\A s \in Slots : state[s] # "EMPTY" => key[s] # k) =>
                    PhaseOf(k) = "absent" /\ SharersOf(k) = {}
<1> SUFFICES ASSUME NEW k \in Keys, \A s \in Slots : state[s] # "EMPTY" => key[s] # k
             PROVE  PhaseOf(k) = "absent" /\ SharersOf(k) = {}
  OBVIOUS
<1>1. SlotsOf(k) = {}
  BY DEF SlotsOf
<1> QED
  BY <1>1 DEF PhaseOf, SharersOf

\* The next state is seen the same way.
LEMMA NextShown ==
  /\ Managing' => \A s \in Slots, k \in Keys :
                    state'[s] # "EMPTY" /\ key'[s] = k => Shown(k, s)'
  /\ \A k \in Keys : (\A s \in Slots : state'[s] # "EMPTY" => key'[s] # k) =>
                       PhaseOf(k)' = "absent" /\ SharersOf(k)' = {}
<1>1. (Managing => \A s \in Slots, k \in Keys :
                     state[s] # "EMPTY" /\ key[s] = k => Shown(k, s))'
  BY KeyShown, PTL
<1>2. (\A k \in Keys : (\A s \in Slots : state[s] # "EMPTY" => key[s] # k) =>
                         PhaseOf(k) = "absent" /\ SharersOf(k) = {})'
  BY KeyAbsent, PTL
<1> QED
  BY <1>1, <1>2

\* Who shares a key holds a reference.
LEMMA SharersHold ==
  ASSUME Managing, NEW k \in Keys, NEW r \in SharersOf(k)
  PROVE  r \in Refs /\ holder[r] \in Owners
<1>1. PICK s \in Slots : state[s] # "EMPTY" /\ key[s] = k
  BY KeyAbsent
<1>2. SharersOf(k) = IF state[s] = "READY" THEN HoldersOf(s) ELSE {}
  BY <1>1, KeyShown DEF Shown
<1> QED
  BY <1>2 DEF HoldersOf

-----------------------------------------------------------------------------
(* What a step changes. *)

\* What is seen of key q is what it was.
SameView(q) == PhaseOf(q)' = PhaseOf(q) /\ SharersOf(q)' = SharersOf(q)

\* What holds of a slot that a step leaves to its key and its sharers.
SameRecord(s) ==
  /\ key'[s] = key[s] /\ state'[s] = state[s]
  /\ state[s] = "READY" => HoldersOf(s)' = HoldersOf(s)

\* A step about the record of slot s, before and after it of key k or of none.
Concerns(s, k) ==
  /\ \A t \in Slots \ {s} : SameRecord(t)
  /\ state[s] # "EMPTY" => key[s] = k
  /\ state'[s] # "EMPTY" => key'[s] = k

\* A step that concerns one slot and one key changes the view of no other key.
LEMMA OthersKeepTheirView ==
  ASSUME Managing, Managing', NEW s \in Slots, NEW k \in Keys, Concerns(s, k)
  PROVE  \A q \in Keys \ {k} : SameView(q)
<1> SUFFICES ASSUME NEW q \in Keys, q # k PROVE SameView(q)
  OBVIOUS
<1>1. CASE \E t \in Slots : state[t] # "EMPTY" /\ key[t] = q
  <2>1. PICK t \in Slots : state[t] # "EMPTY" /\ key[t] = q
    BY <1>1
  <2>2. t # s /\ SameRecord(t)
    BY <2>1 DEF Concerns
  <2>3. Shown(q, t)
    BY <2>1, KeyShown
  <2>4. Shown(q, t)'
    BY <2>1, <2>2, NextShown DEF SameRecord
  <2>5. PhaseOf(q) = Seen(state[t]) /\ PhaseOf(q)' = Seen(state'[t])
    BY <2>3, <2>4 DEF Shown, Seen
  <2>6. /\ SharersOf(q) = IF state[t] = "READY" THEN HoldersOf(t) ELSE {}
        /\ SharersOf(q)' = IF state'[t] = "READY" THEN HoldersOf(t)' ELSE {}
    BY <2>3, <2>4 DEF Shown
  <2> QED
    BY <2>2, <2>5, <2>6 DEF SameView, SameRecord
<1>2. CASE \A t \in Slots : state[t] # "EMPTY" => key[t] # q
  <2>1. \A t \in Slots : state'[t] # "EMPTY" => key'[t] # q
    BY <1>2 DEF Concerns, SameRecord
  <2> QED
    BY <1>2, <2>1, KeyAbsent, NextShown DEF SameView
<1> QED
  BY <1>1, <1>2

\* Nothing that is seen of any key changes.
LEMMA AllKeepTheirView ==
  ASSUME Managing, Managing', \A s \in Slots : SameRecord(s)
  PROVE  \A q \in Keys : SameView(q)
<1> SUFFICES ASSUME NEW q \in Keys PROVE SameView(q)
  OBVIOUS
<1>1. CASE \E t \in Slots : state[t] # "EMPTY" /\ key[t] = q
  <2>1. PICK t \in Slots : state[t] # "EMPTY" /\ key[t] = q
    BY <1>1
  <2>2. SameRecord(t) /\ Shown(q, t)
    BY <2>1, KeyShown
  <2>3. Shown(q, t)'
    BY <2>1, <2>2, NextShown DEF SameRecord
  <2>4. PhaseOf(q) = Seen(state[t]) /\ PhaseOf(q)' = Seen(state'[t])
    BY <2>2, <2>3 DEF Shown, Seen
  <2>5. /\ SharersOf(q) = IF state[t] = "READY" THEN HoldersOf(t) ELSE {}
        /\ SharersOf(q)' = IF state'[t] = "READY" THEN HoldersOf(t)' ELSE {}
    BY <2>2, <2>3 DEF Shown
  <2> QED
    BY <2>2, <2>4, <2>5 DEF SameView, SameRecord
<1>2. CASE \A t \in Slots : state[t] # "EMPTY" => key[t] # q
  <2>1. \A t \in Slots : state'[t] # "EMPTY" => key'[t] # q
    BY <1>2 DEF SameRecord
  <2> QED
    BY <1>2, <2>1, KeyAbsent, NextShown DEF SameView
<1> QED
  BY <1>1, <1>2

\* Those who hold a record whose handle does not change.
LEMMA HoldersKept ==
  ASSUME NEW t \in Slots, nGeneration'[t] = nGeneration[t], typeSlot'[t] = typeSlot[t],
         \A r \in Refs :
           \/ holder'[r] = holder[r] /\ handle'[r] = handle[r]
           \/ /\ r \notin HoldersOf(t)
              /\ ~(holder'[r] \in Owners /\ handle'[r] = HandleOf(t))
           \/ holder[r] \in Owners /\ holder'[r] \in Owners /\ handle'[r] = handle[r]
  PROVE  HoldersOf(t)' = HoldersOf(t)
<1>1. HandleOf(t)' = HandleOf(t)
  BY DEF HandleOf
<1>2. HoldersOf(t)' = {r \in Refs : holder'[r] \in Owners /\ handle'[r] = HandleOf(t)}
  BY <1>1 DEF HoldersOf
<1> QED
  BY <1>2 DEF HoldersOf

-----------------------------------------------------------------------------
(* Steps of the promise. *)

phaseView == [q \in Keys |-> PhaseOf(q)]
sharersView == [q \in Keys |-> SharersOf(q)]

\* One key changes.
LEMMA OneKeyChanges ==
  ASSUME NEW k \in Keys, \A q \in Keys \ {k} : SameView(q)
  PROVE  /\ phaseView' = [phaseView EXCEPT ![k] = PhaseOf(k)']
         /\ sharersView' = [sharersView EXCEPT ![k] = SharersOf(k)']
<1>1. /\ phaseView' = [q \in Keys |-> PhaseOf(q)']
      /\ sharersView' = [q \in Keys |-> SharersOf(q)']
  BY DEF phaseView, sharersView
<1> QED
  BY <1>1 DEF SameView, phaseView, sharersView

\* When no key changes its view, the promise stutters.
LEMMA NoKeyChanges ==
  ASSUME \A q \in Keys : SameView(q)
  PROVE  phaseView' = phaseView /\ sharersView' = sharersView
  BY DEF SameView, phaseView, sharersView

\* The promise read on what is seen.
LEMMA PromiseViews ==
  ASSUME NEW k \in Keys
  PROVE  /\ \A a, b : Promise!Move(k, a, b) <=>
              PhaseOf(k) = a /\ phaseView' = [phaseView EXCEPT ![k] = b]
         /\ \A r : Promise!Unused(r) <=> \A q \in Keys : r \notin SharersOf(q)
         /\ Promise!pvars = <<phaseView, sharersView, bShuttingDown>>
  BY DEF Promise!Move, Promise!Unused, Promise!pvars, phaseView, sharersView

\* The acquisition of a key that is not loaded starts its load.
LEMMA MissStartsLoad ==
  ASSUME Managing, Managing', NEW k \in Keys, NEW r \in Refs, NEW o \in Owners,
         AcquireMiss(k, r, o)
  PROVE  Promise!StartLoad(k)
<1> DEFINE s == Head(freeList)
<1>1. /\ ~bShuttingDown /\ lookup[IdOf[k]] = NoSlot /\ freeList # <<>>
      /\ holder[r] = Nobody
  BY DEF AcquireMiss, AcquireOutcome, RejectsNewWork, Available
<1>2. s \in Slots /\ state[s] = "EMPTY"
  <2>1. freeList \in Seq(Slots) /\ 1 \in DOMAIN freeList /\ s = freeList[1]
    BY <1>1, EmptySeq, LenProperties DEF Managing, TypeOK
  <2> QED
    BY <2>1 DEF Managing, ListsExact, ExactList, Members
<1>3. /\ key' = [key EXCEPT ![s] = k] /\ state' = [state EXCEPT ![s] = "LOADING"]
      /\ \A t \in Slots \ {s} : typeSlot'[t] = typeSlot[t]
      /\ holder' = [holder EXCEPT ![r] = Pending]
      /\ UNCHANGED <<nGeneration, handle, bShuttingDown>>
  BY <1>2, ClientTypes DEF AcquireMiss, Managing
<1> HIDE DEF s
<1>4. /\ key \in [Slots -> Keys \union {NoKey}] /\ state \in [Slots -> States]
      /\ holder \in [Refs -> Owners \union {Nobody, Pending}]
      /\ Nobody \notin Owners /\ Pending \notin Owners
  BY ClientTypes DEF Managing, TypeOK
<1>5. ASSUME NEW t \in Slots \ {s} PROVE SameRecord(t)
  <2>1. key'[t] = key[t] /\ state'[t] = state[t]
    BY <1>3, <1>4
  <2>2. ASSUME NEW q \in Refs
        PROVE  \/ holder'[q] = holder[q] /\ handle'[q] = handle[q]
               \/ /\ q \notin HoldersOf(t)
                  /\ ~(holder'[q] \in Owners /\ handle'[q] = HandleOf(t))
    BY <1>1, <1>3, <1>4 DEF HoldersOf
  <2>3. HoldersOf(t)' = HoldersOf(t)
    BY <1>3, <2>2, HoldersKept
  <2> QED
    BY <2>1, <2>3 DEF SameRecord
<1>6. key'[s] = k /\ state'[s] = "LOADING"
  BY <1>2, <1>3, <1>4
<1>7. \A t \in Slots : state[t] # "EMPTY" => key[t] # k
  BY <1>1, KeysFound, ConstantAssumption DEF Managing, IdentitiesExact
<1>8. PhaseOf(k) = "absent" /\ SharersOf(k) = {}
  BY <1>7, KeyAbsent
<1>9. PhaseOf(k)' = "loading" /\ SharersOf(k)' = {}
  BY <1>2, <1>6, NextShown DEF Shown, Seen
<1>10. \A q \in Keys \ {k} : SameView(q)
  BY <1>2, <1>5, <1>6, OthersKeepTheirView DEF Concerns
<1>11. phaseView' = [phaseView EXCEPT ![k] = "loading"] /\ sharersView' = sharersView
  BY <1>8, <1>9, <1>10, OneKeyChanges DEF sharersView
<1>12. Promise!Move(k, "absent", "loading")
  BY <1>8, <1>11, PromiseViews
<1> QED
  BY <1>1, <1>3, <1>11, <1>12 DEF Promise!StartLoad, sharersView

\* One more reference to a published record joins its sharers.
LEMMA GrantJoins ==
  ASSUME Managing, Managing', NEW s \in Slots, NEW k \in Keys, key[s] = k,
         state[s] = "READY", NEW r \in Refs, holder[r] = Nobody, NEW o \in Owners,
         ~bShuttingDown,
         holder' = [holder EXCEPT ![r] = o],
         handle' = [handle EXCEPT ![r] = HandleOf(s)],
         UNCHANGED <<bShuttingDown, state, key, typeSlot, nGeneration>>
  PROVE  Promise!Join(k, r)
<1>1. /\ holder \in [Refs -> Owners \union {Nobody, Pending}]
      /\ handle \in [Refs -> Handle] /\ Nobody \notin Owners
  BY ClientTypes DEF Managing
<1>2. key'[s] = k /\ state'[s] = "READY"
  OBVIOUS
<1>3. ASSUME NEW t \in Slots \ {s} PROVE SameRecord(t)
  <2>1. ASSUME NEW q \in Refs
        PROVE  \/ holder'[q] = holder[q] /\ handle'[q] = handle[q]
               \/ /\ q \notin HoldersOf(t)
                  /\ ~(holder'[q] \in Owners /\ handle'[q] = HandleOf(t))
    <3>1. CASE q = r
      <4>1. handle'[q] # HandleOf(t)
        BY <1>1, <3>1, HandleSlots
      <4> QED
        BY <1>1, <3>1, <4>1 DEF HoldersOf
    <3>2. CASE q # r
      BY <1>1, <3>2
    <3> QED
      BY <3>1, <3>2
  <2>2. HoldersOf(t)' = HoldersOf(t)
    BY <2>1, HoldersKept
  <2> QED
    BY <2>2 DEF SameRecord
<1>4. HoldersOf(s)' = HoldersOf(s) \union {r}
  <2>1. HandleOf(s)' = HandleOf(s)
    BY DEF HandleOf
  <2>2. HoldersOf(s)' = {q \in Refs : holder'[q] \in Owners /\ handle'[q] = HandleOf(s)}
    BY <2>1 DEF HoldersOf
  <2>3. ASSUME NEW q \in Refs
        PROVE  holder'[q] \in Owners /\ handle'[q] = HandleOf(s) <=>
                 q = r \/ (holder[q] \in Owners /\ handle[q] = HandleOf(s))
    <3>1. CASE q = r
      BY <1>1, <3>1
    <3>2. CASE q # r
      BY <1>1, <3>2
    <3> QED
      BY <3>1, <3>2
  <2> QED
    BY <2>2, <2>3 DEF HoldersOf
<1>5. PhaseOf(k) = "ready" /\ SharersOf(k) = HoldersOf(s)
  BY <1>1, KeyShown DEF Shown, Seen
<1>6. PhaseOf(k)' = "ready" /\ SharersOf(k)' = HoldersOf(s)'
  BY <1>1, <1>2, NextShown DEF Shown, Seen
<1>7. \A q \in Keys \ {k} : SameView(q)
  <2>1. Concerns(s, k)
    BY <1>2, <1>3 DEF Concerns
  <2> QED
    BY <1>1, <2>1, OthersKeepTheirView
<1>8. /\ phaseView' = [phaseView EXCEPT ![k] = "ready"]
      /\ sharersView' = [sharersView EXCEPT ![k] = SharersOf(k) \union {r}]
  BY <1>1, <1>4, <1>5, <1>6, <1>7, OneKeyChanges
<1>9. phaseView' = phaseView /\ sharersView[k] = SharersOf(k) /\ phaseView[k] = "ready"
  BY <1>1, <1>5, <1>8 DEF phaseView, sharersView
<1>10. Promise!Unused(r)
  BY <1>1, SharersHold DEF Promise!Unused
<1> QED
  BY <1>8, <1>9, <1>10 DEF Promise!Join, phaseView, sharersView

\* An acquisition that finds the resource joins those who share it.
LEMMA HitJoins ==
  ASSUME Managing, Managing', NEW k \in Keys, NEW r \in Refs, NEW o \in Owners,
         AcquireHit(k, r, o)
  PROVE  Promise!Join(k, r)
<1>1. /\ lookup[IdOf[k]] # NoSlot /\ state[lookup[IdOf[k]]] = "READY" /\ ~bShuttingDown
      /\ key[lookup[IdOf[k]]] = k
  BY DEF AcquireHit, AcquireOutcome, RejectsNewWork, SameIdentity
<1>2. lookup[IdOf[k]] \in Slots
  BY <1>1, KeysFound
<1>3. PICK s \in Slots : s = lookup[IdOf[k]]
  BY <1>2
<1>4. /\ holder[r] = Nobody /\ holder' = [holder EXCEPT ![r] = o]
      /\ handle' = [handle EXCEPT ![r] = HandleOf(s)]
      /\ UNCHANGED <<bShuttingDown, state, key, typeSlot, nGeneration>>
  BY <1>3 DEF AcquireHit, Available
<1> QED
  BY <1>1, <1>3, <1>4, GrantJoins

\* A retained reference joins those who share the resource.
LEMMA RetainJoins ==
  ASSUME Managing, Managing', NEW r \in Refs, NEW r2 \in Refs, NEW o \in Owners,
         Retain(r, r2, o)
  PROVE  \E k \in Keys : Promise!Join(k, r2)
<1>1. handle[r] \in Handle /\ handle[r].slot \in Slots
  BY ClientTypes DEF Managing, Handle
<1>2. PICK s \in Slots : s = handle[r].slot
  BY <1>1
<1>3. /\ ~bShuttingDown /\ IsReady(handle[r]) /\ holder[r2] = Nobody
      /\ holder' = [holder EXCEPT ![r2] = o]
      /\ handle' = [handle EXCEPT ![r2] = handle[r]]
      /\ UNCHANGED <<bShuttingDown, state, key, typeSlot, nGeneration>>
  BY DEF Retain, RejectsNewWork, Available
<1>4. handle[r] = HandleOf(s) /\ state[s] = "READY"
  BY <1>1, <1>2, <1>3, HandleResolves DEF Managing
<1>5. PICK k \in Keys : k = key[s]
  BY <1>4 DEF Managing, IdentitiesExact
<1>6. Promise!Join(k, r2)
  BY <1>3, <1>4, <1>5, GrantJoins
<1> QED
  BY <1>6

\* A payload is published for the reference that asked for it, and no other.
LEMMA LoadPublishes ==
  ASSUME Managing, Managing', Holding, LoadSucceeds
  PROVE  \E k \in Keys, r \in Refs : Promise!Publish(k, r)
<1>1. /\ callStack # <<>> /\ Top.kind = "load" /\ Top = callStack[Len(callStack)]
      /\ Len(callStack) \in DOMAIN callStack
      /\ Top.slot \in Slots /\ state[Top.slot] = "LOADING" /\ Top.owner \in Owners
  BY TopFrame DEF LoadSucceeds, Managing, Frame, FrameState, Top
<1>2. Top.ref \in Refs /\ holder[Top.ref] = Pending /\ ~bShuttingDown
  BY <1>1 DEF Holding, Granting, Loads
<1>3. PICK s \in Slots : s = Top.slot
  BY <1>1
<1>4. PICK r \in Refs : r = Top.ref
  BY <1>2
<1>5. PICK k \in Keys : k = key[s]
  BY <1>1, <1>3 DEF Managing, IdentitiesExact
<1>6. PICK o \in Owners : o = Top.owner
  BY <1>1
<1>7. /\ state' = [state EXCEPT ![s] = "READY"]
      /\ holder' = [holder EXCEPT ![r] = o]
      /\ handle' = [handle EXCEPT ![r] = HandleOf(s)]
      /\ UNCHANGED <<bShuttingDown, key, typeSlot, nGeneration>>
  BY <1>3, <1>4, <1>6 DEF LoadSucceeds
<1>8. /\ state[s] = "LOADING" /\ holder[r] = Pending /\ ~bShuttingDown
      /\ holder \in [Refs -> Owners \union {Nobody, Pending}]
      /\ handle \in [Refs -> Handle] /\ state \in [Slots -> States]
      /\ Pending \notin Owners
  BY <1>1, <1>2, <1>3, <1>4, ClientTypes DEF Managing
<1>9. key'[s] = k /\ state'[s] = "READY"
  BY <1>5, <1>7, <1>8
<1>10. ASSUME NEW t \in Slots \ {s} PROVE SameRecord(t)
  <2>1. ASSUME NEW q \in Refs
        PROVE  \/ holder'[q] = holder[q] /\ handle'[q] = handle[q]
               \/ /\ q \notin HoldersOf(t)
                  /\ ~(holder'[q] \in Owners /\ handle'[q] = HandleOf(t))
    <3>1. CASE q = r
      <4>1. handle'[q] # HandleOf(t)
        BY <1>7, <1>8, <3>1, HandleSlots
      <4> QED
        BY <1>8, <3>1, <4>1 DEF HoldersOf
    <3>2. CASE q # r
      BY <1>7, <1>8, <3>2
    <3> QED
      BY <3>1, <3>2
  <2>2. HoldersOf(t)' = HoldersOf(t)
    BY <1>7, <2>1, HoldersKept
  <2> QED
    BY <1>7, <1>8, <2>2 DEF SameRecord
<1>11. HoldersOf(s)' = {r}
  <2>1. HandleOf(s)' = HandleOf(s)
    BY <1>7 DEF HandleOf
  <2>2. HoldersOf(s)' = {q \in Refs : holder'[q] \in Owners /\ handle'[q] = HandleOf(s)}
    BY <2>1 DEF HoldersOf
  <2>3. ASSUME NEW q \in Refs, q # r, holder[q] \in Owners
        PROVE  handle[q] # HandleOf(s)
    <3>1. IsReady(handle[q])
      BY <1>8, <2>3 DEF Holding, Resolving
    <3>2. state[handle[q].slot] = "READY"
      BY <3>1 DEF IsReady
    <3> QED
      BY <1>8, <3>2, HandleSlots
  <2>4. ASSUME NEW q \in Refs
        PROVE  holder'[q] \in Owners /\ handle'[q] = HandleOf(s) <=> q = r
    <3>1. CASE q = r
      BY <1>7, <1>8, <3>1
    <3>2. CASE q # r
      BY <1>7, <1>8, <2>3, <3>2
    <3> QED
      BY <3>1, <3>2
  <2> QED
    BY <2>2, <2>4
<1>12. PhaseOf(k) = "loading" /\ SharersOf(k) = {}
  BY <1>5, <1>8, KeyShown DEF Shown, Seen
<1>13. PhaseOf(k)' = "ready" /\ SharersOf(k)' = {r}
  BY <1>9, <1>11, NextShown DEF Shown, Seen
<1>14. \A q \in Keys \ {k} : SameView(q)
  BY <1>5, <1>9, <1>10, OthersKeepTheirView DEF Concerns
<1>15. /\ phaseView' = [phaseView EXCEPT ![k] = "ready"]
       /\ sharersView' = [sharersView EXCEPT ![k] = {r}]
  BY <1>13, <1>14, OneKeyChanges
<1>16. Promise!Move(k, "loading", "ready")
  BY <1>12, <1>15, PromiseViews
<1>17. Promise!Unused(r)
  BY <1>8, SharersHold DEF Promise!Unused
<1>18. Promise!Publish(k, r)
  BY <1>7, <1>15, <1>16, <1>17 DEF Promise!Publish, sharersView
<1> QED
  BY <1>18

\* A record that is recycled was nobody's, and its key is absent again.
LEMMA RecyclingForgets ==
  ASSUME Managing, Managing', NEW s \in Slots, state[s] \in Transient,
         NEW waiting \in Refs \union {NoSlot}, Recycle(s, waiting),
         waiting \in Refs => holder[waiting] = Pending, UNCHANGED bShuttingDown
  PROVE  \E k \in Keys : Promise!Abandon(k) \/ Promise!Finish(k)
<1>1. PICK k \in Keys : k = key[s] /\ lookup[IdOf[k]] = s
  BY DEF Managing, IdentitiesExact, Transient
<1>2. /\ state' = [state EXCEPT ![s] = "EMPTY"] /\ key' = [key EXCEPT ![s] = NoKey]
      /\ nGeneration' = [nGeneration EXCEPT ![s] = NextGeneration(nGeneration[s])]
      /\ typeSlot' = [typeSlot EXCEPT ![s] = 0] /\ handle' = handle
      /\ lookup' = [lookup EXCEPT ![IdOf[k]] = NoSlot]
      /\ holder' = [q \in Refs |-> IF q = waiting THEN Nobody
                                   ELSE IF holder[q] = s THEN App ELSE holder[q]]
  BY <1>1 DEF Recycle, RemoveLookup
<1>3. /\ key \in [Slots -> Keys \union {NoKey}] /\ state \in [Slots -> States]
      /\ nGeneration \in [Slots -> 1 .. GenerationMax]
      /\ typeSlot \in [Slots -> 0 .. TypeSlotMax]
      /\ Nobody \notin Owners /\ Pending \notin Owners /\ App \in Owners
      /\ Slots \subseteq Owners
  BY ClientTypes DEF Managing, TypeOK
<1>4. ASSUME NEW t \in Slots \ {s} PROVE SameRecord(t)
  <2>1. /\ key'[t] = key[t] /\ state'[t] = state[t]
        /\ nGeneration'[t] = nGeneration[t] /\ typeSlot'[t] = typeSlot[t]
    BY <1>2, <1>3
  <2>2. ASSUME NEW q \in Refs
        PROVE  \/ holder'[q] = holder[q] /\ handle'[q] = handle[q]
               \/ /\ q \notin HoldersOf(t)
                  /\ ~(holder'[q] \in Owners /\ handle'[q] = HandleOf(t))
               \/ holder[q] \in Owners /\ holder'[q] \in Owners /\ handle'[q] = handle[q]
    <3>1. CASE q = waiting
      BY <1>2, <1>3, <3>1 DEF HoldersOf
    <3>2. CASE q # waiting
      BY <1>2, <1>3, <3>2
    <3> QED
      BY <3>1, <3>2
  <2>3. HoldersOf(t)' = HoldersOf(t)
    BY <2>1, <2>2, HoldersKept
  <2> QED
    BY <2>1, <2>3 DEF SameRecord
<1>5. state'[s] = "EMPTY" /\ state[s] \notin {"EMPTY", "READY"}
  BY <1>2, <1>3 DEF Transient
<1>6. \A t \in Slots : state'[t] # "EMPTY" => key'[t] # k
  <2>1. \A t \in Slots : state[t] # "EMPTY" /\ key[t] = k => t = s
    BY <1>1 DEF Managing, IdentitiesExact
  <2> QED
    BY <1>4, <1>5, <2>1 DEF SameRecord
<1>7. PhaseOf(k) = Seen(state[s]) /\ SharersOf(k) = {}
  BY <1>1, <1>5, KeyShown DEF Shown
<1>8. PhaseOf(k)' = "absent" /\ SharersOf(k)' = {}
  BY <1>6, NextShown
<1>9. \A q \in Keys \ {k} : SameView(q)
  BY <1>1, <1>4, <1>5, OthersKeepTheirView DEF Concerns
<1>10. phaseView' = [phaseView EXCEPT ![k] = "absent"] /\ sharersView' = sharersView
  BY <1>7, <1>8, <1>9, OneKeyChanges DEF sharersView
<1>11. PhaseOf(k) = "loading" \/ PhaseOf(k) = "unloading"
  BY <1>7 DEF Seen, Transient
<1>12. Promise!Move(k, "loading", "absent") \/ Promise!Move(k, "unloading", "absent")
  BY <1>10, <1>11, PromiseViews
<1> QED
  BY <1>10, <1>12 DEF Promise!Abandon, Promise!Finish, sharersView

\* A callback that returns and frees its slot abandons or finishes the resource.
LEMMA ReturnsForget ==
  ASSUME Managing, Managing', Holding, LoadFails \/ FailedUnloadReturns \/ UnloadReturns
  PROVE  \E k \in Keys : Promise!Abandon(k) \/ Promise!Finish(k)
<1>1. /\ callStack # <<>> /\ Top.kind \in {"load", "fail", "unload"}
      /\ UNCHANGED bShuttingDown
      /\ Top.kind = "unload" => Recycle(Top.slot, NoSlot)
      /\ Top.kind # "unload" => Recycle(Top.slot, Top.ref)
  BY DEF LoadFails, FailedUnloadReturns, UnloadReturns
<1>2. /\ Top.slot \in Slots /\ state[Top.slot] \in Transient
      /\ Top = callStack[Len(callStack)] /\ Len(callStack) \in DOMAIN callStack
  BY <1>1, TopFrame DEF Managing, Transient, FrameState, Top
<1>3. Top.kind # "unload" => Top.ref \in Refs /\ holder[Top.ref] = Pending
  BY <1>1, <1>2 DEF Holding, Granting, Loads
<1>4. PICK s \in Slots : s = Top.slot
  BY <1>2
<1>5. PICK waiting \in Refs \union {NoSlot} :
        Recycle(s, waiting) /\ (waiting \in Refs => holder[waiting] = Pending)
  <2>1. CASE Top.kind = "unload"
    BY <1>1, <1>4, <2>1, ClientTypes DEF Managing
  <2>2. CASE Top.kind # "unload"
    BY <1>1, <1>3, <1>4, <2>2
  <2> QED
    BY <2>1, <2>2
<1> QED
  BY <1>1, <1>2, <1>4, <1>5, RecyclingForgets

\* A load that fails with a payload still looks like a load.
LEMMA FailureUnseen ==
  ASSUME Managing, Managing', LoadFailsWithPayload
  PROVE  phaseView' = phaseView /\ sharersView' = sharersView
<1>1. /\ Top.slot \in Slots /\ state[Top.slot] = "LOADING"
  BY TopFrame DEF LoadFailsWithPayload, Managing, FrameState
<1>2. PICK s \in Slots : s = Top.slot
  BY <1>1
<1>3. PICK k \in Keys : k = key[s]
  BY <1>1, <1>2 DEF Managing, IdentitiesExact
<1>4. /\ state' = [state EXCEPT ![s] = "FAILED"] /\ state \in [Slots -> States]
      /\ UNCHANGED <<key, typeSlot, nGeneration, holder, handle>>
  BY <1>2, ClientTypes DEF LoadFailsWithPayload, Managing, client
<1>5. ASSUME NEW t \in Slots \ {s} PROVE SameRecord(t)
  <2>1. HoldersOf(t)' = HoldersOf(t)
    BY <1>4, HoldersKept
  <2> QED
    BY <1>4, <2>1 DEF SameRecord
<1>6. state[s] = "LOADING" /\ state'[s] = "FAILED" /\ key'[s] = k
  BY <1>1, <1>2, <1>3, <1>4
<1>7. PhaseOf(k) = "loading" /\ SharersOf(k) = {}
  BY <1>3, <1>6, KeyShown DEF Shown, Seen
<1>8. PhaseOf(k)' = "loading" /\ SharersOf(k)' = {}
  BY <1>6, NextShown DEF Shown, Seen
<1>9. \A q \in Keys \ {k} : SameView(q)
  BY <1>3, <1>5, <1>6, OthersKeepTheirView DEF Concerns
<1>10. \A q \in Keys : SameView(q)
  BY <1>7, <1>8, <1>9 DEF SameView
<1> QED
  BY <1>10, NoKeyChanges

\* A reference that is given up is one sharer less of its record.
LEMMA OneLeaves ==
  ASSUME Managing, NEW r \in Refs, holder' = [holder EXCEPT ![r] = Nobody],
         UNCHANGED <<typeSlot, nGeneration, handle>>
  PROVE  \A t \in Slots : HoldersOf(t)' = HoldersOf(t) \ {r}
<1> SUFFICES ASSUME NEW t \in Slots PROVE HoldersOf(t)' = HoldersOf(t) \ {r}
  OBVIOUS
<1>1. /\ holder \in [Refs -> Owners \union {Nobody, Pending}] /\ Nobody \notin Owners
  BY ClientTypes DEF Managing
<1>2. HandleOf(t)' = HandleOf(t)
  BY DEF HandleOf
<1>3. HoldersOf(t)' = {q \in Refs : holder'[q] \in Owners /\ handle[q] = HandleOf(t)}
  BY <1>2 DEF HoldersOf
<1>4. \A q \in Refs : holder'[q] \in Owners <=> q # r /\ holder[q] \in Owners
  BY <1>1
<1> QED
  BY <1>3, <1>4 DEF HoldersOf

\* The reference that Res_Release is given shares its key.
LEMMA ReleasedShares ==
  ASSUME Managing, Holding, NEW r \in Refs, holder[r] \in Owners, IsReady(handle[r])
  PROVE  /\ handle[r].slot \in Slots /\ state[handle[r].slot] = "READY"
         /\ key[handle[r].slot] \in Keys
         /\ r \in HoldersOf(handle[r].slot)
         /\ cReferences[handle[r].slot] = Cardinality(HoldersOf(handle[r].slot))
<1>1. handle[r] \in Handle /\ handle[r].slot \in Slots
  BY ClientTypes DEF Managing, Handle
<1>2. handle[r] = HandleOf(handle[r].slot) /\ state[handle[r].slot] = "READY"
  BY <1>1, HandleResolves DEF Managing
<1> QED
  BY <1>1, <1>2 DEF HoldersOf, Holding, Counting, Managing, IdentitiesExact

\* A release leaves those who share the resource.
LEMMA ReleaseLeaves ==
  ASSUME Managing, Managing', Holding, NEW r \in Refs,
         ReleaseShared(r) \/ ReleaseLast(r)
  PROVE  \E k \in Keys : Promise!Leave(k, r)
<1>1. /\ holder[r] \in Owners /\ IsReady(handle[r])
      /\ holder' = [holder EXCEPT ![r] = Nobody]
      /\ UNCHANGED <<bShuttingDown, key, typeSlot, nGeneration, handle>>
  BY DEF ReleaseShared, ReleaseLast
<1>2. PICK s \in Slots : s = handle[r].slot
  BY <1>1, ReleasedShares
<1>3. /\ state[s] = "READY" /\ r \in HoldersOf(s)
      /\ cReferences[s] = Cardinality(HoldersOf(s))
  BY <1>1, <1>2, ReleasedShares
<1>4. PICK k \in Keys : k = key[s]
  BY <1>1, <1>2, ReleasedShares
<1>5. \/ cReferences[s] > 1 /\ state' = state
      \/ cReferences[s] = 1 /\ state' = [state EXCEPT ![s] = "UNLOADING"]
  BY <1>2 DEF ReleaseShared, ReleaseLast, BeginUnload
<1>6. state \in [Slots -> States]
  BY ClientTypes DEF Managing
<1>7. \A t \in Slots : HoldersOf(t)' = HoldersOf(t) \ {r}
  BY <1>1, OneLeaves
<1>8. ASSUME NEW t \in Slots \ {s} PROVE SameRecord(t)
  <2>1. r \notin HoldersOf(t)
    BY <1>2, HandleSlots DEF HoldersOf
  <2>2. key'[t] = key[t] /\ state'[t] = state[t]
    BY <1>1, <1>5, <1>6
  <2> QED
    BY <1>7, <2>1, <2>2 DEF SameRecord
<1>9. PhaseOf(k) = "ready" /\ SharersOf(k) = HoldersOf(s)
  BY <1>3, <1>4, KeyShown DEF Shown, Seen
<1>10. \A q \in Keys \ {k} : SameView(q)
  BY <1>1, <1>4, <1>8, OthersKeepTheirView DEF Concerns
<1>11. CASE cReferences[s] > 1 /\ state' = state
  <2>1. HoldersOf(s) # {r}
    BY <1>3, <1>11, FS_Singleton
  <2>2. PhaseOf(k)' = "ready" /\ SharersOf(k)' = HoldersOf(s) \ {r}
    BY <1>1, <1>3, <1>4, <1>7, <1>11, NextShown DEF Shown, Seen
  <2>3. /\ phaseView' = [phaseView EXCEPT ![k] = PhaseOf(k)]
        /\ sharersView' = [sharersView EXCEPT ![k] = SharersOf(k) \ {r}]
    BY <1>9, <1>10, <2>2, OneKeyChanges
  <2>4. phaseView' = phaseView
    BY <2>3 DEF phaseView
  <2> QED
    BY <1>1, <1>3, <1>9, <2>1, <2>3, <2>4 DEF Promise!Leave, phaseView, sharersView
<1>12. CASE cReferences[s] = 1 /\ state' = [state EXCEPT ![s] = "UNLOADING"]
  <2>1. HoldersOf(s) = {r}
    BY <1>3, <1>12, OnlyHolder
  <2>2. state'[s] = "UNLOADING" /\ key'[s] = k
    BY <1>1, <1>4, <1>6, <1>12
  <2>3. PhaseOf(k)' = "unloading" /\ SharersOf(k)' = {}
    BY <2>2, NextShown DEF Shown, Seen
  <2>4. /\ phaseView' = [phaseView EXCEPT ![k] = "unloading"]
        /\ sharersView' = [sharersView EXCEPT ![k] = SharersOf(k) \ {r}]
    BY <1>9, <1>10, <2>1, <2>3, OneKeyChanges
  <2>5. Promise!Move(k, "ready", "unloading")
    BY <1>9, <2>4, PromiseViews
  <2> QED
    BY <1>1, <1>3, <1>9, <2>1, <2>4, <2>5 DEF Promise!Leave, phaseView, sharersView
<1> QED
  BY <1>5, <1>11, <1>12

\* A reference that is refused was nobody's share.
LEMMA RefusalUnseen ==
  ASSUME Managing, Managing', Holding, NEW r \in Refs, ReleaseRefused(r)
  PROVE  phaseView' = phaseView /\ sharersView' = sharersView
<1>1. /\ holder[r] \in Owners /\ holder' = [holder EXCEPT ![r] = Nobody]
      /\ ~(IsReady(handle[r]) /\ cReferences[handle[r].slot] > 0)
      /\ UNCHANGED <<state, key, typeSlot, nGeneration, handle>>
  BY DEF ReleaseRefused, record
<1>2. ASSUME NEW t \in Slots PROVE SameRecord(t)
  <2>1. ASSUME state[t] = "READY", r \in HoldersOf(t) PROVE FALSE
    <3>1. handle[r] = HandleOf(t) /\ handle[r].slot = t
      BY <2>1, HandleSlots DEF HoldersOf
    <3>2. IsReady(handle[r])
      BY <2>1, <3>1, HandleResolves, HandlesMade DEF Managing
    <3> QED
      BY <1>1, <2>1, <3>1, <3>2 DEF Holding, Counting
  <2>2. HoldersOf(t)' = HoldersOf(t) \ {r}
    BY <1>1, OneLeaves
  <2> QED
    BY <1>1, <2>1, <2>2 DEF SameRecord
<1> QED
  BY <1>2, AllKeepTheirView, NoKeyChanges

-----------------------------------------------------------------------------
(* The shutdown. *)

\* An unload that the shutdown forces evicts the resource.
LEMMA ForcedUnloadEvicts ==
  ASSUME Managing, Managing', ShutdownUnload
  PROVE  \E k \in Keys : Promise!Evict(k)
<1>1. /\ bShuttingDown /\ liveList # <<>>
      /\ state' = [state EXCEPT ![NextVictim] = "UNLOADING"]
      /\ UNCHANGED <<bShuttingDown, key, typeSlot, nGeneration, holder, handle>>
  BY DEF ShutdownUnload, BeginUnload, client
<1>2. NextVictim \in Slots /\ state[NextVictim] = "READY"
  <2>1. /\ liveList \in Seq(Slots)
        /\ Members(liveList) = {t \in Slots : state[t] = "READY"}
    BY DEF Managing, ListsExact, ExactList, TypeOK
  <2>2. Len(liveList) \in DOMAIN liveList
    BY <1>1, <2>1, EmptySeq, LenProperties
  <2> QED
    BY <2>1, <2>2 DEF Members, NextVictim
<1>3. PICK s \in Slots : s = NextVictim
  BY <1>2
<1>4. PICK k \in Keys : k = key[s]
  BY <1>2, <1>3 DEF Managing, IdentitiesExact
<1>5. state'[s] = "UNLOADING" /\ state[s] = "READY" /\ key'[s] = k
  BY <1>1, <1>2, <1>3, <1>4, ClientTypes DEF Managing
<1>6. ASSUME NEW t \in Slots \ {s} PROVE SameRecord(t)
  <2>1. HoldersOf(t)' = HoldersOf(t)
    BY <1>1, HoldersKept
  <2>2. state'[t] = state[t]
    BY <1>1, <1>3, ClientTypes DEF Managing
  <2> QED
    BY <1>1, <2>1, <2>2 DEF SameRecord
<1>7. PhaseOf(k) = "ready"
  BY <1>4, <1>5, KeyShown DEF Shown, Seen
<1>8. PhaseOf(k)' = "unloading" /\ SharersOf(k)' = {}
  BY <1>5, NextShown DEF Shown, Seen
<1>9. \A q \in Keys \ {k} : SameView(q)
  BY <1>4, <1>5, <1>6, OthersKeepTheirView DEF Concerns
<1>10. /\ phaseView' = [phaseView EXCEPT ![k] = "unloading"]
       /\ sharersView' = [sharersView EXCEPT ![k] = {}]
  BY <1>8, <1>9, OneKeyChanges
<1>11. Promise!Move(k, "ready", "unloading")
  BY <1>7, <1>10, PromiseViews
<1>12. Promise!Evict(k)
  BY <1>1, <1>10, <1>11 DEF Promise!Evict, sharersView
<1> QED
  BY <1>12

\* No callback is in progress when a shutdown starts.
LEMMA ShutdownCloses ==
  ASSUME Managing, Managing', Shutdown
  PROVE  Promise!Close
<1>1. /\ initialized /\ (callStack # <<>> \/ ~bShuttingDown) /\ bShuttingDown'
      /\ cCallbackDepth = 0 /\ cCallbackDepth = Len(callStack)
      /\ UNCHANGED <<state, key, typeSlot, nGeneration, holder, handle>>
  BY DEF Shutdown, ClientRuns, record, client, Managing, CallbacksOwnTheirRecord
<1>2. callStack = <<>>
  BY <1>1, ClientTypes, EmptySeq DEF Managing
<1>3. ASSUME NEW s \in Slots PROVE state[s] \in {"EMPTY", "READY"}
  BY <1>2, ClientTypes DEF Managing, CallbacksOwnTheirRecord, States
<1>4. ASSUME NEW k \in Keys PROVE PhaseOf(k) \in {"absent", "ready"}
  <2>1. CASE \E s \in Slots : state[s] # "EMPTY" /\ key[s] = k
    BY <1>3, <2>1, KeyShown DEF Shown, Seen
  <2>2. CASE \A s \in Slots : state[s] # "EMPTY" => key[s] # k
    BY <2>2, KeyAbsent
  <2> QED
    BY <2>1, <2>2
<1>5. \A s \in Slots : SameRecord(s)
  BY <1>1, HoldersKept DEF SameRecord
<1>6. phaseView' = phaseView /\ sharersView' = sharersView
  BY <1>5, AllKeepTheirView, NoKeyChanges
<1> QED
  BY <1>1, <1>2, <1>4, <1>6 DEF Promise!Close, phaseView, sharersView

\* Nothing is left when the shutdown ends, and a new manager starts with nothing.
LEMMA EndCloses ==
  ASSUME Managing, Managing', ShutdownEnd
  PROVE  Promise!Closed
<1>1. /\ callStack = <<>> /\ liveList = <<>> /\ bShuttingDown /\ ~bShuttingDown'
      /\ state' = [s \in Slots |-> "EMPTY"]
  BY DEF ShutdownEnd
<1>2. ASSUME NEW k \in Keys
      PROVE  /\ PhaseOf(k) = "absent" /\ SharersOf(k) = {}
             /\ PhaseOf(k)' = "absent" /\ SharersOf(k)' = {}
  <2>1. PhaseOf(k) = "absent" /\ SharersOf(k) = {}
    BY <1>1, NothingLeft, KeyAbsent
  <2>2. PhaseOf(k)' = "absent" /\ SharersOf(k)' = {}
    BY <1>1, NextShown
  <2> QED
    BY <2>1, <2>2
<1>3. phaseView' = phaseView /\ sharersView' = sharersView
  BY <1>2, NoKeyChanges DEF SameView
<1> QED
  BY <1>1, <1>2, <1>3 DEF Promise!Closed, phaseView, sharersView

-----------------------------------------------------------------------------
(* The theorem. *)

\* A new manager promises nothing yet.
LEMMA InitKeepsPromise == Init => Promise!Init
<1> SUFFICES ASSUME Init PROVE Promise!Init
  OBVIOUS
<1>1. /\ \A k \in Keys : PhaseOf(k) = "absent" /\ SharersOf(k) = {}
      /\ bShuttingDown = FALSE
  BY KeyAbsent DEF Init
<1> QED
  BY <1>1 DEF Promise!Init

\* Every step of the manager is one step of the promise or none.
LEMMA StepKeepsPromise ==
  Managing /\ Managing' /\ Holding /\ [Next]_vars => [Promise!Next]_(Promise!pvars)
<1> SUFFICES ASSUME Managing, Managing', Holding, [Next]_vars
             PROVE  \/ Promise!Next
                    \/ phaseView' = phaseView /\ sharersView' = sharersView
                       /\ bShuttingDown' = bShuttingDown
  BY DEF Promise!pvars, phaseView, sharersView
<1>1. ASSUME NEW k \in Keys, NEW r \in Refs, NEW o \in Owners,
             AcquireHit(k, r, o) \/ AcquireMiss(k, r, o)
      PROVE  Promise!Next
  BY <1>1, HitJoins, MissStartsLoad DEF Promise!Next
<1>2. ASSUME NEW r \in Refs, NEW r2 \in Refs, NEW o \in Owners, Retain(r, r2, o)
      PROVE  Promise!Next
  BY <1>2, RetainJoins DEF Promise!Next
<1>3. CASE LoadSucceeds
  BY <1>3, LoadPublishes DEF Promise!Next
<1>4. CASE LoadFails \/ FailedUnloadReturns \/ UnloadReturns
  BY <1>4, ReturnsForget DEF Promise!Next
<1>5. ASSUME NEW r \in Refs, ReleaseShared(r) \/ ReleaseLast(r)
      PROVE  Promise!Next
  BY <1>5, ReleaseLeaves DEF Promise!Next
<1>6. CASE ShutdownUnload
  BY <1>6, ForcedUnloadEvicts DEF Promise!Next
<1>7. CASE Shutdown \/ ShutdownEnd
  BY <1>7, ShutdownCloses, EndCloses DEF Promise!Next
<1>8. CASE LoadFailsWithPayload
  BY <1>8, FailureUnseen DEF LoadFailsWithPayload
<1>9. ASSUME NEW r \in Refs, ReleaseRefused(r)
      PROVE  /\ phaseView' = phaseView /\ sharersView' = sharersView
             /\ bShuttingDown' = bShuttingDown
  BY <1>9, RefusalUnseen DEF ReleaseRefused
<1>10. ASSUME UNCHANGED <<bShuttingDown, record, client>>
       PROVE  /\ phaseView' = phaseView /\ sharersView' = sharersView
              /\ bShuttingDown' = bShuttingDown
  <2>1. \A s \in Slots : SameRecord(s)
    BY <1>10, HoldersKept DEF SameRecord, record, client
  <2> QED
    BY <1>10, <2>1, AllKeepTheirView, NoKeyChanges
<1>11. ASSUME NEW t \in Types, RegisterType(t) \/ UnregisterType(t)
       PROVE  UNCHANGED <<bShuttingDown, record, client>>
  BY <1>11 DEF RegisterType, UnregisterType
<1>12. CASE ManagerInit \/ UNCHANGED vars
  BY <1>10, <1>12 DEF ManagerInit, vars
<1> QED
  BY <1>1, <1>2, <1>3, <1>4, <1>5, <1>6, <1>7, <1>8, <1>9, <1>10, <1>11, <1>12 DEF Next

\* Whatever slots are reused for and however callbacks nest, those who acquire and
\* release see what ResourcePromise says: a key is loaded once, ready complete,
\* shared until the last release or the shutdown, and then absent again.
THEOREM PromiseKept == Spec => ImplementsPromise
<1>1. Managing /\ Managing' /\ Holding /\ [Next]_vars =>
        [Promise!Next]_(Promise!pvars)
  BY StepKeepsPromise
<1> QED
  BY <1>1, InitKeepsPromise, AlwaysManaging, AlwaysHolding, PTL
     DEF Spec, ImplementsPromise, Promise!Spec

=============================================================================
