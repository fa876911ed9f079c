---------------------------- MODULE EditorProofs -----------------------------
(***************************************************************************)
(* Proofs for the places where the editor keeps the work of its user: the  *)
(* undo journal with the mark of the saved state, for any budgets, costs and*)
(* merge keys; the settings file, for any texts; and the maps with their   *)
(* autosave copies, for any contents, paths and numbers of copies.         *)
(*                                                                         *)
(* The journal: JournalKept adds to JournalSound that edits and groups only*)
(* grow along the journal, that evicted groups are older than all it holds, and*)
(* that a transaction owns just the end of what is applied.  The mark:     *)
(* CleanKept holds at every position of the journal and not only at the cursor,*)
(* because undo and redo may go to any of them.  Positions differ in their *)
(* texts and in their tokens, so the mark names the saved text.  Every step but*)
(* a save and a clear keeps a window of the old journal, perhaps with one  *)
(* operation after it (Shortened), so one lemma shows that they keep CleanKept.*)
(*                                                                         *)
(* Settings: what is lost or kept is decided by how far the operation in   *)
(* progress has come.  Staged says what its staging files hold, and Guarded why*)
(* the save that may follow a load cannot take away the text it rejected.  *)
(*                                                                         *)
(* Maps: MarkTrue says that the document behind the clean mark is the one in*)
(* the file, Listed that an autosave writes the last and greatest of the   *)
(* numbers it has listed, and Addressed, which needs addresses that are not*)
(* handed out twice, that the document copied last is where it can be read.*)
(***************************************************************************)
EXTENDS MCEditor, Counting, SequenceTheorems

-----------------------------------------------------------------------------
(* The undo journal and its mark. *)

\* An operation, whatever the bounds of the model.
Recorded == [edit : Nat \ {0}, nMergeKey : MergeKeys \union {NoKey}, nGroup : Nat \ {0},
             cb : Costs, before : Seq(Nat)]

\* The documents made of the first n edits.
Edits(n) == Seq(1 .. n)

\* Along the journal groups and edits grow, and each operation begins with the document
\* that the one before it left.
Linked(seq, n, next) ==
  /\ seq \in Seq(Recorded)
  /\ \A i \in 1 .. Len(seq) :
       /\ seq[i].edit <= n /\ seq[i].before \in Edits(seq[i].edit - 1)
       /\ seq[i].nGroup < next
  /\ \A i, j \in 1 .. Len(seq) :
       i < j => seq[i].nGroup <= seq[j].nGroup /\ seq[i].edit < seq[j].edit
  /\ \A i \in 1 .. Len(seq) - 1 : seq[i + 1].before = After(seq[i])

\* A text is the document at a position of a journal.
AtCursor(seq, i, text) ==
  /\ i \in 0 .. Len(seq)
  /\ i < Len(seq) => text = seq[i + 1].before
  /\ i # 0 => text = After(seq[i])

\* What needs no more than its type.
Counters ==
  /\ nPushed \in Nat /\ nNextGroup \in Nat \ {0} /\ callbackFailed \in BOOLEAN
  /\ document \in Edits(nPushed) /\ documentAtBegin \in Edits(nPushed)

\* An open transaction owns the end of what is applied, and nothing else.
TransactionKept ==
  /\ bTransactionOpen \in BOOLEAN
  /\ iTransactionStart \in 0 .. iCursor /\ nTransactionGroup \in Nat
  /\ ~bTransactionOpen => iTransactionStart = 0
  /\ bTransactionOpen =>
       /\ nTransactionGroup \in 1 .. nNextGroup - 1
       /\ \A i \in 1 .. Len(ops) :
            /\ ops[i].nGroup <= nTransactionGroup
            /\ ops[i].nGroup = nTransactionGroup <=> i > iTransactionStart /\ i <= iCursor
       /\ \A g \in evicted : g < nTransactionGroup
       /\ documentAtBegin = IF iTransactionStart = iCursor THEN document
                            ELSE ops[iTransactionStart + 1].before

\* Evicted groups are counted, and older than every group that is left.
EvictedKept(gone, n, seq, next) ==
  /\ IsFiniteSet(gone) /\ Cardinality(gone) = n /\ n \in Nat
  /\ \A g \in gone : g \in Nat /\ g < next /\ \A i \in 1 .. Len(seq) : g < seq[i].nGroup

\* The inductive invariant of UndoRedo.
JournalKept ==
  /\ Counters /\ Linked(ops, nPushed, nNextGroup) /\ AtCursor(ops, iCursor, document)
  /\ TransactionKept /\ EvictedKept(evicted, nEvictedGroups, ops, nNextGroup)
  /\ callbackFailed \/ iCursor \in Boundaries(ops)

\* The document at a position of the journal.
TextAt(seq, text, i) ==
  IF i # 0 THEN After(seq[i]) ELSE IF seq = << >> THEN text ELSE seq[1].before

\* The operations of a group among the first i.
OfGroup(seq, i, g) == {j \in 1 .. i : seq[j].nGroup = g}

\* The state token when the cursor is at a position.
TokenAt(seq, i) ==
  IF i = 0 THEN [nGroup |-> 0, nApplied |-> 0]
  ELSE [nGroup |-> seq[i].nGroup, nApplied |-> Cardinality(OfGroup(seq, i, seq[i].nGroup))]

\* The mark would call the document clean if the cursor were at i.
Marked(i) ==
  /\ bCleanReachable
  /\ cleanToken = TokenAt(ops, i)
  /\ cleanToken.nGroup # 0 \/ nEvictedGroups = nEvictedAtClean

\* The groups that an operation may still be added to, or taken from.
Growing == GroupsIn(ops) \union (IF bTransactionOpen THEN {nTransactionGroup} ELSE {})

\* The inductive invariant of EditorHistory: at every position the mark and the text agree,
\* and no group that can still grow is shorter than it was when it was marked.
CleanKept ==
  /\ bCleanReachable \in BOOLEAN
  /\ cleanToken \in [nGroup : Nat, nApplied : Nat] /\ cleanToken.nGroup < nNextGroup
  /\ nEvictedAtClean \in 0 .. nEvictedGroups
  /\ saved.document \in Edits(nPushed) /\ saved.nEvictedGroups \in 0 .. nEvictedGroups
  /\ saved.nEvictedGroups = nEvictedGroups =>
       \A i \in 0 .. Len(ops) : TextAt(ops, document, i) = saved.document => Marked(i)
  /\ ~callbackFailed =>
       /\ \A i \in 0 .. Len(ops) : Marked(i) => TextAt(ops, document, i) = saved.document
       /\ cleanToken.nGroup \in Growing =>
            cleanToken.nApplied <= Cardinality(OfGroup(ops, Len(ops), cleanToken.nGroup))
-----------------------------------------------------------------------------
\* What is left of a sequence when it is cut after c and its first n are dropped.
LEMMA WindowOf ==
  ASSUME NEW S, NEW s \in Seq(S), NEW c \in 0 .. Len(s), NEW n \in 0 .. c
  PROVE  /\ SubSeq(s, 1, c) \in Seq(S) /\ Len(SubSeq(s, 1, c)) = c
         /\ \A i \in 1 .. c : SubSeq(s, 1, c)[i] = s[i]
         /\ Drop(SubSeq(s, 1, c), n) \in Seq(S) /\ Len(Drop(SubSeq(s, 1, c), n)) = c - n
         /\ \A i \in 1 .. c - n : Drop(SubSeq(s, 1, c), n)[i] = s[i + n]
<1> DEFINE a == SubSeq(s, 1, c)
<1>1. Len(s) \in Nat /\ c \in Int /\ n + 1 \in Int /\ n \in Nat /\ c \in Nat
  OBVIOUS
<1>2. \A i \in 1 .. c : s[i] \in S
  BY <1>1, ElementOfSeq
<1>3. a \in Seq(S) /\ Len(a) = c /\ \A i \in 1 .. c : a[i] = s[i]
  BY <1>1, <1>2, SubSeqProperties
<1> HIDE DEF a
<1>4. Len(a) = c /\ \A i \in n + 1 .. c : a[i] \in S
  BY <1>1, <1>2, <1>3
<1> DEFINE b == SubSeq(a, n + 1, c)
<1>5. b \in Seq(S) /\ Len(b) = c - n /\ \A i \in 1 .. c - n : b[i] = a[n + i]
  <2>1. /\ b \in Seq(S) /\ Len(b) = (IF n + 1 <= c THEN c - (n + 1) + 1 ELSE 0)
        /\ \A i \in 1 .. c - (n + 1) + 1 : b[i] = a[(n + 1) + i - 1]
    BY <1>1, <1>4, SubSeqProperties
  <2> HIDE DEF b
  <2>2. \A i \in 1 .. c - n : i \in 1 .. c - (n + 1) + 1 /\ (n + 1) + i - 1 = n + i
    BY <1>1
  <2>3. (IF n + 1 <= c THEN c - (n + 1) + 1 ELSE 0) = c - n
    BY <1>1
  <2>4. QED
    BY <2>1, <2>2, <2>3
<1>6. Drop(a, n) = b
  BY <1>3 DEF Drop
<1> HIDE DEF b
<1>7. \A i \in 1 .. c - n : n + i \in 1 .. c /\ n + i = i + n
  BY <1>1
<1>8. \A i \in 1 .. c - n : b[i] = s[i + n]
  BY <1>3, <1>5, <1>7
<1>9. QED
  BY <1>3, <1>5, <1>6, <1>8 DEF a

\* A document made of some edits is made of more edits.
LEMMA EditsGrow ==
  ASSUME NEW m \in Int, NEW n \in Int, m <= n, NEW text \in Edits(m)
  PROVE  text \in Edits(n)
<1>1. 1 .. m \subseteq 1 .. n
  OBVIOUS
<1>2. QED
  BY <1>1, SeqMonotonic DEF Edits

\* What an operation leaves is one edit longer.
LEMMA AfterEdits ==
  ASSUME NEW op \in Recorded, op.before \in Edits(op.edit - 1)
  PROVE  /\ After(op) \in Edits(op.edit) /\ Len(After(op)) = Len(op.before) + 1
         /\ Len(op.before) \in Nat /\ After(op)[Len(op.before) + 1] = op.edit
<1>1. op.edit \in Nat \ {0} /\ op.edit \in 1 .. op.edit
  BY DEF Recorded
<1>2. op.before \in Edits(op.edit)
  BY <1>1, EditsGrow
<1>3. QED
  BY <1>1, <1>2, AppendProperties DEF After, Edits

\* The operations of a journal, one by one.
LEMMA LinkedOps ==
  ASSUME NEW s, NEW p, NEW next, Linked(s, p, next)
  PROVE  /\ s \in Seq(Recorded) /\ Len(s) \in Nat /\ DOMAIN s = 1 .. Len(s)
         /\ \A i \in 1 .. Len(s) :
              /\ s[i] \in Recorded /\ s[i].nGroup \in Nat \ {0} /\ s[i].edit \in Nat \ {0}
              /\ s[i].nGroup < next /\ s[i].edit <= p /\ s[i].before \in Edits(s[i].edit - 1)
<1>1. s \in Seq(Recorded)
  BY DEF Linked
<1>2. \A i \in 1 .. Len(s) : s[i] \in Recorded
  BY <1>1, ElementOfSeq
<1>3. \A i \in 1 .. Len(s) : s[i].nGroup \in Nat \ {0} /\ s[i].edit \in Nat \ {0}
  BY <1>2 DEF Recorded
<1>4. QED
  BY <1>1, <1>2, <1>3 DEF Linked

\* A window of a journal is a journal.
LEMMA LinkedWindow ==
  ASSUME NEW s, NEW p, NEW next, Linked(s, p, next), NEW c \in 0 .. Len(s), NEW n \in 0 .. c
  PROVE  Linked(Drop(SubSeq(s, 1, c), n), p, next)
<1> DEFINE w == Drop(SubSeq(s, 1, c), n)
<1>1. s \in Seq(Recorded) /\ Len(s) \in Nat
  BY DEF Linked
<1>2. w \in Seq(Recorded) /\ Len(w) = c - n /\ \A i \in 1 .. c - n : w[i] = s[i + n]
  BY <1>1, WindowOf
<1> HIDE DEF w
<1>3. \A i \in 1 .. Len(w) : i + n \in 1 .. Len(s) /\ w[i] = s[i + n]
  BY <1>1, <1>2
<1>4. \A i \in 1 .. Len(w) : /\ w[i].edit <= p /\ w[i].before \in Edits(w[i].edit - 1)
                             /\ w[i].nGroup < next
  BY <1>3 DEF Linked
<1>5. ASSUME NEW i \in 1 .. Len(w), NEW j \in 1 .. Len(w), i < j
      PROVE  w[i].nGroup <= w[j].nGroup /\ w[i].edit < w[j].edit
  <2>1. i + n < j + n
    BY <1>1, <1>2, <1>5
  <2>2. QED
    BY <1>3, <2>1 DEF Linked
<1>6. ASSUME NEW i \in 1 .. Len(w) - 1 PROVE w[i + 1].before = After(w[i])
  <2>1. i \in 1 .. Len(w) /\ i + 1 \in 1 .. Len(w) /\ i + n \in 1 .. Len(s) - 1
        /\ (i + 1) + n = (i + n) + 1
    BY <1>1, <1>2
  <2>2. s[(i + n) + 1].before = After(s[i + n])
    BY <2>1 DEF Linked
  <2>3. w[i + 1] = s[(i + 1) + n] /\ w[i] = s[i + n]
    BY <1>3, <2>1
  <2>4. QED
    BY <2>1, <2>2, <2>3
<1>7. QED
  BY <1>2, <1>4, <1>5, <1>6 DEF Linked, w

\* The document at the cursor stays there when the journal is cut at both ends.
LEMMA AtWindow ==
  ASSUME NEW s, NEW p, NEW next, Linked(s, p, next), NEW text, NEW c, AtCursor(s, c, text),
         NEW n \in 0 .. c
  PROVE  AtCursor(Drop(SubSeq(s, 1, c), n), c - n, text)
<1> DEFINE w == Drop(SubSeq(s, 1, c), n)
<1>1. s \in Seq(Recorded) /\ c \in 0 .. Len(s) /\ c \in Nat /\ Len(s) \in Nat
  BY DEF Linked, AtCursor
<1>2. Len(w) = c - n /\ \A i \in 1 .. c - n : w[i] = s[i + n]
  BY <1>1, WindowOf
<1> HIDE DEF w
<1>3. c - n # 0 => text = After(w[c - n])
  <2>1. SUFFICES ASSUME c - n # 0 PROVE text = After(w[c - n])
    OBVIOUS
  <2>2. c # 0 /\ c - n \in 1 .. c - n /\ (c - n) + n = c
    BY <1>1, <2>1
  <2>3. QED
    BY <1>2, <2>2 DEF AtCursor
<1>4. c - n \in 0 .. Len(w) /\ ~(c - n < Len(w))
  BY <1>1, <1>2
<1>5. QED
  BY <1>3, <1>4 DEF AtCursor, w

\* An operation that begins with the document at the end can be added there.
LEMMA LinkedLonger ==
  ASSUME NEW s, NEW p \in Nat, NEW next \in Nat, Linked(s, p, next), NEW text \in Edits(p),
         AtCursor(s, Len(s), text), NEW op \in Recorded, op.edit = p + 1, op.before = text,
         \A i \in 1 .. Len(s) : s[i].nGroup <= op.nGroup,
         NEW after \in Nat, next <= after, op.nGroup < after
  PROVE  /\ Linked(Append(s, op), p + 1, after)
         /\ AtCursor(Append(s, op), Len(s) + 1, Append(text, p + 1))
<1> DEFINE w == Append(s, op)
           n == Len(s)
<1>1. s \in Seq(Recorded) /\ n \in Nat
  BY DEF Linked
<1>2. w \in Seq(Recorded) /\ Len(w) = n + 1 /\ w[n + 1] = op /\ \A i \in 1 .. n : w[i] = s[i]
  BY <1>1, AppendProperties
<1> HIDE DEF w
<1>3. \A i \in 1 .. n : /\ s[i].nGroup \in Nat /\ s[i].nGroup < next /\ s[i].edit \in Nat /\ s[i].edit <= p
                        /\ s[i].before \in Edits(s[i].edit - 1)
  <2>1. \A i \in 1 .. n : s[i] \in Recorded
    BY <1>1, ElementOfSeq
  <2>2. \A i \in 1 .. n : s[i].nGroup \in Nat /\ s[i].edit \in Nat
    BY <2>1 DEF Recorded
  <2>3. QED
    BY <2>2 DEF Linked
<1>4. ASSUME NEW i \in 1 .. n + 1
      PROVE  w[i].edit <= p + 1 /\ w[i].before \in Edits(w[i].edit - 1) /\ w[i].nGroup < after
  <2>1. CASE i = n + 1
    <3>1. w[i] = op
      BY <1>2, <2>1
    <3>2. op.before \in Edits(op.edit - 1)
      <4>1. op.edit - 1 = p
        OBVIOUS
      <4>2. QED
        BY <4>1
    <3>3. QED
      BY <3>1, <3>2
  <2>2. CASE i \in 1 .. n
    BY <1>2, <1>3, <2>2
  <2>3. QED
    BY <1>1, <2>1, <2>2
<1>5. ASSUME NEW i \in 1 .. n + 1, NEW j \in 1 .. n + 1, i < j
      PROVE  w[i].nGroup <= w[j].nGroup /\ w[i].edit < w[j].edit
  <2>1. i \in 1 .. n /\ (j \in 1 .. n \/ j = n + 1)
    BY <1>1, <1>5
  <2>2. CASE j \in 1 .. n
    BY <1>2, <1>5, <2>1, <2>2 DEF Linked
  <2>3. CASE j = n + 1
    <3>1. w[j] = op /\ w[i] = s[i] /\ s[i].nGroup <= op.nGroup
      BY <1>2, <2>1, <2>3
    <3>2. s[i].edit < op.edit
      BY <1>3, <2>1
    <3>3. QED
      BY <3>1, <3>2
  <2>4. QED
    BY <2>1, <2>2, <2>3
<1>6. ASSUME NEW i \in 1 .. n PROVE w[i + 1].before = After(w[i])
  <2>1. w[i] = s[i]
    BY <1>2
  <2>2. CASE i = n
    <3>1. w[i + 1] = op /\ n # 0
      BY <1>2, <2>2
    <3>2. text = After(s[n])
      BY <3>1 DEF AtCursor
    <3>3. QED
      BY <2>1, <2>2, <3>1, <3>2
  <2>3. CASE i # n
    <3>1. i + 1 \in 1 .. n /\ i \in 1 .. n - 1
      BY <1>1, <2>3
    <3>2. w[i + 1] = s[i + 1]
      BY <1>2, <3>1
    <3>3. QED
      BY <2>1, <3>1, <3>2 DEF Linked
  <2>4. QED
    BY <2>2, <2>3
<1>7. Linked(w, p + 1, after)
  <2>1. Len(w) - 1 = n
    BY <1>1, <1>2
  <2>2. QED
    BY <1>2, <1>4, <1>5, <1>6, <2>1 DEF Linked
<1>8. AtCursor(w, n + 1, Append(text, p + 1))
  <2>1. Append(text, p + 1) = After(w[n + 1])
    BY <1>2 DEF After
  <2>2. n + 1 \in 0 .. Len(w) /\ ~(n + 1 < Len(w))
    BY <1>1, <1>2
  <2>3. QED
    BY <2>1, <2>2 DEF AtCursor
<1>9. QED
  BY <1>7, <1>8 DEF w

\* No group reaches across a boundary.
LEMMA GroupsApart ==
  ASSUME NEW s, NEW p, NEW next, Linked(s, p, next), NEW n \in Boundaries(s),
         NEW i \in 1 .. Len(s), NEW j \in 1 .. Len(s), i <= n, n < j
  PROVE  s[i].nGroup < s[j].nGroup
<1>1. /\ n \in 1 .. Len(s) /\ n + 1 \in 1 .. Len(s) /\ Len(s) \in Nat /\ n # 0 /\ n # Len(s) /\ n \in Nat
      /\ i \in Nat /\ j \in Nat
  BY DEF Boundaries, Linked
<1>2. s[n].nGroup # s[n + 1].nGroup
  BY <1>1 DEF Boundaries
<1>3. \A k \in 1 .. Len(s) : s[k].nGroup \in Nat
  BY LinkedOps
<1>4. \A k, l \in 1 .. Len(s) : k <= l => s[k].nGroup <= s[l].nGroup
  <2>1. SUFFICES ASSUME NEW k \in 1 .. Len(s), NEW l \in 1 .. Len(s), k <= l
                 PROVE  s[k].nGroup <= s[l].nGroup
    OBVIOUS
  <2>2. CASE k = l
    BY <1>3, <2>2
  <2>3. CASE k < l
    BY <2>3 DEF Linked
  <2>4. QED
    BY <2>1, <2>2, <2>3
<1>5. s[i].nGroup <= s[n].nGroup /\ s[n].nGroup <= s[n + 1].nGroup /\ s[n + 1].nGroup <= s[j].nGroup
  <2>1. n <= n + 1 /\ n + 1 <= j
    BY <1>1
  <2>2. QED
    BY <1>1, <1>4, <2>1
<1>6. QED
  BY <1>1, <1>2, <1>3, <1>5

\* The groups of a journal are below the next one.
LEMMA GroupsOf ==
  ASSUME NEW s, NEW p, NEW next \in Nat, Linked(s, p, next)
  PROVE  /\ GroupsIn(s) = {s[i].nGroup : i \in 1 .. Len(s)}
         /\ GroupsIn(s) \subseteq 1 .. next - 1 /\ IsFiniteSet(GroupsIn(s))
<1>1. DOMAIN s = 1 .. Len(s)
  BY DEF Linked
<1>2. GroupsIn(s) = {s[i].nGroup : i \in 1 .. Len(s)}
  BY <1>1 DEF GroupsIn
<1>3. \A i \in 1 .. Len(s) : s[i].nGroup \in Nat \ {0} /\ s[i].nGroup < next
  BY LinkedOps
<1>4. GroupsIn(s) \subseteq 1 .. next - 1
  BY <1>2, <1>3
<1>5. IsFiniteSet(1 .. next - 1)
  BY FS_Interval
<1>6. QED
  BY <1>2, <1>4, <1>5, FS_Subset

\* There is a last boundary before each operation.
LEMMA NextBoundary ==
  ASSUME NEW s, NEW p, NEW next, Linked(s, p, next), NEW i \in 1 .. Len(s)
  PROVE  LET stop == CHOOSE n \in Boundaries(s) :
                       n < i /\ \A m \in Boundaries(s) : m < i => m <= n
         IN  /\ stop \in Boundaries(s) /\ stop < i
             /\ \A m \in Boundaries(s) : m < i => m <= stop
<1> DEFINE N == {n \in Boundaries(s) : n < i}
<1>1. Len(s) \in Nat /\ i \in Nat /\ 0 \in N /\ N \subseteq 0 .. Len(s)
  BY DEF Linked, Boundaries
<1>2. \E m \in N : \A n \in N : n <= m
  BY <1>1, GreatestNumber
<1>3. QED
  BY <1>2

\* An undo has a place to stop.
LEMMA UndoStops ==
  ASSUME JournalKept, iCursor # 0
  PROVE  /\ UndoStop(iCursor) \in Boundaries(ops) /\ UndoStop(iCursor) < iCursor
         /\ UndoStop(iCursor) \in 0 .. Len(ops)
<1>1. Linked(ops, nPushed, nNextGroup) /\ iCursor \in 1 .. Len(ops)
  BY DEF JournalKept, AtCursor
<1>2. QED
  BY <1>1, NextBoundary DEF UndoStop, Boundaries

\* A redo has a place to stop.
LEMMA RedoStops ==
  ASSUME JournalKept, iCursor < Len(ops)
  PROVE  /\ RedoStop(iCursor) \in Boundaries(ops) /\ RedoStop(iCursor) > iCursor
         /\ RedoStop(iCursor) \in 0 .. Len(ops)
<1> DEFINE N == {n \in Boundaries(ops) : n > iCursor}
<1>1. Len(ops) \in Nat /\ iCursor \in Nat
  BY DEF JournalKept, AtCursor, Linked
<1>2. Boundaries(ops) \subseteq 0 .. Len(ops) /\ Len(ops) \in Boundaries(ops)
  BY <1>1 DEF Boundaries
<1>3. N \subseteq Nat /\ N # {}
  BY <1>1, <1>2
<1>4. \E m \in N : \A n \in N : m <= n
  BY <1>3, LeastNumber
<1>5. \E m \in Boundaries(ops) : m > iCursor /\ \A n \in Boundaries(ops) : n > iCursor => n >= m
  <2>1. PICK m \in N : \A n \in N : m <= n
    BY <1>4
  <2>2. \A n \in Boundaries(ops) : n > iCursor => n >= m
    BY <1>2, <2>1
  <2>3. QED
    BY <2>1, <2>2
<1>6. RedoStop(iCursor) \in Boundaries(ops) /\ RedoStop(iCursor) > iCursor
  BY <1>5 DEF RedoStop
<1>7. QED
  BY <1>2, <1>6

\* The boundaries of what is applied.
LEMMA BoundaryBefore ==
  ASSUME NEW s, NEW S, s \in Seq(S), NEW c \in 0 .. Len(s), NEW n \in 0 .. c
  PROVE  n \in Boundaries(SubSeq(s, 1, c)) <=>
           n \in {0, c} \/ s[n].nGroup # s[n + 1].nGroup
<1> DEFINE a == SubSeq(s, 1, c)
<1>1. Len(s) \in Nat /\ c \in Nat /\ n \in Nat
  OBVIOUS
<1>2. Len(a) = c /\ \A i \in 1 .. c : a[i] = s[i]
  BY <1>1, WindowOf
<1> HIDE DEF a
<1>3. CASE n \in {0, c}
  BY <1>1, <1>2, <1>3 DEF Boundaries, a
<1>4. CASE n \notin {0, c}
  <2>1. n \in 1 .. c /\ n + 1 \in 1 .. c
    BY <1>1, <1>4
  <2>2. a[n] = s[n] /\ a[n + 1] = s[n + 1]
    BY <1>2, <2>1
  <2>3. QED
    BY <1>1, <1>2, <1>4, <2>2 DEF Boundaries, a
<1>5. QED
  BY <1>3, <1>4

\* The group that a push extends begins at a boundary.
LEMMA ActiveStarts ==
  ASSUME JournalKept, NEW key
  PROVE  ActiveStart(key) \in Boundaries(Applied) /\ ActiveStart(key) \in 0 .. iCursor
<1>1. /\ ops \in Seq(Recorded) /\ iCursor \in 0 .. Len(ops) /\ Len(ops) \in Nat /\ iCursor \in Nat
      /\ TransactionKept
  BY DEF JournalKept, Linked, AtCursor
<1>2. CASE bTransactionOpen
  <2> DEFINE n == iTransactionStart
  <2>1. ActiveStart(key) = n /\ n \in 0 .. iCursor
    BY <1>1, <1>2 DEF ActiveStart, TransactionKept
  <2>2. n \notin {0, iCursor} => ops[n].nGroup # ops[n + 1].nGroup
    <3>1. SUFFICES ASSUME n \notin {0, iCursor} PROVE ops[n].nGroup # ops[n + 1].nGroup
      OBVIOUS
    <3>2. n \in 1 .. Len(ops) /\ n + 1 \in 1 .. Len(ops) /\ ~(n > n) /\ n + 1 > n /\ n + 1 <= iCursor
      BY <1>1, <2>1, <3>1
    <3>3. QED
      BY <1>1, <1>2, <3>2 DEF TransactionKept
  <2>3. QED
    BY <1>1, <2>1, <2>2, BoundaryBefore DEF Applied
<1>3. CASE ~bTransactionOpen /\ Merges(key)
  <2> DEFINE n == UndoStop(iCursor)
  <2>1. iCursor # 0 /\ ActiveStart(key) = n
    BY <1>3 DEF Merges, ActiveStart
  <2>2. n \in Boundaries(ops) /\ n < iCursor /\ n \in 0 .. Len(ops)
    BY <2>1, UndoStops
  <2> HIDE DEF n
  <2>3. n \in 0 .. iCursor /\ n # Len(ops) /\ (n = 0 \/ ops[n].nGroup # ops[n + 1].nGroup)
    BY <1>1, <2>2 DEF Boundaries
  <2>4. QED
    BY <1>1, <2>1, <2>3, BoundaryBefore DEF Applied
<1>4. CASE ~bTransactionOpen /\ ~Merges(key)
  <2>1. ActiveStart(key) = iCursor /\ iCursor \in 0 .. iCursor
    BY <1>1, <1>4 DEF ActiveStart
  <2>2. QED
    BY <1>1, <2>1, BoundaryBefore DEF Applied
<1>5. QED
  BY <1>2, <1>3, <1>4

\* Whole groups are evicted, and never the one that is extended.
LEMMA EvictionsStop ==
  ASSUME JournalKept, NEW key, NEW cb, GroupFits(key, cb)
  PROVE  /\ Evictions(cb) \in Boundaries(Applied) /\ Evictions(cb) \in 0 .. iCursor
         /\ Evictions(cb) <= ActiveStart(key) /\ HasRoom(Evictions(cb), cb)
<1>1. ActiveStart(key) \in Boundaries(Applied) /\ ActiveStart(key) \in 0 .. iCursor /\ iCursor \in Nat
  BY ActiveStarts DEF JournalKept, AtCursor
<1>2. HasRoom(ActiveStart(key), cb)
  BY DEF GroupFits
<1>3. Boundaries(Applied) \subseteq 0 .. iCursor
  <2>1. Len(Applied) = iCursor
    <3>1. ops \in Seq(Recorded) /\ iCursor \in 0 .. Len(ops) /\ 0 \in 0 .. iCursor
      BY DEF JournalKept, Linked, AtCursor
    <3>2. QED
      BY <3>1, WindowOf DEF Applied
  <2>2. QED
    BY <2>1 DEF Boundaries
<1> DEFINE N == {n \in Boundaries(Applied) : HasRoom(n, cb)}
<1>4. N \subseteq Nat /\ N # {}
  BY <1>1, <1>2, <1>3
<1>5. PICK m \in N : \A n \in N : m <= n
  <2> HIDE DEF N
  <2>1. QED
    BY <1>4, LeastNumber
<1>6. HasRoom(m, cb) /\ \A n \in Boundaries(Applied) : n < m => ~HasRoom(n, cb)
  <2>1. \A n \in Boundaries(Applied) : HasRoom(n, cb) => m <= n
    BY <1>5
  <2>2. \A n \in Boundaries(Applied) : n < m => ~(m <= n)
    BY <1>3, <1>5
  <2>3. QED
    BY <1>5, <2>1, <2>2
<1> DEFINE e == Evictions(cb)
<1>7. e \in Boundaries(Applied) /\ HasRoom(e, cb) /\ \A n \in Boundaries(Applied) : n < e => ~HasRoom(n, cb)
  BY <1>5, <1>6 DEF Evictions
<1> HIDE DEF e
<1>8. ~(ActiveStart(key) < e)
  BY <1>1, <1>2, <1>7
<1>9. e \in 0 .. iCursor
  BY <1>3, <1>7
<1>10. QED
  BY <1>1, <1>7, <1>8, <1>9 DEF e

\* Evicting whole groups moves them to the evicted ones.
LEMMA EvictedWindow ==
  ASSUME NEW s, NEW p, NEW next \in Nat, Linked(s, p, next), NEW gone, NEW k, EvictedKept(gone, k, s, next),
         NEW c \in 0 .. Len(s), NEW n \in 0 .. c, n \in Boundaries(SubSeq(s, 1, c))
  PROVE  LET G == GroupsIn(SubSeq(s, 1, n))
         IN  /\ EvictedKept(gone \union G, k + Cardinality(G), Drop(SubSeq(s, 1, c), n), next)
             /\ G = {s[i].nGroup : i \in 1 .. n}
             /\ Cardinality(G) \in Nat /\ (n = 0 => G = {} /\ Cardinality(G) = 0)
             /\ n # 0 => Cardinality(G) > 0
             /\ \A i \in 1 .. n, j \in n + 1 .. c : s[i].nGroup < s[j].nGroup
<1> DEFINE G == GroupsIn(SubSeq(s, 1, n))
           w == Drop(SubSeq(s, 1, c), n)
           a == SubSeq(s, 1, c)
           b == SubSeq(s, 1, n)
<1>1. /\ s \in Seq(Recorded) /\ Len(s) \in Nat /\ c \in Nat /\ n \in Nat /\ n \in 0 .. Len(s)
      /\ \A i \in 1 .. Len(s) : s[i].nGroup \in Nat
  BY LinkedOps
<1>2. /\ Len(a) = c /\ \A i \in 1 .. c : a[i] = s[i]
  BY <1>1, WindowOf
<1>3. /\ w \in Seq(Recorded) /\ Len(w) = c - n /\ \A i \in 1 .. c - n : w[i] = s[i + n]
  BY <1>1, WindowOf
<1>4. /\ b \in Seq(Recorded) /\ Len(b) = n /\ \A i \in 1 .. n : b[i] = s[i]
  BY <1>1, WindowOf
<1>5. Linked(a, p, next)
  <2>1. Drop(SubSeq(s, 1, c), 0) = a
    <3>1. 0 \in 0 .. c
      BY <1>1
    <3>2. /\ Drop(a, 0) \in Seq(Recorded) /\ Len(Drop(a, 0)) = c - 0
          /\ \A i \in 1 .. c - 0 : Drop(a, 0)[i] = s[i + 0]
      BY <1>1, <3>1, WindowOf
    <3>3. a \in Seq(Recorded) /\ Len(Drop(a, 0)) = Len(a)
      <4>1. a \in Seq(Recorded)
        BY <1>1, <3>1, WindowOf
      <4> HIDE DEF a
      <4>2. c - 0 = Len(a)
        BY <1>1, <1>2
      <4>3. QED
        BY <3>2, <4>1, <4>2
    <3>4. \A i \in 1 .. Len(a) : Drop(a, 0)[i] = a[i]
      BY <1>1, <1>2, <3>2
    <3>5. QED
      BY <3>2, <3>3, <3>4, SeqEqual
  <2>2. 0 \in 0 .. c
    BY <1>1
  <2>3. QED
    BY <2>1, <2>2, LinkedWindow
<1> HIDE DEF w, a, b
<1>6. ASSUME NEW i \in 1 .. n, NEW j \in n + 1 .. c PROVE s[i].nGroup < s[j].nGroup
  <2>1. i \in 1 .. Len(a) /\ j \in 1 .. Len(a) /\ i <= n /\ n < j
    BY <1>1, <1>2
  <2>2. a[i].nGroup < a[j].nGroup
    BY <1>5, <2>1, GroupsApart DEF a
  <2>3. QED
    BY <1>2, <2>1, <2>2
<1>7. G = {s[i].nGroup : i \in 1 .. n}
  <2>1. DOMAIN b = 1 .. n
    BY <1>4
  <2>2. QED
    BY <1>4, <2>1 DEF GroupsIn, b
<1> HIDE DEF G
<1>8. /\ IsFiniteSet(gone) /\ Cardinality(gone) = k /\ k \in Nat
      /\ \A g \in gone : g \in Nat /\ g < next /\ \A i \in 1 .. Len(s) : g < s[i].nGroup
  BY DEF EvictedKept
<1>9. G \subseteq 0 .. next - 1 /\ \A g \in G : g \in Nat /\ g < next
  <2>1. \A i \in 1 .. n : s[i].nGroup \in Nat /\ s[i].nGroup < next
    <3>1. \A i \in 1 .. n : i \in 1 .. Len(s)
      BY <1>1
    <3>2. QED
      BY <3>1, LinkedOps
  <2>2. QED
    BY <1>7, <2>1
<1>10. IsFiniteSet(G) /\ Cardinality(G) \in Nat
  <2>1. IsFiniteSet(0 .. next - 1)
    BY FS_Interval
  <2>2. IsFiniteSet(G)
    BY <1>9, <2>1, FS_Subset
  <2>3. QED
    BY <2>2, FS_CardinalityType
<1>11. gone \cap G = {}
  <2>1. SUFFICES ASSUME NEW g \in gone, g \in G PROVE FALSE
    OBVIOUS
  <2>2. PICK i \in 1 .. n : g = s[i].nGroup
    BY <1>7, <2>1
  <2>3. i \in 1 .. Len(s) /\ g \in Nat
    BY <1>1, <1>8
  <2>4. g < g
    BY <1>8, <2>2, <2>3
  <2>5. QED
    BY <2>3, <2>4
<1>12. IsFiniteSet(gone \union G) /\ Cardinality(gone \union G) = k + Cardinality(G)
  <2>1. /\ IsFiniteSet(gone \union G)
        /\ Cardinality(gone \union G) = Cardinality(gone) + Cardinality(G) - Cardinality(gone \cap G)
    BY <1>8, <1>10, FS_Union
  <2>2. Cardinality(gone \cap G) = 0
    BY <1>11, FS_EmptySet
  <2>3. QED
    BY <1>8, <1>10, <2>1, <2>2
<1>13. ASSUME NEW g \in gone \union G, NEW i \in 1 .. Len(w) PROVE g < w[i].nGroup
  <2>1. i + n \in n + 1 .. c /\ i + n \in 1 .. Len(s) /\ w[i] = s[i + n]
    BY <1>1, <1>3
  <2>2. CASE g \in gone
    BY <1>8, <2>1, <2>2
  <2>3. CASE g \in G
    <3>1. PICK j \in 1 .. n : g = s[j].nGroup
      BY <1>7, <2>3
    <3>2. QED
      BY <1>6, <2>1, <3>1
  <2>4. QED
    BY <2>2, <2>3
<1>14. EvictedKept(gone \union G, k + Cardinality(G), w, next)
  <2>1. k + Cardinality(G) \in Nat
    BY <1>8, <1>10
  <2>2. \A g \in gone \union G : g \in Nat /\ g < next
    BY <1>8, <1>9
  <2>3. QED
    BY <1>12, <1>13, <2>1, <2>2 DEF EvictedKept
<1>15. n = 0 => G = {} /\ Cardinality(G) = 0
  <2>1. n = 0 => G = {}
    BY <1>7
  <2>2. QED
    BY <2>1, FS_EmptySet
<1>16. n # 0 => Cardinality(G) > 0
  <2>1. SUFFICES ASSUME n # 0 PROVE Cardinality(G) # 0
    BY <1>10
  <2>2. s[1].nGroup \in G
    BY <1>1, <1>7, <2>1
  <2>3. QED
    BY <1>10, <2>2, FS_EmptySet
<1>17. QED
  BY <1>6, <1>7, <1>10, <1>14, <1>15, <1>16 DEF G, w, a

\* The group that a push records in.
PushGroup(key) == IF ActiveGroup(key) # 0 THEN ActiveGroup(key) ELSE nNextGroup

\* That group is the newest: no applied or evicted operation is of a later one.
LEMMA PushGroups ==
  ASSUME JournalKept, NEW key
  PROVE  /\ PushGroup(key) \in Nat \ {0} /\ PushGroup(key) <= nNextGroup
         /\ bTransactionOpen => PushGroup(key) = nTransactionGroup
         /\ \A i \in 1 .. iCursor : ops[i].nGroup <= PushGroup(key)
         /\ \A i \in 1 .. ActiveStart(key) : ops[i].nGroup < PushGroup(key)
         /\ \A g \in evicted : g < PushGroup(key)
         /\ PushGroup(key) # nNextGroup /\ ~bTransactionOpen =>
              iCursor # 0 /\ PushGroup(key) = ops[iCursor].nGroup
<1>1. /\ Linked(ops, nPushed, nNextGroup) /\ iCursor \in 0 .. Len(ops) /\ Len(ops) \in Nat /\ iCursor \in Nat
      /\ TransactionKept /\ EvictedKept(evicted, nEvictedGroups, ops, nNextGroup)
      /\ nNextGroup \in Nat \ {0}
  BY LinkedOps DEF JournalKept, AtCursor, Counters
<1>2. \A i \in 1 .. Len(ops) : ops[i].nGroup \in Nat \ {0} /\ ops[i].nGroup < nNextGroup
  BY <1>1, LinkedOps
<1>3. ActiveStart(key) \in 0 .. iCursor
  BY ActiveStarts
<1>4. CASE bTransactionOpen
  <2>1. ActiveGroup(key) = nTransactionGroup /\ nTransactionGroup \in 1 .. nNextGroup - 1
        /\ ActiveStart(key) = iTransactionStart
    BY <1>1, <1>4 DEF ActiveGroup, ActiveStart, TransactionKept
  <2>2. PushGroup(key) = nTransactionGroup
    BY <2>1 DEF PushGroup
  <2>3. \A i \in 1 .. iCursor : ops[i].nGroup <= nTransactionGroup
    BY <1>1, <1>4 DEF TransactionKept
  <2>4. ASSUME NEW i \in 1 .. iTransactionStart PROVE ops[i].nGroup < nTransactionGroup
    <3>1. i \in 1 .. Len(ops) /\ ~(i > iTransactionStart)
      BY <1>1, <1>3, <2>1
    <3>2. ops[i].nGroup <= nTransactionGroup /\ ops[i].nGroup # nTransactionGroup
      BY <1>1, <1>4, <3>1 DEF TransactionKept
    <3>3. QED
      BY <1>2, <2>1, <3>1, <3>2
  <2>5. \A g \in evicted : g < nTransactionGroup
    BY <1>1, <1>4 DEF TransactionKept
  <2>6. QED
    BY <1>1, <1>4, <2>1, <2>2, <2>3, <2>4, <2>5
<1>5. CASE ~bTransactionOpen /\ Merges(key)
  <2>1. /\ iCursor \in 1 .. Len(ops) /\ ActiveGroup(key) = ops[iCursor].nGroup
        /\ ActiveStart(key) = UndoStop(iCursor) /\ iCursor # 0
    BY <1>1, <1>5 DEF Merges, ActiveGroup, ActiveStart
  <2>2. PushGroup(key) = ops[iCursor].nGroup
    BY <1>2, <2>1 DEF PushGroup
  <2>3. ASSUME NEW i \in 1 .. iCursor PROVE ops[i].nGroup <= ops[iCursor].nGroup
    <3>1. i \in 1 .. Len(ops) /\ (i < iCursor \/ i = iCursor)
      BY <1>1
    <3>2. CASE i < iCursor
      BY <1>1, <2>1, <3>1, <3>2 DEF Linked
    <3>3. CASE i = iCursor
      BY <1>2, <2>1, <3>3
    <3>4. QED
      BY <3>1, <3>2, <3>3
  <2>4. ASSUME NEW i \in 1 .. ActiveStart(key) PROVE ops[i].nGroup < ops[iCursor].nGroup
    <3>1. /\ UndoStop(iCursor) \in Boundaries(ops) /\ UndoStop(iCursor) < iCursor
          /\ UndoStop(iCursor) \in 0 .. Len(ops)
      BY <2>1, UndoStops
    <3>2. i \in 1 .. Len(ops) /\ i <= UndoStop(iCursor)
      BY <1>1, <2>1, <3>1
    <3>3. QED
      BY <1>1, <2>1, <3>1, <3>2, GroupsApart
  <2>5. \A g \in evicted : g < ops[iCursor].nGroup
    BY <1>1, <2>1 DEF EvictedKept
  <2>6. ops[iCursor].nGroup \in Nat \ {0} /\ ops[iCursor].nGroup <= nNextGroup
    BY <1>1, <1>2, <2>1
  <2>7. QED
    BY <1>5, <2>1, <2>2, <2>3, <2>4, <2>5, <2>6
<1>6. CASE ~bTransactionOpen /\ ~Merges(key)
  <2>1. PushGroup(key) = nNextGroup
    BY <1>6 DEF PushGroup, ActiveGroup
  <2>2. \A g \in evicted : g < nNextGroup
    BY <1>1 DEF EvictedKept
  <2>3. \A i \in 1 .. iCursor : ops[i].nGroup <= nNextGroup /\ ops[i].nGroup < nNextGroup
    BY <1>1, <1>2
  <2>4. \A i \in 1 .. ActiveStart(key) : i \in 1 .. iCursor
    BY <1>1, <1>3
  <2>5. QED
    BY <1>1, <1>6, <2>1, <2>2, <2>3, <2>4
<1>7. QED
  BY <1>4, <1>5, <1>6

\* What making room leaves, for a push that succeeds and for one that fails.
LEMMA RoomIsMade ==
  ASSUME JournalKept, NEW key, NEW cb, GroupFits(key, cb), Evict(Evictions(cb))
  PROVE  LET n == Evictions(cb)
             w == Drop(Applied, n)
         IN  /\ n \in 0 .. iCursor /\ n <= ActiveStart(key) /\ n \in Boundaries(Applied)
             /\ Linked(w, nPushed, nNextGroup) /\ Len(w) = iCursor - n
             /\ \A i \in 1 .. iCursor - n : w[i] = ops[i + n]
             /\ AtCursor(w, iCursor - n, document)
             /\ EvictedKept(evicted', nEvictedGroups', w, nNextGroup)
             /\ \A g \in evicted' : g < PushGroup(key)
             /\ iTransactionStart' = iTransactionStart - (IF bTransactionOpen THEN n ELSE 0)
             /\ bTransactionOpen => n <= iTransactionStart
             /\ n = 0 => nEvictedGroups' = nEvictedGroups
             /\ n # 0 => nEvictedGroups' > nEvictedGroups
             /\ \A i \in 1 .. n, j \in n + 1 .. iCursor : ops[i].nGroup < ops[j].nGroup
<1> DEFINE n == Evictions(cb)
           w == Drop(Applied, n)
           G == GroupsIn(SubSeq(ops, 1, n))
<1>1. /\ Linked(ops, nPushed, nNextGroup) /\ iCursor \in 0 .. Len(ops) /\ Len(ops) \in Nat /\ iCursor \in Nat
      /\ TransactionKept /\ EvictedKept(evicted, nEvictedGroups, ops, nNextGroup)
      /\ AtCursor(ops, iCursor, document) /\ nNextGroup \in Nat /\ ops \in Seq(Recorded)
  BY LinkedOps DEF JournalKept, AtCursor, Counters
<1>2. n \in Boundaries(Applied) /\ n \in 0 .. iCursor /\ n <= ActiveStart(key)
  BY EvictionsStop
<1>3. /\ evicted' = evicted \union G /\ nEvictedGroups' = nEvictedGroups + Cardinality(G)
      /\ iTransactionStart' = IF bTransactionOpen THEN Rebased(iTransactionStart, 0, n) ELSE iTransactionStart
  BY DEF Evict
<1> HIDE DEF n
<1>4. Linked(w, nPushed, nNextGroup)
  BY <1>1, <1>2, LinkedWindow DEF Applied
<1>5. Len(w) = iCursor - n /\ \A i \in 1 .. iCursor - n : w[i] = ops[i + n]
  BY <1>1, <1>2, WindowOf DEF Applied
<1>6. AtCursor(w, iCursor - n, document)
  BY <1>1, <1>2, AtWindow DEF Applied
<1>7. /\ EvictedKept(evicted \union G, nEvictedGroups + Cardinality(G), w, nNextGroup)
      /\ G = {ops[i].nGroup : i \in 1 .. n}
      /\ Cardinality(G) \in Nat /\ (n = 0 => Cardinality(G) = 0) /\ (n # 0 => Cardinality(G) > 0)
      /\ \A i \in 1 .. n, j \in n + 1 .. iCursor : ops[i].nGroup < ops[j].nGroup
  BY <1>1, <1>2, EvictedWindow DEF Applied
<1>8. \A g \in evicted \union G : g < PushGroup(key)
  <2>1. \A g \in evicted : g < PushGroup(key)
    BY PushGroups
  <2>2. \A i \in 1 .. n : i \in 1 .. ActiveStart(key)
    BY <1>2, ActiveStarts
  <2>3. \A i \in 1 .. n : ops[i].nGroup < PushGroup(key)
    BY <2>2, PushGroups
  <2>4. QED
    BY <1>7, <2>1, <2>3
<1>9. bTransactionOpen => n <= iTransactionStart
  BY <1>2 DEF ActiveStart
<1>10. iTransactionStart' = iTransactionStart - (IF bTransactionOpen THEN n ELSE 0)
  <2>1. iTransactionStart \in Nat /\ n \in Nat
    BY <1>1, <1>2 DEF TransactionKept
  <2>2. CASE bTransactionOpen
    BY <1>3, <1>9, <2>1, <2>2 DEF Rebased
  <2>3. CASE ~bTransactionOpen
    BY <1>3, <2>1, <2>3
  <2>4. QED
    BY <2>2, <2>3
<1>11. /\ n = 0 => nEvictedGroups' = nEvictedGroups
       /\ n # 0 => nEvictedGroups' > nEvictedGroups
  <2>1. nEvictedGroups \in Nat
    BY <1>1 DEF EvictedKept
  <2>2. QED
    BY <1>3, <1>7, <2>1
<1> HIDE DEF G, w
<1>12. QED
  BY <1>2, <1>3, <1>4, <1>5, <1>6, <1>7, <1>8, <1>9, <1>10, <1>11 DEF n, w
-----------------------------------------------------------------------------
\* What the invariant says of the variables.
LEMMA JournalIs ==
  ASSUME JournalKept
  PROVE  /\ Linked(ops, nPushed, nNextGroup) /\ AtCursor(ops, iCursor, document)
         /\ TransactionKept /\ EvictedKept(evicted, nEvictedGroups, ops, nNextGroup)
         /\ nPushed \in Nat /\ nNextGroup \in Nat \ {0} /\ callbackFailed \in BOOLEAN
         /\ document \in Edits(nPushed) /\ documentAtBegin \in Edits(nPushed)
         /\ ops \in Seq(Recorded) /\ Len(ops) \in Nat /\ iCursor \in 0 .. Len(ops) /\ iCursor \in Nat
         /\ iTransactionStart \in 0 .. iCursor /\ iTransactionStart \in Nat
         /\ \A i \in 1 .. Len(ops) : ops[i].nGroup \in Nat \ {0} /\ ops[i].nGroup < nNextGroup
<1>1. Linked(ops, nPushed, nNextGroup) /\ AtCursor(ops, iCursor, document) /\ TransactionKept /\ Counters
      /\ EvictedKept(evicted, nEvictedGroups, ops, nNextGroup)
  BY DEF JournalKept
<1>2. iCursor \in 0 .. Len(ops) /\ Len(ops) \in Nat /\ ops \in Seq(Recorded)
  BY <1>1, LinkedOps DEF AtCursor
<1>3. iTransactionStart \in 0 .. iCursor /\ iTransactionStart \in Nat /\ iCursor \in Nat
  BY <1>1, <1>2 DEF TransactionKept
<1>4. QED
  BY <1>1, <1>2, <1>3, LinkedOps DEF Counters

\* Recording an operation keeps the invariant: in a transaction, merged or on its own.
LEMMA PushKeeps ==
  ASSUME JournalKept, NEW key \in MergeKeys \union {NoKey}, NEW cb \in Costs, UndoRedo_Push(key, cb)
  PROVE  JournalKept'
<1> DEFINE n == Evictions(cb)
           w == Drop(Applied, n)
           g == PushGroup(key)
           L == iCursor - n
           op == [edit |-> nPushed + 1, nMergeKey |-> key, nGroup |-> g, cb |-> cb, before |-> document]
<1>1. /\ GroupFits(key, cb) /\ Evict(n)
      /\ nNextGroup' = IF g = nNextGroup THEN nNextGroup + 1 ELSE nNextGroup
      /\ ops' = Append(w, op) /\ iCursor' = Len(Applied) - n + 1
      /\ nPushed' = nPushed + 1 /\ document' = Append(document, nPushed + 1)
      /\ UNCHANGED <<bTransactionOpen, nTransactionGroup, documentAtBegin, callbackFailed>>
  BY DEF UndoRedo_Push, PushGroup
<1>2. /\ Linked(ops, nPushed, nNextGroup) /\ TransactionKept
      /\ nPushed \in Nat /\ nNextGroup \in Nat \ {0} /\ callbackFailed \in BOOLEAN
      /\ document \in Edits(nPushed) /\ documentAtBegin \in Edits(nPushed)
      /\ ops \in Seq(Recorded) /\ Len(ops) \in Nat /\ iCursor \in 0 .. Len(ops) /\ iCursor \in Nat
      /\ iTransactionStart \in 0 .. iCursor /\ iTransactionStart \in Nat
      /\ \A i \in 1 .. Len(ops) : ops[i].nGroup \in Nat \ {0} /\ ops[i].nGroup < nNextGroup
  BY JournalIs
<1>3. /\ g \in Nat \ {0} /\ g <= nNextGroup /\ (bTransactionOpen => g = nTransactionGroup)
      /\ \A i \in 1 .. iCursor : ops[i].nGroup <= g
  BY PushGroups
<1>4. /\ n \in 0 .. iCursor
      /\ Linked(w, nPushed, nNextGroup) /\ Len(w) = iCursor - n
      /\ \A i \in 1 .. iCursor - n : w[i] = ops[i + n]
      /\ AtCursor(w, iCursor - n, document)
      /\ EvictedKept(evicted', nEvictedGroups', w, nNextGroup)
      /\ \A e \in evicted' : e < g
      /\ iTransactionStart' = iTransactionStart - (IF bTransactionOpen THEN n ELSE 0)
      /\ bTransactionOpen => n <= iTransactionStart
  BY <1>1, RoomIsMade
<1>5. Len(Applied) = iCursor
  BY <1>2, WindowOf DEF Applied
<1> HIDE DEF n, w, g
<1>6. L \in Nat /\ iCursor' = L + 1 /\ n \in Nat /\ L <= iCursor
  BY <1>1, <1>2, <1>4, <1>5
<1>7. nNextGroup' \in Nat \ {0} /\ nNextGroup <= nNextGroup' /\ g < nNextGroup'
  BY <1>1, <1>2, <1>3
<1>8. op \in Recorded /\ op.edit = nPushed + 1 /\ op.before = document /\ op.nGroup = g
  <2>1. document \in Seq(Nat)
    <3>1. 1 .. nPushed \subseteq Nat
      BY <1>2
    <3>2. QED
      BY <1>2, <3>1, SeqMonotonic DEF Edits
  <2>2. QED
    BY <1>2, <1>3, <2>1 DEF Recorded
<1> HIDE DEF op
<1>9. \A i \in 1 .. Len(w) : w[i].nGroup <= op.nGroup
  <2>1. \A i \in 1 .. L : i + n \in 1 .. iCursor
    BY <1>2, <1>4, <1>6
  <2>2. QED
    BY <1>3, <1>4, <1>8, <2>1
<1>10. Linked(ops', nPushed', nNextGroup') /\ AtCursor(ops', iCursor', document')
  <2>1. AtCursor(w, Len(w), document) /\ Len(w) = L
    BY <1>4
  <2>2. nNextGroup \in Nat /\ nNextGroup' \in Nat /\ op.nGroup < nNextGroup'
    BY <1>2, <1>7, <1>8
  <2>3. /\ Linked(Append(w, op), nPushed + 1, nNextGroup')
        /\ AtCursor(Append(w, op), Len(w) + 1, Append(document, nPushed + 1))
    BY <1>2, <1>4, <1>7, <1>8, <1>9, <2>1, <2>2, LinkedLonger
  <2>4. QED
    BY <1>1, <1>6, <2>1, <2>3
<1>11. Len(ops') = L + 1 /\ ops'[L + 1] = op /\ \A i \in 1 .. L : ops'[i] = ops[i + n]
  <2>1. w \in Seq(Recorded)
    BY <1>4 DEF Linked
  <2>2. QED
    BY <1>1, <1>4, <1>8, <2>1, AppendProperties
<1>12. EvictedKept(evicted', nEvictedGroups', ops', nNextGroup')
  <2>1. /\ IsFiniteSet(evicted') /\ Cardinality(evicted') = nEvictedGroups' /\ nEvictedGroups' \in Nat
        /\ \A e \in evicted' : e \in Nat /\ e < nNextGroup /\ \A i \in 1 .. Len(w) : e < w[i].nGroup
    BY <1>4 DEF EvictedKept
  <2>2. ASSUME NEW e \in evicted', NEW i \in 1 .. Len(ops') PROVE e < ops'[i].nGroup
    <3>1. CASE i = L + 1
      BY <1>4, <1>8, <1>11, <3>1
    <3>2. CASE i # L + 1
      <4>1. i \in 1 .. Len(w) /\ ops'[i] = w[i]
        BY <1>4, <1>6, <1>11, <3>2
      <4>2. QED
        BY <2>1, <4>1
    <3>3. QED
      BY <3>1, <3>2
  <2>3. \A e \in evicted' : e \in Nat /\ e < nNextGroup'
    BY <1>2, <1>7, <2>1
  <2>4. QED
    BY <2>1, <2>2, <2>3 DEF EvictedKept
<1>13. Counters'
  <2>1. document' \in Edits(nPushed')
    <3>1. /\ nPushed \in Int /\ nPushed + 1 \in Int /\ nPushed <= nPushed + 1
          /\ nPushed + 1 \in 1 .. nPushed + 1
      BY <1>2
    <3>2. document \in Edits(nPushed + 1)
      BY <1>2, <3>1, EditsGrow
    <3>3. Append(document, nPushed + 1) \in Edits(nPushed + 1)
      BY <3>1, <3>2, AppendProperties DEF Edits
    <3>4. QED
      BY <1>1, <3>3
  <2>2. documentAtBegin' \in Edits(nPushed')
    <3>1. nPushed \in Int /\ nPushed + 1 \in Int /\ nPushed <= nPushed + 1
      BY <1>2
    <3>2. documentAtBegin \in Edits(nPushed + 1)
      BY <1>2, <3>1, EditsGrow
    <3>3. QED
      BY <1>1, <3>2
  <2>3. callbackFailed' \in BOOLEAN
    BY <1>1, <1>2
  <2>4. QED
    BY <1>1, <1>2, <1>7, <2>1, <2>2, <2>3 DEF Counters
<1>14. TransactionKept'
  <2> DEFINE t == iTransactionStart
  <2>1. /\ bTransactionOpen \in BOOLEAN /\ t \in 0 .. iCursor /\ nTransactionGroup \in Nat
        /\ ~bTransactionOpen => t = 0
    BY <1>2 DEF TransactionKept
  <2>2. CASE ~bTransactionOpen
    <3>1. t' = 0
      BY <1>4, <2>1, <2>2
    <3>2. bTransactionOpen' \in BOOLEAN /\ ~bTransactionOpen' /\ t' \in 0 .. iCursor' /\ nTransactionGroup' \in Nat
      BY <1>1, <1>6, <2>1, <2>2, <3>1
    <3>3. QED
      BY <3>1, <3>2 DEF TransactionKept
  <2>3. CASE bTransactionOpen
    <3>1. t' = t - n /\ n <= t /\ g = nTransactionGroup /\ t' \in 0 .. L /\ t' \in Nat
      BY <1>2, <1>3, <1>4, <1>6, <2>1, <2>3
    <3>2. /\ nTransactionGroup \in 1 .. nNextGroup - 1
          /\ \A i \in 1 .. Len(ops) :
               /\ ops[i].nGroup <= nTransactionGroup
               /\ ops[i].nGroup = nTransactionGroup <=> i > t /\ i <= iCursor
          /\ documentAtBegin = IF t = iCursor THEN document ELSE ops[t + 1].before
      BY <1>2, <2>3 DEF TransactionKept
    <3>3. ASSUME NEW i \in 1 .. Len(ops')
          PROVE  /\ ops'[i].nGroup <= nTransactionGroup
                 /\ ops'[i].nGroup = nTransactionGroup <=> i > t' /\ i <= iCursor'
      <4>1. CASE i = L + 1
        BY <1>6, <1>8, <1>11, <3>1, <3>2, <4>1
      <4>2. CASE i # L + 1
        <5>1. i \in 1 .. L /\ i + n \in 1 .. Len(ops) /\ i + n <= iCursor /\ i <= iCursor'
          BY <1>2, <1>4, <1>6, <1>11, <4>2
        <5>2. ops'[i] = ops[i + n] /\ (i + n > t <=> i > t')
          BY <1>6, <1>11, <2>1, <3>1, <5>1
        <5>3. QED
          BY <3>2, <5>1, <5>2
      <4>3. QED
        BY <4>1, <4>2
    <3>4. documentAtBegin' = IF t' = iCursor' THEN document' ELSE ops'[t' + 1].before
      <4>1. t' # iCursor'
        BY <1>6, <3>1
      <4>2. CASE t = iCursor
        <5>1. t' + 1 = L + 1
          BY <1>6, <3>1, <4>2
        <5>2. QED
          BY <1>1, <1>8, <1>11, <3>2, <4>1, <4>2, <5>1
      <4>3. CASE t # iCursor
        <5>1. t' + 1 \in 1 .. L /\ (t' + 1) + n = t + 1
          <6>1. t \in Nat /\ t < iCursor /\ iCursor \in Nat
            BY <1>2, <4>3
          <6>2. t' + n = t /\ L + n = iCursor
            BY <1>2, <1>6, <3>1, <6>1
          <6>3. QED
            BY <1>6, <3>1, <6>1, <6>2
        <5>2. ops'[t' + 1] = ops[t + 1]
          BY <1>11, <5>1
        <5>3. QED
          BY <1>1, <3>2, <4>1, <4>3, <5>2
      <4>4. QED
        BY <4>2, <4>3
    <3>5. bTransactionOpen' \in BOOLEAN /\ t' \in 0 .. iCursor' /\ nTransactionGroup' \in 1 .. nNextGroup' - 1
          /\ nTransactionGroup' \in Nat /\ bTransactionOpen'
      BY <1>1, <1>6, <1>7, <2>1, <2>3, <3>1, <3>2
    <3>6. \A e \in evicted' : e < nTransactionGroup'
      BY <1>1, <1>4, <3>1
    <3>7. QED
      BY <1>1, <3>3, <3>4, <3>5, <3>6 DEF TransactionKept
  <2>4. QED
    BY <2>2, <2>3
<1>15. iCursor' \in Boundaries(ops')
  BY <1>6, <1>11 DEF Boundaries
<1>16. QED
  BY <1>10, <1>12, <1>13, <1>14, <1>15 DEF JournalKept

\* An open transaction survives the eviction of older groups.
LEMMA CutTransaction ==
  ASSUME TransactionKept, NEW n \in 0 .. iCursor, iCursor \in Nat, iCursor <= Len(ops), Len(ops) \in Nat,
         Len(ops') = iCursor - n, \A i \in 1 .. iCursor - n : ops'[i] = ops[i + n],
         iCursor' = iCursor - n, bTransactionOpen => n <= iTransactionStart,
         iTransactionStart' = iTransactionStart - (IF bTransactionOpen THEN n ELSE 0),
         bTransactionOpen => \A e \in evicted' : e < nTransactionGroup,
         UNCHANGED <<bTransactionOpen, nTransactionGroup, nNextGroup, document, documentAtBegin>>
  PROVE  TransactionKept'
<1> DEFINE t == iTransactionStart
<1>1. /\ bTransactionOpen \in BOOLEAN /\ t \in 0 .. iCursor /\ nTransactionGroup \in Nat
      /\ ~bTransactionOpen => t = 0
  BY DEF TransactionKept
<1>2. CASE ~bTransactionOpen
  <2>1. t' = 0
    BY <1>1, <1>2
  <2>2. bTransactionOpen' \in BOOLEAN /\ ~bTransactionOpen' /\ t' \in 0 .. iCursor' /\ nTransactionGroup' \in Nat
    BY <1>1, <1>2, <2>1
  <2>3. QED
    BY <2>1, <2>2 DEF TransactionKept
<1>3. CASE bTransactionOpen
  <2>1. t' = t - n /\ n <= t /\ t' \in 0 .. iCursor' /\ t' \in Nat /\ t \in Nat
    BY <1>1, <1>3
  <2>2. /\ nTransactionGroup \in 1 .. nNextGroup - 1
        /\ \A i \in 1 .. Len(ops) :
             /\ ops[i].nGroup <= nTransactionGroup
             /\ ops[i].nGroup = nTransactionGroup <=> i > t /\ i <= iCursor
        /\ documentAtBegin = IF t = iCursor THEN document ELSE ops[t + 1].before
    BY <1>3 DEF TransactionKept
  <2>3. ASSUME NEW i \in 1 .. Len(ops')
        PROVE  /\ ops'[i].nGroup <= nTransactionGroup
               /\ ops'[i].nGroup = nTransactionGroup <=> i > t' /\ i <= iCursor'
    <3>1. i \in 1 .. iCursor - n /\ i + n \in 1 .. Len(ops) /\ i + n <= iCursor /\ i <= iCursor'
      OBVIOUS
    <3>2. ops'[i] = ops[i + n] /\ (i + n > t <=> i > t')
      BY <2>1, <3>1
    <3>3. QED
      BY <2>2, <3>1, <3>2
  <2>4. documentAtBegin' = IF t' = iCursor' THEN document' ELSE ops'[t' + 1].before
    <3>1. CASE t = iCursor
      <4>1. t' = iCursor'
        BY <2>1, <3>1
      <4>2. QED
        BY <2>2, <3>1, <4>1
    <3>2. CASE t # iCursor
      <4>1. t' + 1 \in 1 .. iCursor - n /\ (t' + 1) + n = t + 1 /\ t' # iCursor'
        BY <1>1, <2>1, <3>2
      <4>2. ops'[t' + 1] = ops[t + 1]
        BY <4>1
      <4>3. QED
        BY <2>2, <3>2, <4>1, <4>2
    <3>3. QED
      BY <3>1, <3>2
  <2>5. bTransactionOpen' \in BOOLEAN /\ bTransactionOpen' /\ nTransactionGroup' \in 1 .. nNextGroup' - 1
        /\ nTransactionGroup' \in Nat
    BY <1>1, <1>3, <2>2
  <2>6. \A e \in evicted' : e < nTransactionGroup'
    BY <1>3
  <2>7. QED
    BY <2>1, <2>3, <2>4, <2>5, <2>6 DEF TransactionKept
<1>4. QED
  BY <1>2, <1>3

\* A push that fails leaves a journal cut at both ends.
LEMMA PushFailsKeeps ==
  ASSUME JournalKept, NEW key, NEW cb, PushFails(key, cb)
  PROVE  JournalKept'
<1> DEFINE n == Evictions(cb)
           w == Drop(Applied, n)
<1>1. /\ GroupFits(key, cb) /\ Evict(n) /\ ops' = w /\ iCursor' = Rebased(iCursor, 0, n)
      /\ UNCHANGED <<nNextGroup, bTransactionOpen, nTransactionGroup, document, nPushed,
                     documentAtBegin, callbackFailed>>
  BY DEF PushFails
<1>2. /\ Linked(ops, nPushed, nNextGroup) /\ TransactionKept /\ iCursor \in 0 .. Len(ops)
      /\ Len(ops) \in Nat /\ iCursor \in Nat
  BY JournalIs
<1>3. /\ n \in 0 .. iCursor
      /\ Linked(w, nPushed, nNextGroup) /\ Len(w) = iCursor - n
      /\ \A i \in 1 .. iCursor - n : w[i] = ops[i + n]
      /\ AtCursor(w, iCursor - n, document)
      /\ EvictedKept(evicted', nEvictedGroups', w, nNextGroup)
      /\ \A e \in evicted' : e < PushGroup(key)
      /\ iTransactionStart' = iTransactionStart - (IF bTransactionOpen THEN n ELSE 0)
      /\ bTransactionOpen => n <= iTransactionStart
  BY <1>1, RoomIsMade
<1> HIDE DEF n, w
<1>4. iCursor' = iCursor - n
  BY <1>1, <1>2, <1>3 DEF Rebased
<1>5. bTransactionOpen => \A e \in evicted' : e < nTransactionGroup
  BY <1>3, PushGroups
<1>6. TransactionKept'
  <2>1. iCursor <= Len(ops)
    BY <1>2
  <2>2. QED
    BY <1>1, <1>2, <1>3, <1>4, <1>5, <2>1, CutTransaction
<1>7. iCursor' \in Boundaries(ops')
  BY <1>1, <1>2, <1>3, <1>4 DEF Boundaries
<1>8. Counters'
  BY <1>1 DEF JournalKept, Counters
<1>9. QED
  BY <1>1, <1>3, <1>4, <1>6, <1>7, <1>8 DEF JournalKept

\* The redo operations may go.
LEMMA DiscardRedoKeeps == ASSUME JournalKept, UndoRedo_DiscardRedo PROVE JournalKept'
<1>1. /\ ~bTransactionOpen /\ ops' = Applied
      /\ UNCHANGED <<iCursor, nNextGroup, nEvictedGroups, document, nPushed, documentAtBegin, evicted,
                     callbackFailed, bTransactionOpen, iTransactionStart, nTransactionGroup>>
  BY DEF UndoRedo_DiscardRedo, transaction
<1>2. /\ Linked(ops, nPushed, nNextGroup) /\ AtCursor(ops, iCursor, document) /\ TransactionKept
      /\ EvictedKept(evicted, nEvictedGroups, ops, nNextGroup) /\ ops \in Seq(Recorded)
      /\ iCursor \in 0 .. Len(ops) /\ Len(ops) \in Nat /\ iCursor \in Nat
  BY JournalIs
<1>3. /\ Applied \in Seq(Recorded) /\ Len(Applied) = iCursor /\ \A i \in 1 .. iCursor : Applied[i] = ops[i]
  BY <1>2, WindowOf DEF Applied
<1>4. Linked(Applied, nPushed, nNextGroup)
  <2>1. \A i \in 1 .. iCursor : i \in 1 .. Len(ops)
    BY <1>2
  <2>2. \A i \in 1 .. iCursor - 1 : i \in 1 .. Len(ops) - 1 /\ i \in 1 .. iCursor /\ i + 1 \in 1 .. iCursor
    BY <1>2
  <2>3. QED
    BY <1>2, <1>3, <2>1, <2>2 DEF Linked
<1>5. AtCursor(Applied, iCursor, document)
  <2>1. iCursor # 0 => iCursor \in 1 .. iCursor
    BY <1>2
  <2>2. iCursor \in 0 .. Len(Applied) /\ ~(iCursor < Len(Applied))
    BY <1>2, <1>3
  <2>3. QED
    BY <1>2, <1>3, <2>1, <2>2 DEF AtCursor
<1>6. EvictedKept(evicted, nEvictedGroups, Applied, nNextGroup)
  <2>1. \A i \in 1 .. iCursor : i \in 1 .. Len(ops)
    BY <1>2
  <2>2. QED
    BY <1>2, <1>3, <2>1 DEF EvictedKept
<1>7. TransactionKept'
  BY <1>1, <1>2 DEF TransactionKept
<1>8. iCursor' \in Boundaries(ops')
  BY <1>1, <1>2, <1>3 DEF Boundaries
<1>9. Counters'
  BY <1>1 DEF JournalKept, Counters
<1>10. QED
  BY <1>1, <1>4, <1>5, <1>6, <1>7, <1>8, <1>9 DEF JournalKept

\* A prefix of a journal is a journal.
LEMMA PrefixKept ==
  ASSUME NEW s, NEW p, NEW next, Linked(s, p, next), NEW gone, NEW k, EvictedKept(gone, k, s, next),
         NEW c \in 0 .. Len(s)
  PROVE  /\ Linked(SubSeq(s, 1, c), p, next) /\ EvictedKept(gone, k, SubSeq(s, 1, c), next)
         /\ Len(SubSeq(s, 1, c)) = c /\ \A i \in 1 .. c : SubSeq(s, 1, c)[i] = s[i]
<1> DEFINE a == SubSeq(s, 1, c)
<1>1. s \in Seq(Recorded) /\ Len(s) \in Nat /\ c \in Nat /\ 0 \in 0 .. c
  BY LinkedOps
<1>2. a \in Seq(Recorded) /\ Len(a) = c /\ \A i \in 1 .. c : a[i] = s[i]
  BY <1>1, WindowOf
<1> HIDE DEF a
<1>3. Linked(a, p, next)
  <2>1. \A i \in 1 .. c : i \in 1 .. Len(s)
    BY <1>1
  <2>2. \A i \in 1 .. c - 1 : i \in 1 .. Len(s) - 1 /\ i \in 1 .. c /\ i + 1 \in 1 .. c
    BY <1>1
  <2>3. QED
    BY <1>2, <2>1, <2>2 DEF Linked
<1>4. EvictedKept(gone, k, a, next)
  <2>1. \A i \in 1 .. c : i \in 1 .. Len(s)
    BY <1>1
  <2>2. QED
    BY <1>2, <2>1 DEF EvictedKept
<1>5. QED
  BY <1>2, <1>3, <1>4 DEF a

\* The document before an operation is the one at the position before it.
LEMMA CursorBefore ==
  ASSUME NEW s, NEW p, NEW next, Linked(s, p, next), NEW i \in 0 .. Len(s), i < Len(s)
  PROVE  AtCursor(s, i, s[i + 1].before)
<1>1. Len(s) \in Nat /\ i \in Nat
  BY LinkedOps
<1>2. i # 0 => s[i + 1].before = After(s[i])
  <2>1. i # 0 => i \in 1 .. Len(s) - 1
    BY <1>1
  <2>2. QED
    BY <2>1 DEF Linked
<1>3. QED
  BY <1>2 DEF AtCursor

\* The document after an operation is the one at the position after it.
LEMMA CursorAfter ==
  ASSUME NEW s, NEW p, NEW next, Linked(s, p, next), NEW i \in 1 .. Len(s)
  PROVE  AtCursor(s, i, After(s[i]))
<1>1. Len(s) \in Nat /\ i \in Nat /\ i \in 0 .. Len(s)
  BY LinkedOps
<1>2. i < Len(s) => s[i + 1].before = After(s[i])
  <2>1. i < Len(s) => i \in 1 .. Len(s) - 1
    BY <1>1
  <2>2. QED
    BY <2>1 DEF Linked
<1>3. QED
  BY <1>1, <1>2 DEF AtCursor

\* Forgetting everything keeps the document.
LEMMA ClearKeeps == ASSUME JournalKept, UndoRedo_Clear PROVE JournalKept'
<1>1. /\ ops' = << >> /\ iCursor' = 0 /\ bTransactionOpen' = FALSE /\ iTransactionStart' = 0
      /\ nTransactionGroup' = 0 /\ documentAtBegin' = << >>
      /\ UNCHANGED <<nNextGroup, nEvictedGroups, document, nPushed, evicted, callbackFailed>>
  BY DEF UndoRedo_Clear
<1>2. /\ nPushed \in Nat /\ nNextGroup \in Nat \ {0} /\ callbackFailed \in BOOLEAN
      /\ document \in Edits(nPushed) /\ EvictedKept(evicted, nEvictedGroups, ops, nNextGroup)
  BY JournalIs
<1>3. << >> \in Seq(Recorded) /\ Len(<< >>) = 0 /\ << >> \in Edits(nPushed)
  BY DEF Edits
<1>4. Linked(<< >>, nPushed, nNextGroup)
  BY <1>3 DEF Linked
<1>5. AtCursor(<< >>, 0, document)
  BY <1>3 DEF AtCursor
<1>6. EvictedKept(evicted, nEvictedGroups, << >>, nNextGroup)
  BY <1>2, <1>3 DEF EvictedKept
<1>7. TransactionKept'
  <2>1. bTransactionOpen' \in BOOLEAN /\ ~bTransactionOpen'
    BY <1>1
  <2>2. iTransactionStart' = 0 /\ nTransactionGroup' \in Nat /\ 0 \in 0 .. iCursor'
    BY <1>1
  <2>3. QED
    BY <2>1, <2>2 DEF TransactionKept
<1>8. Counters'
  BY <1>1, <1>2, <1>3 DEF Counters
<1>9. iCursor' \in Boundaries(ops')
  BY <1>1, <1>3 DEF Boundaries
<1>10. QED
  BY <1>1, <1>4, <1>5, <1>6, <1>7, <1>8, <1>9 DEF JournalKept

\* A transaction begins with a group of its own.
LEMMA BeginKeeps == ASSUME JournalKept, UndoRedo_BeginTransaction PROVE JournalKept'
<1>1. /\ ~bTransactionOpen /\ bTransactionOpen' = TRUE /\ iTransactionStart' = iCursor
      /\ nTransactionGroup' = nNextGroup /\ nNextGroup' = nNextGroup + 1
      /\ documentAtBegin' = document
      /\ UNCHANGED <<ops, iCursor, nEvictedGroups, document, nPushed, evicted, callbackFailed>>
  BY DEF UndoRedo_BeginTransaction
<1>2. /\ Linked(ops, nPushed, nNextGroup) /\ AtCursor(ops, iCursor, document)
      /\ EvictedKept(evicted, nEvictedGroups, ops, nNextGroup)
      /\ nPushed \in Nat /\ nNextGroup \in Nat \ {0} /\ callbackFailed \in BOOLEAN
      /\ document \in Edits(nPushed) /\ Len(ops) \in Nat /\ iCursor \in 0 .. Len(ops) /\ iCursor \in Nat
      /\ \A i \in 1 .. Len(ops) : ops[i].nGroup \in Nat \ {0} /\ ops[i].nGroup < nNextGroup
  BY JournalIs
<1>3. Linked(ops, nPushed, nNextGroup + 1)
  <2>1. \A i \in 1 .. Len(ops) : ops[i].nGroup < nNextGroup + 1
    BY <1>2
  <2>2. QED
    BY <1>2, <2>1 DEF Linked
<1>4. EvictedKept(evicted, nEvictedGroups, ops, nNextGroup + 1)
  <2>1. \A g \in evicted : g \in Nat /\ g < nNextGroup
    BY <1>2 DEF EvictedKept
  <2>2. \A g \in evicted : g < nNextGroup + 1
    BY <1>2, <2>1
  <2>3. QED
    BY <1>2, <2>2 DEF EvictedKept
<1>5. TransactionKept'
  <2>1. ASSUME NEW i \in 1 .. Len(ops)
        PROVE  /\ ops[i].nGroup <= nNextGroup
               /\ ops[i].nGroup = nNextGroup <=> i > iCursor /\ i <= iCursor
    BY <1>2
  <2>2. \A g \in evicted : g < nNextGroup
    BY <1>2 DEF EvictedKept
  <2>3. nNextGroup \in 1 .. (nNextGroup + 1) - 1 /\ nNextGroup \in Nat /\ iCursor \in 0 .. iCursor
    BY <1>2
  <2>4. QED
    BY <1>1, <2>1, <2>2, <2>3 DEF TransactionKept
<1>6. Counters'
  BY <1>1, <1>2 DEF Counters
<1>7. callbackFailed' \/ iCursor' \in Boundaries(ops')
  BY <1>1 DEF JournalKept
<1>8. QED
  BY <1>1, <1>2, <1>3, <1>4, <1>5, <1>6, <1>7 DEF JournalKept

\* A transaction is kept.
LEMMA CommitKeeps == ASSUME JournalKept, UndoRedo_CommitTransaction PROVE JournalKept'
<1>1. /\ bTransactionOpen' = FALSE /\ iTransactionStart' = 0
      /\ nTransactionGroup' = 0 /\ documentAtBegin' = << >>
      /\ UNCHANGED <<nNextGroup, nEvictedGroups, nPushed, evicted, callbackFailed, ops, iCursor, document>>
  BY DEF UndoRedo_CommitTransaction, TransactionEnds
<1>2. /\ nPushed \in Nat /\ nNextGroup \in Nat \ {0} /\ callbackFailed \in BOOLEAN /\ iCursor \in Nat
      /\ document \in Edits(nPushed) /\ << >> \in Edits(nPushed)
  BY JournalIs DEF Edits
<1>3. TransactionKept'
  <2>1. bTransactionOpen' \in BOOLEAN /\ ~bTransactionOpen'
    BY <1>1, <1>2
  <2>2. iTransactionStart' = 0 /\ nTransactionGroup' \in Nat /\ 0 \in 0 .. iCursor'
    BY <1>1, <1>2
  <2>3. QED
    BY <2>1, <2>2 DEF TransactionKept
<1>4. Counters'
  BY <1>1, <1>2 DEF Counters
<1>5. QED
  BY <1>1, <1>3, <1>4 DEF JournalKept

\* A cancelled transaction leaves the journal and the document as it found them.
LEMMA CancelKeeps == ASSUME JournalKept, UndoRedo_CancelTransaction PROVE JournalKept'
<1> DEFINE t == iTransactionStart
           a == SubSeq(ops, 1, t)
<1>1. /\ bTransactionOpen /\ bTransactionOpen' = FALSE /\ iTransactionStart' = 0
      /\ nTransactionGroup' = 0 /\ documentAtBegin' = << >>
      /\ UNCHANGED <<nNextGroup, nEvictedGroups, nPushed, evicted, callbackFailed>>
      /\ ops' = a /\ iCursor' = Rebased(iCursor, t, Len(ops)) /\ document' = documentAtBegin
  BY DEF UndoRedo_CancelTransaction, TransactionEnds
<1>2. /\ Linked(ops, nPushed, nNextGroup) /\ AtCursor(ops, iCursor, document)
      /\ EvictedKept(evicted, nEvictedGroups, ops, nNextGroup) /\ TransactionKept
      /\ nPushed \in Nat /\ nNextGroup \in Nat \ {0} /\ callbackFailed \in BOOLEAN
      /\ documentAtBegin \in Edits(nPushed) /\ << >> \in Edits(nPushed)
      /\ Len(ops) \in Nat /\ iCursor \in 0 .. Len(ops) /\ iCursor \in Nat /\ t \in 0 .. iCursor /\ t \in Nat
  BY JournalIs DEF Edits
<1>3. t \in 0 .. Len(ops) /\ iCursor' = t
  BY <1>1, <1>2 DEF Rebased
<1>4. /\ Linked(a, nPushed, nNextGroup) /\ EvictedKept(evicted, nEvictedGroups, a, nNextGroup)
      /\ Len(a) = t /\ \A i \in 1 .. t : a[i] = ops[i]
  BY <1>2, <1>3, PrefixKept
<1>5. AtCursor(ops, t, documentAtBegin)
  <2>1. documentAtBegin = IF t = iCursor THEN document ELSE ops[t + 1].before
    BY <1>1, <1>2 DEF TransactionKept
  <2>2. CASE t = iCursor
    BY <1>2, <2>1, <2>2
  <2>3. CASE t # iCursor
    <3>1. t < Len(ops)
      BY <1>2, <2>3
    <3>2. AtCursor(ops, t, ops[t + 1].before)
      BY <1>2, <1>3, <3>1, CursorBefore
    <3>3. QED
      BY <2>1, <2>3, <3>2
  <2>4. QED
    BY <2>2, <2>3
<1> HIDE DEF a
<1>6. AtCursor(a, t, documentAtBegin)
  <2>1. t # 0 => t \in 1 .. t
    BY <1>2
  <2>2. t \in 0 .. Len(a) /\ ~(t < Len(a))
    BY <1>2, <1>4
  <2>3. QED
    BY <1>4, <1>5, <2>1, <2>2 DEF AtCursor
<1>7. TransactionKept'
  <2>1. bTransactionOpen' \in BOOLEAN /\ ~bTransactionOpen'
    BY <1>1, <1>2, <1>3
  <2>2. iTransactionStart' = 0 /\ nTransactionGroup' \in Nat /\ 0 \in 0 .. iCursor'
    BY <1>1, <1>2, <1>3
  <2>3. QED
    BY <2>1, <2>2 DEF TransactionKept
<1>8. Counters'
  BY <1>1, <1>2 DEF Counters
<1>9. iCursor' \in Boundaries(ops')
  BY <1>1, <1>2, <1>3, <1>4 DEF Boundaries
<1>10. QED
  BY <1>1, <1>3, <1>4, <1>6, <1>7, <1>8, <1>9 DEF JournalKept

\* The cursor and the document move together.
LEMMA MovedKeeps ==
  ASSUME JournalKept, ~bTransactionOpen, AtCursor(ops, iCursor', document'), document' \in Edits(nPushed),
         callbackFailed' \in BOOLEAN, callbackFailed' \/ iCursor' \in Boundaries(ops),
         UNCHANGED <<ops, nNextGroup, transaction, nEvictedGroups, nPushed, documentAtBegin, evicted>>
  PROVE  JournalKept'
<1>1. UNCHANGED <<ops, nNextGroup, bTransactionOpen, iTransactionStart, nTransactionGroup, nEvictedGroups,
                  nPushed, documentAtBegin, evicted>>
  BY DEF transaction
<1>2. TransactionKept /\ iCursor' \in 0 .. Len(ops) /\ Len(ops) \in Nat
  BY JournalIs DEF AtCursor
<1>3. TransactionKept'
  <2>1. iTransactionStart = 0 /\ nTransactionGroup \in Nat /\ bTransactionOpen \in BOOLEAN
    BY <1>2 DEF TransactionKept
  <2>2. 0 \in 0 .. iCursor'
    BY <1>2
  <2>3. QED
    BY <1>1, <2>1, <2>2 DEF TransactionKept
<1>4. Counters'
  BY <1>1 DEF JournalKept, Counters
<1>5. QED
  BY <1>1, <1>3, <1>4 DEF JournalKept

\* An undo that stops anywhere leaves the document of the place where it stopped.
LEMMA UndoKeeps == ASSUME JournalKept, UndoRedo_Undo PROVE JournalKept'
<1>1. PICK done \in 0 .. iCursor - UndoStop(iCursor) :
        /\ iCursor' = iCursor - done
        /\ callbackFailed' = (callbackFailed \/ iCursor' # UndoStop(iCursor))
        /\ document' = IF done = 0 THEN document ELSE ops[iCursor'+ 1].before
  BY DEF UndoRedo_Undo
<1>2. /\ ~bTransactionOpen /\ iCursor # 0
      /\ UNCHANGED <<ops, nNextGroup, transaction, nEvictedGroups, nPushed, documentAtBegin, evicted>>
  BY DEF UndoRedo_Undo
<1>3. /\ Linked(ops, nPushed, nNextGroup) /\ AtCursor(ops, iCursor, document) /\ nPushed \in Nat
      /\ Len(ops) \in Nat /\ iCursor \in 0 .. Len(ops) /\ iCursor \in Nat /\ document \in Edits(nPushed)
  BY JournalIs
<1>4. UndoStop(iCursor) \in Boundaries(ops) /\ UndoStop(iCursor) \in 0 .. Len(ops)
  BY <1>2, UndoStops
<1>5. done \in Nat /\ iCursor' \in 0 .. Len(ops) /\ iCursor' \in Nat
  BY <1>1, <1>3, <1>4
<1>6. AtCursor(ops, iCursor', document') /\ document' \in Edits(nPushed)
  <2>1. CASE done = 0
    <3>1. iCursor' = iCursor /\ document' = document
      BY <1>1, <1>3, <2>1
    <3>2. QED
      BY <1>3, <3>1
  <2>2. CASE done # 0
    <3>1. iCursor' < Len(ops) /\ document' = ops[iCursor' + 1].before /\ iCursor' + 1 \in 1 .. Len(ops)
      BY <1>1, <1>3, <1>5, <2>2
    <3>2. AtCursor(ops, iCursor', ops[iCursor' + 1].before)
      BY <1>3, <1>5, <3>1, CursorBefore
    <3>3. /\ ops[iCursor' + 1].edit \in Nat \ {0} /\ ops[iCursor' + 1].edit <= nPushed
          /\ ops[iCursor' + 1].before \in Edits(ops[iCursor' + 1].edit - 1)
      BY <1>3, <3>1, LinkedOps
    <3>4. ops[iCursor' + 1].edit - 1 \in Int /\ ops[iCursor' + 1].edit - 1 <= nPushed /\ nPushed \in Int
      BY <1>3, <3>3
    <3>5. ops[iCursor' + 1].before \in Edits(nPushed)
      BY <3>3, <3>4, EditsGrow
    <3>6. QED
      BY <3>1, <3>2, <3>5
  <2>3. QED
    BY <2>1, <2>2
<1>7. callbackFailed' \in BOOLEAN
  BY <1>1
<1>8. callbackFailed' \/ iCursor' \in Boundaries(ops)
  BY <1>1, <1>4
<1>9. QED
  BY <1>2, <1>6, <1>7, <1>8, MovedKeeps

\* A redo that stops anywhere leaves the document of the place where it stopped.
LEMMA RedoKeeps == ASSUME JournalKept, UndoRedo_Redo PROVE JournalKept'
<1>1. PICK done \in 0 .. RedoStop(iCursor) - iCursor :
        /\ iCursor' = iCursor + done
        /\ callbackFailed' = (callbackFailed \/ iCursor' # RedoStop(iCursor))
        /\ document' = IF done = 0 THEN document ELSE After(ops[iCursor'])
  BY DEF UndoRedo_Redo
<1>2. /\ ~bTransactionOpen /\ iCursor < Len(ops)
      /\ UNCHANGED <<ops, nNextGroup, transaction, nEvictedGroups, nPushed, documentAtBegin, evicted>>
  BY DEF UndoRedo_Redo
<1>3. /\ Linked(ops, nPushed, nNextGroup) /\ AtCursor(ops, iCursor, document) /\ nPushed \in Nat
      /\ Len(ops) \in Nat /\ iCursor \in 0 .. Len(ops) /\ iCursor \in Nat /\ document \in Edits(nPushed)
  BY JournalIs
<1>4. RedoStop(iCursor) \in Boundaries(ops) /\ RedoStop(iCursor) \in 0 .. Len(ops)
  BY <1>2, RedoStops
<1>5. done \in Nat /\ iCursor' \in 0 .. Len(ops) /\ iCursor' \in Nat
  BY <1>1, <1>3, <1>4
<1>6. AtCursor(ops, iCursor', document') /\ document' \in Edits(nPushed)
  <2>1. CASE done = 0
    <3>1. iCursor' = iCursor /\ document' = document
      BY <1>1, <1>3, <2>1
    <3>2. QED
      BY <1>3, <3>1
  <2>2. CASE done # 0
    <3>1. iCursor' \in 1 .. Len(ops) /\ document' = After(ops[iCursor'])
      BY <1>1, <1>3, <1>5, <2>2
    <3>2. AtCursor(ops, iCursor', After(ops[iCursor']))
      BY <1>3, <3>1, CursorAfter
    <3>3. /\ ops[iCursor'] \in Recorded /\ ops[iCursor'].edit \in Nat \ {0} /\ ops[iCursor'].edit <= nPushed
          /\ ops[iCursor'].before \in Edits(ops[iCursor'].edit - 1)
      BY <1>3, <3>1, LinkedOps
    <3>4. After(ops[iCursor']) \in Edits(ops[iCursor'].edit)
      BY <3>3, AfterEdits
    <3>5. ops[iCursor'].edit \in Int /\ nPushed \in Int
      BY <1>3, <3>3
    <3>6. After(ops[iCursor']) \in Edits(nPushed)
      BY <3>3, <3>4, <3>5, EditsGrow
    <3>7. QED
      BY <3>1, <3>2, <3>6
  <2>3. QED
    BY <2>1, <2>2
<1>7. callbackFailed' \in BOOLEAN
  BY <1>1
<1>8. callbackFailed' \/ iCursor' \in Boundaries(ops)
  BY <1>1, <1>4
<1>9. QED
  BY <1>2, <1>6, <1>7, <1>8, MovedKeeps

\* The invariant holds initially.
LEMMA JournalStarts == ASSUME UInit PROVE JournalKept
<1>1. /\ ops = << >> /\ iCursor = 0 /\ nNextGroup = 1 /\ bTransactionOpen = FALSE /\ iTransactionStart = 0
      /\ nTransactionGroup = 0 /\ nEvictedGroups = 0 /\ document = << >> /\ nPushed = 0
      /\ documentAtBegin = << >> /\ evicted = {} /\ callbackFailed = FALSE
  BY DEF UInit
<1>2. << >> \in Seq(Recorded) /\ Len(<< >>) = 0 /\ << >> \in Edits(0)
  BY DEF Edits
<1>3. Linked(<< >>, 0, 1) /\ AtCursor(<< >>, 0, << >>)
  BY <1>2 DEF Linked, AtCursor
<1>4. EvictedKept({}, 0, << >>, 1)
  BY <1>2, FS_EmptySet DEF EvictedKept
<1>5. TransactionKept
  <2>1. bTransactionOpen \in BOOLEAN /\ ~bTransactionOpen
    BY <1>1
  <2>2. iTransactionStart = 0 /\ nTransactionGroup \in Nat /\ 0 \in 0 .. iCursor
    BY <1>1
  <2>3. QED
    BY <2>1, <2>2 DEF TransactionKept
<1>6. Counters
  <2>1. callbackFailed \in BOOLEAN
    BY <1>1
  <2>2. nPushed \in Nat /\ nNextGroup \in Nat \ {0} /\ document \in Edits(nPushed) /\ documentAtBegin \in Edits(nPushed)
    BY <1>1, <1>2
  <2>3. QED
    BY <2>1, <2>2 DEF Counters
<1>7. iCursor \in Boundaries(ops)
  BY <1>1, <1>2 DEF Boundaries
<1>8. QED
  BY <1>1, <1>3, <1>4, <1>5, <1>6, <1>7 DEF JournalKept

\* Every step keeps it.
LEMMA JournalSteps == ASSUME JournalKept, [Next]_vars PROVE JournalKept'
<1>1. CASE \E key \in MergeKeys \union {NoKey}, cb \in Costs : UndoRedo_Push(key, cb) \/ PushFails(key, cb)
  BY <1>1, PushKeeps, PushFailsKeeps
<1>2. CASE UndoRedo_DiscardRedo
  BY <1>2, DiscardRedoKeeps
<1>3. CASE UndoRedo_BeginTransaction
  BY <1>3, BeginKeeps
<1>4. CASE UndoRedo_CommitTransaction
  BY <1>4, CommitKeeps
<1>5. CASE UndoRedo_CancelTransaction
  BY <1>5, CancelKeeps
<1>6. CASE UndoRedo_Undo
  BY <1>6, UndoKeeps
<1>7. CASE UndoRedo_Redo
  BY <1>7, RedoKeeps
<1>8. CASE EditorHistory_Clear
  BY <1>8, ClearKeeps DEF EditorHistory_Clear
<1>9. CASE UNCHANGED uvars
  <2>1. UNCHANGED <<ops, iCursor, nNextGroup, bTransactionOpen, iTransactionStart, nTransactionGroup,
                    nEvictedGroups, document, nPushed, documentAtBegin, evicted, callbackFailed>>
    BY <1>9 DEF uvars, transaction
  <2>2. Counters' /\ TransactionKept'
    BY <2>1 DEF JournalKept, Counters, TransactionKept
  <2>3. QED
    BY <2>1, <2>2 DEF JournalKept
<1>10. EditorHistory_MarkClean \/ UNCHANGED vars => UNCHANGED uvars
  BY DEF EditorHistory_MarkClean, vars
<1>11. QED
  BY <1>1, <1>2, <1>3, <1>4, <1>5, <1>6, <1>7, <1>8, <1>9, <1>10 DEF Next, UStep

\* It implies what the runs check.
LEMMA JournalKeptSound == ASSUME JournalKept PROVE JournalSound
<1>1. /\ Linked(ops, nPushed, nNextGroup) /\ AtCursor(ops, iCursor, document) /\ TransactionKept
      /\ EvictedKept(evicted, nEvictedGroups, ops, nNextGroup)
      /\ Len(ops) \in Nat /\ iCursor \in 0 .. Len(ops) /\ iCursor \in Nat /\ nNextGroup \in Nat
  BY JournalIs
<1>2. JournalIsAPath
  BY <1>1 DEF JournalIsAPath, Linked, AtCursor
<1>3. TransactionIsSuffix
  <2>1. \A i \in 1 .. iCursor : i \in 1 .. Len(ops) /\ i <= iCursor
    BY <1>1
  <2>2. QED
    BY <1>1, <2>1 DEF TransactionIsSuffix, TransactionKept
<1>4. evicted \cap GroupsIn(ops) = {}
  <2>1. GroupsIn(ops) = {ops[i].nGroup : i \in 1 .. Len(ops)}
    BY <1>1, GroupsOf
  <2>2. \A g \in evicted : g \in Nat /\ \A i \in 1 .. Len(ops) : g < ops[i].nGroup
    BY <1>1 DEF EvictedKept
  <2>3. \A g \in evicted : ~(g < g)
    BY <2>2
  <2>4. QED
    BY <2>1, <2>2, <2>3
<1>5. Cardinality(evicted) = nEvictedGroups
  BY <1>1 DEF EvictedKept
<1>6. GroupsStayWhole
  BY <1>4, <1>5 DEF GroupsStayWhole, JournalKept
<1>7. QED
  BY <1>2, <1>3, <1>6 DEF JournalSound

\* JournalSound (CypherCommon_UndoRedo.cpp): the journal is a path of documents with the live
\* one at the cursor, an open transaction is its applied end, and groups are kept, evicted
\* and moved over in whole, for all budgets, costs and keys.
THEOREM JournalStaysSound == Spec => []JournalSound
<1>1. Init => JournalKept
  BY JournalStarts DEF Init
<1>2. JournalKept /\ [Next]_vars => JournalKept'
  BY JournalSteps
<1>3. JournalKept => JournalSound
  BY JournalKeptSound
<1>4. QED
  BY <1>1, <1>2, <1>3, PTL DEF Spec
-----------------------------------------------------------------------------
(* The budgets of the journal. *)

\* The costs of the first operations, summed up one after the other.
Summing(seq, last, sum) ==
  sum = [n \in 0 .. last |-> IF n = 0 THEN 0 ELSE sum[n - 1] + seq[n].cb]

\* Costs that have been summed up so far can be summed up one further.
LEMMA SumsExist ==
  ASSUME NEW seq, NEW last \in Nat PROVE \E sum : Summing(seq, last, sum)
<1> DEFINE stuck == {n \in Nat : ~\E sum : Summing(seq, n, sum)}
<1>1. ASSUME stuck # {} PROVE FALSE
  <2>1. PICK n \in stuck : \A m \in stuck : n <= m
    BY <1>1, LeastNumber
  <2>2. CASE n = 0
    <3> DEFINE sum == [k \in 0 .. 0 |-> 0]
    <3>1. sum = [k \in 0 .. 0 |-> IF k = 0 THEN 0 ELSE sum[k - 1] + seq[k].cb]
      OBVIOUS
    <3> HIDE DEF sum
    <3>2. Summing(seq, 0, sum)
      BY <3>1 DEF Summing
    <3> QED
      BY <2>2, <3>2
  <2>3. CASE n # 0
    <3>1. n - 1 \in Nat /\ n - 1 \notin stuck
      BY <2>1, <2>3
    <3>2. PICK sum : Summing(seq, n - 1, sum)
      BY <3>1
    <3>3. sum = [k \in 0 .. n - 1 |-> IF k = 0 THEN 0 ELSE sum[k - 1] + seq[k].cb]
      BY <3>2 DEF Summing
    <3> DEFINE longer == [k \in 0 .. n |-> IF k = n THEN sum[n - 1] + seq[n].cb ELSE sum[k]]
    <3>4. ASSUME NEW k \in 0 .. n
          PROVE  longer[k] = IF k = 0 THEN 0 ELSE longer[k - 1] + seq[k].cb
      <4>1. k # 0 => k - 1 \in 0 .. n - 1 /\ longer[k - 1] = sum[k - 1]
        BY <2>1
      <4>2. CASE k = n
        BY <2>3, <4>1, <4>2
      <4>3. CASE k # n
        <5>1. k \in 0 .. n - 1 /\ longer[k] = sum[k]
          BY <2>1, <4>3
        <5>2. sum[k] = IF k = 0 THEN 0 ELSE sum[k - 1] + seq[k].cb
          BY <3>3, <5>1
        <5> QED
          BY <4>1, <5>1, <5>2
      <4> QED
        BY <4>2, <4>3
    <3>5. longer = [k \in 0 .. n |-> IF k = 0 THEN 0 ELSE longer[k - 1] + seq[k].cb]
      BY <3>4
    <3> HIDE DEF longer
    <3>6. Summing(seq, n, longer)
      BY <3>5 DEF Summing
    <3> QED
      BY <2>1, <3>6
  <2> QED
    BY <2>2, <2>3
<1> QED
  BY <1>1

\* Payloads is where such a sum ends.
LEMMA PayloadsSum ==
  ASSUME NEW seq, Len(seq) \in Nat
  PROVE  \E sum : Summing(seq, Len(seq), sum) /\ Payloads(seq) = sum[Len(seq)]
<1> DEFINE Sums(f) == [n \in 0 .. Len(seq) |-> IF n = 0 THEN 0 ELSE f[n - 1] + seq[n].cb]
           sum == CHOOSE f : f = Sums(f)
<1>1. Payloads(seq) = sum[Len(seq)]
  BY Zenon DEF Payloads
<1>2. \E f : f = Sums(f)
  <2>1. PICK f : Summing(seq, Len(seq), f)
    BY SumsExist
  <2>2. f = Sums(f)
    BY <2>1 DEF Summing
  <2> QED
    BY <2>2, Zenon
<1>3. sum = Sums(sum)
  BY <1>2, Zenon
<1> HIDE DEF sum
<1>4. Summing(seq, Len(seq), sum)
  BY <1>3 DEF Summing
<1> QED
  BY <1>1, <1>4

\* The steps of a sum.
LEMMA SumsStep ==
  ASSUME NEW seq, NEW last \in Nat, NEW sum, Summing(seq, last, sum)
  PROVE  /\ sum[0] = 0
         /\ \A n \in 1 .. last : sum[n] = sum[n - 1] + seq[n].cb
<1>1. \A n \in 0 .. last : sum[n] = IF n = 0 THEN 0 ELSE sum[n - 1] + seq[n].cb
  BY DEF Summing
<1>2. 0 \in 0 .. last /\ \A n \in 1 .. last : n \in 0 .. last /\ n # 0
  OBVIOUS
<1>3. sum[0] = 0
  BY <1>1, <1>2
<1> QED
  BY <1>1, <1>2, <1>3

\* Journals that cost the same up to a position have the same sum there.
LEMMA SumsAgree ==
  ASSUME NEW s, NEW a \in Nat, NEW f, Summing(s, a, f),
         NEW t, NEW b \in Nat, NEW g, Summing(t, b, g),
         NEW c \in Nat, c <= a, c <= b, \A i \in 1 .. c : s[i].cb = t[i].cb
  PROVE  f[c] = g[c]
<1> DEFINE apart == {n \in 0 .. c : f[n] # g[n]}
<1>1. /\ f[0] = 0 /\ \A n \in 1 .. c : f[n] = f[n - 1] + s[n].cb
      /\ g[0] = 0 /\ \A n \in 1 .. c : g[n] = g[n - 1] + t[n].cb
  <2>1. \A n \in 1 .. c : n \in 1 .. a /\ n \in 1 .. b
    OBVIOUS
  <2> QED
    BY <2>1, SumsStep
<1>2. ASSUME apart # {} PROVE FALSE
  <2>1. apart \subseteq Nat
    OBVIOUS
  <2>2. PICK n \in apart : \A m \in apart : n <= m
    <3> HIDE DEF apart
    <3> QED
      BY <1>2, <2>1, LeastNumber
  <2>3. n \in 1 .. c /\ n - 1 \in 0 .. c /\ n - 1 \notin apart
    BY <1>1, <2>2
  <2>4. f[n - 1] = g[n - 1]
    BY <2>3
  <2> QED
    BY <1>1, <2>2, <2>3, <2>4
<1>3. c \in 0 .. c
  OBVIOUS
<1> QED
  BY <1>2, <1>3

\* A sum of costs only grows.
LEMMA SumsGrow ==
  ASSUME NEW s, NEW a \in Nat, NEW f, Summing(s, a, f), \A i \in 1 .. a : s[i].cb \in Nat
  PROVE  \A n \in 0 .. a : f[n] \in Nat /\ f[n] <= f[a]
<1>1. f[0] = 0 /\ \A n \in 1 .. a : f[n] = f[n - 1] + s[n].cb
  BY SumsStep
<1>2. \A n \in 0 .. a : f[n] \in Nat
  <2> DEFINE odd == {n \in 0 .. a : f[n] \notin Nat}
  <2>1. ASSUME odd # {} PROVE FALSE
    <3>1. odd \subseteq Nat
      OBVIOUS
    <3>2. PICK n \in odd : \A m \in odd : n <= m
      <4> HIDE DEF odd
      <4> QED
        BY <2>1, <3>1, LeastNumber
    <3>3. n \in 1 .. a /\ n - 1 \in 0 .. a /\ n - 1 \notin odd
      BY <1>1, <3>2
    <3> QED
      BY <1>1, <3>2, <3>3
  <2> QED
    BY <2>1
<1>3. \A n \in 0 .. a : f[n] <= f[a]
  <2> DEFINE above == {n \in 0 .. a : ~(f[n] <= f[a])}
  <2>1. ASSUME above # {} PROVE FALSE
    <3>1. above \subseteq 0 .. a
      OBVIOUS
    <3>2. PICK n \in above : \A m \in above : m <= n
      <4> HIDE DEF above
      <4> QED
        BY <2>1, <3>1, GreatestNumber
    <3>3. a \in 0 .. a /\ f[a] <= f[a]
      BY <1>2
    <3>4. n # a
      BY <3>2, <3>3
    <3>5. n + 1 \in 1 .. a /\ n + 1 \in 0 .. a /\ n + 1 \notin above /\ (n + 1) - 1 = n
      BY <3>2, <3>4
    <3>6. f[n + 1] = f[n] + s[n + 1].cb /\ f[n + 1] <= f[a]
      BY <1>1, <3>5
    <3>7. f[n] \in Nat /\ s[n + 1].cb \in Nat /\ f[a] \in Nat
      BY <1>2, <3>2, <3>3, <3>5
    <3> QED
      BY <3>2, <3>6, <3>7
  <2> QED
    BY <2>1
<1> QED
  BY <1>2, <1>3

\* What an operation costs.
LEMMA CostsAre ==
  ASSUME NEW s \in Seq(Recorded)
  PROVE  Len(s) \in Nat /\ \A i \in 1 .. Len(s) : s[i].cb \in Nat
<1>1. \A i \in 1 .. Len(s) : s[i] \in Recorded
  BY ElementOfSeq
<1>2. \A i \in 1 .. Len(s) : s[i].cb \in Costs
  BY <1>1 DEF Recorded
<1>3. \A cb \in Costs : cb \in Nat
  BY UndoAssumption
<1> QED
  BY <1>2, <1>3

\* A journal costs no less than what comes first in it.
LEMMA PayloadsOfPrefix ==
  ASSUME NEW s \in Seq(Recorded), NEW c \in 0 .. Len(s)
  PROVE  /\ Payloads(s) \in Nat /\ Payloads(SubSeq(s, 1, c)) \in Nat
         /\ Payloads(SubSeq(s, 1, c)) <= Payloads(s)
<1> DEFINE t == SubSeq(s, 1, c)
<1>1. Len(s) \in Nat /\ c \in Nat /\ c <= Len(s) /\ \A i \in 1 .. Len(s) : s[i].cb \in Nat
  BY CostsAre
<1>2. Len(t) = c /\ \A i \in 1 .. c : t[i] = s[i]
  <2>1. 0 \in 0 .. c
    BY <1>1
  <2> QED
    BY <2>1, WindowOf
<1> HIDE DEF t
<1>3. PICK f : Summing(s, Len(s), f) /\ Payloads(s) = f[Len(s)]
  BY <1>1, PayloadsSum
<1>4. PICK g : Summing(t, c, g) /\ Payloads(t) = g[c]
  BY <1>1, <1>2, PayloadsSum
<1>5. g[c] = f[c]
  <2>1. c <= c /\ \A i \in 1 .. c : t[i].cb = s[i].cb
    BY <1>1, <1>2
  <2> QED
    BY <1>1, <1>3, <1>4, <2>1, SumsAgree
<1>6. f[c] \in Nat /\ f[c] <= f[Len(s)] /\ f[Len(s)] \in Nat
  <2>1. \A n \in 0 .. Len(s) : f[n] \in Nat /\ f[n] <= f[Len(s)]
    BY <1>1, <1>3, SumsGrow
  <2> QED
    BY <1>1, <2>1
<1> QED
  BY <1>3, <1>4, <1>5, <1>6 DEF t

\* An operation more costs what it costs.
LEMMA PayloadsOfLonger ==
  ASSUME NEW s \in Seq(Recorded), NEW op \in Recorded
  PROVE  Payloads(Append(s, op)) = Payloads(s) + op.cb
<1> DEFINE t == Append(s, op)
           c == Len(s)
<1>1. c \in Nat
  BY CostsAre
<1>2. Len(t) = c + 1 /\ t[c + 1] = op /\ \A i \in 1 .. c : t[i] = s[i]
  BY AppendProperties
<1> HIDE DEF t, c
<1>3. PICK f : Summing(s, c, f) /\ Payloads(s) = f[c]
  BY <1>1, PayloadsSum DEF c
<1>4. PICK g : Summing(t, c + 1, g) /\ Payloads(t) = g[c + 1]
  BY <1>1, <1>2, PayloadsSum
<1>5. f[c] = g[c]
  <2>1. c <= c /\ c <= c + 1 /\ c + 1 \in Nat /\ \A i \in 1 .. c : s[i].cb = t[i].cb
    BY <1>1, <1>2
  <2> QED
    BY <1>1, <1>3, <1>4, <2>1, SumsAgree
<1>6. g[c + 1] = g[c] + op.cb
  <2>1. c + 1 \in Nat /\ c + 1 \in 1 .. c + 1 /\ (c + 1) - 1 = c
    BY <1>1
  <2>2. \A n \in 1 .. c + 1 : g[n] = g[n - 1] + t[n].cb
    BY <1>4, <2>1, SumsStep
  <2> QED
    BY <1>2, <2>1, <2>2
<1> QED
  BY <1>3, <1>4, <1>5, <1>6 DEF t

\* An empty journal costs nothing.
LEMMA PayloadsOfNone == Payloads(<< >>) = 0
<1>1. Len(<< >>) = 0
  OBVIOUS
<1>2. PICK f : Summing(<< >>, Len(<< >>), f) /\ Payloads(<< >>) = f[Len(<< >>)]
  BY <1>1, PayloadsSum
<1>3. f[0] = 0
  BY <1>1, <1>2, SumsStep
<1> QED
  BY <1>1, <1>2, <1>3

\* The journal keeps to its budgets, the array holds it, and a group is open only in a
\* transaction.
Budgeted ==
  /\ nCapacity \in 1 .. nMaxOperations /\ Len(ops) <= nCapacity
  /\ Payloads(ops) <= cbMaxPayloads
  /\ nPushed <= MaxPushes
  /\ ~bTransactionOpen => nTransactionGroup = 0

\* An array that is full grows as long as another operation is allowed.
LEMMA CapacityGrows ==
  ASSUME nCapacity \in 1 .. nMaxOperations, nCapacity < nMaxOperations
  PROVE  NextCapacity \in nCapacity + 1 .. nMaxOperations
<1> DEFINE more == IF nCapacity < 16 THEN nCapacity ELSE nCapacity \div 2
<1>1. nMaxOperations \in Nat /\ nCapacity \in Nat
  BY UndoAssumption
<1>2. more \in Nat /\ more >= 1
  BY <1>1
<1>3. NextCapacity = IF nCapacity + more < nMaxOperations THEN nCapacity + more ELSE nMaxOperations
  BY DEF NextCapacity
<1> HIDE DEF more
<1> QED
  BY <1>1, <1>2, <1>3

\* What is left when room was made for an operation, with its cost.
LEMMA RoomIsEnough ==
  ASSUME JournalKept, Budgeted, NEW key, NEW cb \in Costs, GroupFits(key, cb)
  PROVE  LET w == Drop(Applied, Evictions(cb))
         IN  /\ w \in Seq(Recorded) /\ Len(w) \in Nat /\ Len(w) <= nCapacity
             /\ Len(w) = iCursor - Evictions(cb) /\ Len(Applied) = iCursor
             /\ Evictions(cb) \in 0 .. iCursor
             /\ Len(w) < nMaxOperations
             /\ Payloads(w) \in Nat /\ cb \in Nat /\ Payloads(w) + cb <= cbMaxPayloads
<1> DEFINE n == Evictions(cb)
           w == Drop(Applied, n)
<1>1. ops \in Seq(Recorded) /\ Len(ops) \in Nat /\ iCursor \in 0 .. Len(ops) /\ iCursor \in Nat
  BY JournalIs
<1>2. n \in 0 .. iCursor /\ HasRoom(n, cb)
  BY EvictionsStop
<1> HIDE DEF n
<1>3. w \in Seq(Recorded) /\ Len(w) = iCursor - n /\ Len(Applied) = iCursor
  BY <1>1, <1>2, WindowOf DEF Applied
<1>4. iCursor - n < nMaxOperations /\ Payloads(w) + cb <= cbMaxPayloads
  BY <1>2 DEF HasRoom
<1> HIDE DEF w
<1>5. Len(w) \in Nat /\ Len(w) <= nCapacity
  <2>1. Len(ops) <= nCapacity /\ nCapacity \in Int
    BY DEF Budgeted
  <2> QED
    BY <1>1, <1>2, <1>3, <2>1
<1>6. Payloads(w) \in Nat
  <2>1. 0 \in 0 .. Len(w)
    BY <1>5
  <2> QED
    BY <1>3, <2>1, PayloadsOfPrefix
<1>7. cb \in Nat
  BY UndoAssumption
<1> QED
  BY <1>2, <1>3, <1>4, <1>5, <1>6, <1>7 DEF w, n

\* Recording an operation keeps to the budgets.
LEMMA PushBudgeted ==
  ASSUME JournalKept, Budgeted, NEW key \in MergeKeys \union {NoKey}, NEW cb \in Costs, UndoRedo_Push(key, cb)
  PROVE  Budgeted'
<1> DEFINE w == Drop(Applied, Evictions(cb))
           g == PushGroup(key)
           op == [edit |-> nPushed + 1, nMergeKey |-> key, nGroup |-> g, cb |-> cb, before |-> document]
<1>1. /\ GroupFits(key, cb) /\ nPushed < MaxPushes /\ nPushed' = nPushed + 1
      /\ ops' = Append(w, op)
      /\ nCapacity' = IF Len(w) = nCapacity THEN NextCapacity ELSE nCapacity
      /\ UNCHANGED <<bTransactionOpen, nTransactionGroup>>
  BY DEF UndoRedo_Push, PushGroup
<1>2. /\ w \in Seq(Recorded) /\ Len(w) \in Nat /\ Len(w) <= nCapacity /\ Len(w) < nMaxOperations
      /\ Payloads(w) \in Nat /\ cb \in Nat /\ Payloads(w) + cb <= cbMaxPayloads
  BY <1>1, RoomIsEnough
<1> HIDE DEF w
<1>3. op \in Recorded /\ op.cb = cb
  <2>1. nPushed \in Nat /\ document \in Edits(nPushed) /\ g \in Nat \ {0}
    BY JournalIs, PushGroups
  <2>2. document \in Seq(Nat)
    <3>1. 1 .. nPushed \subseteq Nat
      BY <2>1
    <3> QED
      BY <2>1, <3>1, SeqMonotonic DEF Edits
  <2> HIDE DEF g
  <2> QED
    BY <2>1, <2>2 DEF Recorded
<1> HIDE DEF op
<1>4. Len(ops') = Len(w) + 1 /\ Payloads(ops') = Payloads(w) + cb
  BY <1>1, <1>2, <1>3, AppendProperties, PayloadsOfLonger
<1>5. nCapacity' \in 1 .. nMaxOperations /\ Len(ops') <= nCapacity'
  <2>1. nCapacity \in 1 .. nMaxOperations /\ nMaxOperations \in Nat
    BY UndoAssumption DEF Budgeted
  <2>2. CASE Len(w) = nCapacity
    <3>1. NextCapacity \in nCapacity + 1 .. nMaxOperations
      BY <1>2, <2>1, <2>2, CapacityGrows
    <3> QED
      BY <1>1, <1>2, <1>4, <2>1, <2>2, <3>1
  <2>3. CASE Len(w) # nCapacity
    BY <1>1, <1>2, <1>4, <2>1, <2>3
  <2> QED
    BY <2>2, <2>3
<1>6. nPushed' <= MaxPushes
  <2>1. nPushed \in Nat /\ MaxPushes \in Nat
    BY JournalIs, UndoAssumption
  <2> QED
    BY <1>1, <2>1
<1>7. ~bTransactionOpen' => nTransactionGroup' = 0
  BY <1>1 DEF Budgeted
<1>8. Payloads(ops') <= cbMaxPayloads
  BY <1>2, <1>4
<1> QED
  BY <1>5, <1>6, <1>7, <1>8 DEF Budgeted

\* So does a push that fails,
LEMMA PushFailsBudgeted ==
  ASSUME JournalKept, Budgeted, NEW key, NEW cb \in Costs, PushFails(key, cb)
  PROVE  Budgeted'
<1> DEFINE w == Drop(Applied, Evictions(cb))
<1>1. GroupFits(key, cb) /\ ops' = w /\ nCapacity' = nCapacity /\ nPushed' = nPushed
      /\ UNCHANGED <<bTransactionOpen, nTransactionGroup>>
  BY DEF PushFails
<1>2. /\ Len(w) \in Nat /\ Len(w) <= nCapacity
      /\ Payloads(w) \in Nat /\ cb \in Nat /\ Payloads(w) + cb <= cbMaxPayloads
  BY <1>1, RoomIsEnough
<1> HIDE DEF w
<1>3. Payloads(ops') <= cbMaxPayloads
  BY <1>1, <1>2, UndoAssumption
<1> QED
  BY <1>1, <1>2, <1>3 DEF Budgeted

\* and whatever leaves the beginning of the journal.
LEMMA PrefixBudgeted ==
  ASSUME JournalKept, Budgeted, NEW c \in 0 .. Len(ops), ops' = SubSeq(ops, 1, c),
         nCapacity' = nCapacity, nPushed' = nPushed,
         ~bTransactionOpen' => nTransactionGroup' = 0
  PROVE  Budgeted'
<1>1. ops \in Seq(Recorded) /\ Len(ops) \in Nat
  BY JournalIs
<1>2. Len(ops') = c
  <2>1. 0 \in 0 .. c
    BY <1>1
  <2> QED
    BY <1>1, <2>1, WindowOf
<1>3. Payloads(ops') \in Nat /\ Payloads(ops') <= Payloads(ops) /\ Payloads(ops) \in Nat
  BY <1>1, PayloadsOfPrefix
<1>4. Len(ops) <= nCapacity /\ nCapacity \in Int /\ Payloads(ops) <= cbMaxPayloads
  BY DEF Budgeted
<1>5. Len(ops') <= nCapacity' /\ Payloads(ops') <= cbMaxPayloads
  BY <1>1, <1>2, <1>3, <1>4, UndoAssumption
<1> QED
  BY <1>5 DEF Budgeted

LEMMA BudgetStarts == ASSUME UInit PROVE Budgeted
<1>1. ops = << >> /\ nCapacity = InitialCapacity /\ nPushed = 0 /\ nTransactionGroup = 0
  BY DEF UInit
<1>2. Payloads(ops) = 0 /\ Len(ops) = 0
  BY <1>1, PayloadsOfNone
<1> QED
  BY <1>1, <1>2, UndoAssumption DEF Budgeted

\* Every step keeps to the budgets.
LEMMA BudgetSteps == ASSUME JournalKept, Budgeted, [Next]_vars PROVE Budgeted'
<1>0. ops \in Seq(Recorded) /\ Len(ops) \in Nat /\ iCursor \in 0 .. Len(ops)
      /\ iTransactionStart \in 0 .. iCursor /\ iCursor \in Nat
  BY JournalIs
<1>1. CASE \E key \in MergeKeys \union {NoKey}, cb \in Costs : UndoRedo_Push(key, cb) \/ PushFails(key, cb)
  BY <1>1, PushBudgeted, PushFailsBudgeted
<1>2. CASE UndoRedo_DiscardRedo
  <2>1. ops' = SubSeq(ops, 1, iCursor) /\ UNCHANGED <<nCapacity, nPushed, bTransactionOpen, nTransactionGroup>>
    BY <1>2 DEF UndoRedo_DiscardRedo, Applied, transaction
  <2>2. ~bTransactionOpen' => nTransactionGroup' = 0
    BY <2>1 DEF Budgeted
  <2> QED
    BY <1>0, <2>1, <2>2, PrefixBudgeted
<1>3. CASE UndoRedo_CancelTransaction
  <2>1. iTransactionStart \in 0 .. Len(ops)
    BY <1>0
  <2>2. /\ ops' = SubSeq(ops, 1, iTransactionStart) /\ nTransactionGroup' = 0
        /\ nCapacity' = nCapacity /\ nPushed' = nPushed
    BY <1>3 DEF UndoRedo_CancelTransaction, TransactionEnds
  <2> QED
    BY <2>1, <2>2, PrefixBudgeted
<1>4. CASE EditorHistory_Clear
  <2>1. ops' = << >> /\ nCapacity' = nCapacity /\ nPushed' = nPushed /\ nTransactionGroup' = 0
    BY <1>4 DEF EditorHistory_Clear, UndoRedo_Clear
  <2>2. 0 \in 0 .. Len(ops) /\ 0 \in 0 .. 0
    BY <1>0
  <2>3. Len(SubSeq(ops, 1, 0)) = 0 /\ SubSeq(ops, 1, 0) \in Seq(Recorded)
    BY <1>0, <2>2, WindowOf
  <2>4. SubSeq(ops, 1, 0) = << >>
    BY <2>3, EmptySeq
  <2> QED
    BY <2>1, <2>2, <2>4, PrefixBudgeted
<1>5. ASSUME UNCHANGED <<ops, nCapacity, nPushed>>, ~bTransactionOpen' => nTransactionGroup' = 0
      PROVE  Budgeted'
  BY <1>5 DEF Budgeted
<1>6. CASE UndoRedo_BeginTransaction
  BY <1>5, <1>6 DEF UndoRedo_BeginTransaction
<1>7. CASE UndoRedo_CommitTransaction
  BY <1>5, <1>7 DEF UndoRedo_CommitTransaction, TransactionEnds
<1>8. CASE UndoRedo_Undo \/ UndoRedo_Redo \/ EditorHistory_MarkClean \/ UNCHANGED vars
  <2>1. UNCHANGED <<ops, nCapacity, nPushed, transaction>>
    BY <1>8 DEF UndoRedo_Undo, UndoRedo_Redo, EditorHistory_MarkClean, vars, uvars
  <2>2. ~bTransactionOpen' => nTransactionGroup' = 0
    BY <2>1 DEF Budgeted, transaction
  <2> QED
    BY <1>5, <2>1, <2>2
<1> QED
  BY <1>1, <1>2, <1>3, <1>4, <1>6, <1>7, <1>8 DEF Next, UStep

\* What HistoryIsValid tests follows.
LEMMA JournalValid == ASSUME JournalKept, Budgeted PROVE UTypeOK
<1>1. /\ Linked(ops, nPushed, nNextGroup) /\ TransactionKept
      /\ EvictedKept(evicted, nEvictedGroups, ops, nNextGroup)
      /\ nPushed \in Nat /\ nNextGroup \in Nat \ {0} /\ callbackFailed \in BOOLEAN
      /\ document \in Edits(nPushed) /\ documentAtBegin \in Edits(nPushed)
      /\ ops \in Seq(Recorded) /\ Len(ops) \in Nat /\ iCursor \in 0 .. Len(ops)
  BY JournalIs
<1>2. nPushed <= MaxPushes /\ MaxPushes \in Nat
  BY UndoAssumption DEF Budgeted
<1>3. ops \in Seq(Operation)
  <2>1. ASSUME NEW i \in 1 .. Len(ops) PROVE ops[i] \in Operation
    <3>1. ops[i] \in Recorded /\ ops[i].edit <= nPushed /\ ops[i].before \in Edits(ops[i].edit - 1)
          /\ ops[i].edit \in Nat \ {0}
      BY <1>1, LinkedOps
    <3>2. ops[i].edit \in 1 .. MaxPushes
      BY <1>1, <1>2, <3>1
    <3>3. ops[i].before \in Edits(MaxPushes)
      <4>1. ops[i].edit - 1 \in Int /\ MaxPushes \in Int /\ ops[i].edit - 1 <= MaxPushes
        BY <1>2, <3>1, <3>2
      <4> QED
        BY <3>1, <4>1, EditsGrow
    <3>4. ops[i].nMergeKey \in MergeKeys \union {NoKey} /\ ops[i].nGroup \in Nat /\ ops[i].cb \in Costs
          /\ ops[i] = [edit |-> ops[i].edit, nMergeKey |-> ops[i].nMergeKey, nGroup |-> ops[i].nGroup,
                       cb |-> ops[i].cb, before |-> ops[i].before]
      BY <3>1 DEF Recorded
    <3> QED
      BY <3>2, <3>3, <3>4 DEF Operation, Edits
  <2>2. ops = [i \in 1 .. Len(ops) |-> ops[i]]
    BY <1>1, LenProperties
  <2> QED
    BY <1>1, <2>1, <2>2
<1>4. document \in Seq(1 .. MaxPushes) /\ documentAtBegin \in Seq(1 .. MaxPushes)
  <2>1. document \in Edits(MaxPushes) /\ documentAtBegin \in Edits(MaxPushes)
    BY <1>1, <1>2, EditsGrow
  <2> QED
    BY <2>1 DEF Edits
<1>5. nEvictedGroups \in Nat
  BY <1>1 DEF EvictedKept
<1>6. bTransactionOpen \in BOOLEAN /\ iTransactionStart \in 0 .. iCursor
  BY <1>1 DEF TransactionKept
<1>7. nCapacity \in 1 .. nMaxOperations /\ Len(ops) <= nCapacity /\ Payloads(ops) <= cbMaxPayloads
  BY DEF Budgeted
<1>8. nPushed \in 0 .. MaxPushes
  BY <1>1, <1>2
<1>9. nTransactionGroup \in 0 .. nNextGroup - 1
  <2>1. CASE bTransactionOpen
    BY <1>1, <2>1 DEF TransactionKept
  <2>2. CASE ~bTransactionOpen
    BY <1>1, <2>2 DEF Budgeted
  <2> QED
    BY <2>1, <2>2
<1> QED
  BY <1>1, <1>3, <1>4, <1>5, <1>6, <1>7, <1>8, <1>9 DEF UTypeOK

\* UTypeOK (CypherCommon_UndoRedo.cpp, HistoryIsValid): every index stays in the journal, and
\* the journal within its array and both of its budgets, for any costs and budgets.
THEOREM JournalTyped == Spec => []UTypeOK
<1>1. Init => JournalKept /\ Budgeted
  BY JournalStarts, BudgetStarts DEF Init
<1>2. JournalKept /\ Budgeted /\ [Next]_vars => (JournalKept /\ Budgeted)'
  BY JournalSteps, BudgetSteps
<1>3. JournalKept /\ Budgeted => UTypeOK
  BY JournalValid
<1>4. QED
  BY <1>1, <1>2, <1>3, PTL DEF Spec
-----------------------------------------------------------------------------
\* What an operation leaves is no document made of earlier edits.
LEMMA NewText ==
  ASSUME NEW op \in Recorded, op.before \in Edits(op.edit - 1), NEW m \in Int, m < op.edit
  PROVE  After(op) \notin Edits(m)
<1>1. SUFFICES ASSUME After(op) \in Edits(m) PROVE FALSE
  OBVIOUS
<1>2. /\ Len(After(op)) = Len(op.before) + 1 /\ Len(op.before) \in Nat
      /\ After(op)[Len(op.before) + 1] = op.edit
  BY AfterEdits
<1>3. After(op) \in Seq(1 .. m)
  BY <1>1 DEF Edits
<1>4. Len(op.before) + 1 \in 1 .. Len(After(op))
  BY <1>2
<1>5. After(op)[Len(op.before) + 1] \in 1 .. m
  BY <1>3, <1>4, ElementOfSeq
<1>6. op.edit \in Nat
  BY DEF Recorded
<1>7. QED
  BY <1>2, <1>5, <1>6

\* The documents at earlier positions are made of earlier edits.
LEMMA TextsBelow ==
  ASSUME NEW s, NEW p \in Nat, NEW next, Linked(s, p, next), NEW text, NEW j \in 1 .. Len(s),
         NEW i \in 0 .. j - 1
  PROVE  TextAt(s, text, i) \in Edits(s[j].edit - 1)
<1>1. /\ s \in Seq(Recorded) /\ Len(s) \in Nat
      /\ \A k \in 1 .. Len(s) :
           /\ s[k] \in Recorded /\ s[k].edit \in Nat \ {0} /\ s[k].before \in Edits(s[k].edit - 1)
  BY LinkedOps
<1>2. CASE i = 0
  <2>1. s # << >> /\ 1 \in 1 .. Len(s)
    BY <1>1
  <2>2. TextAt(s, text, i) = s[1].before
    BY <1>2, <2>1 DEF TextAt
  <2>3. s[1].edit <= s[j].edit
    <3>1. CASE j = 1
      BY <1>1, <2>1, <3>1
    <3>2. CASE j # 1
      <4>1. 1 < j
        BY <3>2
      <4>2. s[1].edit < s[j].edit
        BY <2>1, <4>1 DEF Linked
      <4>3. QED
        BY <1>1, <2>1, <4>2
    <3>3. QED
      BY <3>1, <3>2
  <2>4. s[1].edit - 1 \in Int /\ s[j].edit - 1 \in Int /\ s[1].edit - 1 <= s[j].edit - 1
    BY <1>1, <2>1, <2>3
  <2>5. s[1].before \in Edits(s[1].edit - 1)
    BY <1>1, <2>1
  <2>6. QED
    BY <2>2, <2>4, <2>5, EditsGrow
<1>3. CASE i # 0
  <2>1. i \in 1 .. Len(s) /\ i < j
    BY <1>1, <1>3
  <2>2. TextAt(s, text, i) = After(s[i])
    BY <1>3 DEF TextAt
  <2>3. s[i].edit < s[j].edit
    BY <2>1 DEF Linked
  <2>4. s[i].edit \in Int /\ s[j].edit - 1 \in Int /\ s[i].edit <= s[j].edit - 1
    BY <1>1, <2>1, <2>3
  <2>5. After(s[i]) \in Edits(s[i].edit)
    BY <1>1, <2>1, AfterEdits
  <2>6. QED
    BY <2>2, <2>4, <2>5, EditsGrow
<1>4. QED
  BY <1>2, <1>3

\* Two positions of the journal have different documents.
LEMMA TextsDiffer ==
  ASSUME NEW s, NEW p \in Nat, NEW next, Linked(s, p, next), NEW text,
         NEW i \in 0 .. Len(s), NEW j \in 0 .. Len(s), i < j
  PROVE  TextAt(s, text, i) # TextAt(s, text, j)
<1>1. j \in 1 .. Len(s) /\ i \in 0 .. j - 1 /\ j # 0
  BY LinkedOps
<1>2. TextAt(s, text, i) \in Edits(s[j].edit - 1)
  BY <1>1, TextsBelow
<1>3. s[j] \in Recorded /\ s[j].edit \in Nat \ {0} /\ s[j].before \in Edits(s[j].edit - 1)
  BY <1>1, LinkedOps
<1>4. s[j].edit - 1 \in Int /\ s[j].edit - 1 < s[j].edit
  BY <1>3
<1>5. After(s[j]) \notin Edits(s[j].edit - 1)
  BY <1>3, <1>4, NewText
<1>6. TextAt(s, text, j) = After(s[j])
  BY <1>1 DEF TextAt
<1>7. QED
  BY <1>2, <1>5, <1>6

\* The document at the cursor is the live one.
LEMMA TextHere ==
  ASSUME JournalKept
  PROVE  TextAt(ops, document, iCursor) = document
<1>1. /\ AtCursor(ops, iCursor, document) /\ ops \in Seq(Recorded) /\ Len(ops) \in Nat
      /\ iCursor \in 0 .. Len(ops)
  BY JournalIs
<1>2. CASE iCursor # 0
  BY <1>1, <1>2 DEF AtCursor, TextAt
<1>3. CASE iCursor = 0 /\ ops # << >>
  <2>1. iCursor < Len(ops) /\ iCursor + 1 = 1
    BY <1>1, <1>3
  <2>2. document = ops[1].before
    BY <1>1, <2>1 DEF AtCursor
  <2>3. QED
    BY <1>3, <2>2 DEF TextAt
<1>4. CASE iCursor = 0 /\ ops = << >>
  BY <1>4 DEF TextAt
<1>5. QED
  BY <1>2, <1>3, <1>4

\* More positions hold no fewer operations of a group, and more when one is of it.
LEMMA GroupCounts ==
  ASSUME NEW s, NEW m \in Nat, NEW n \in Nat, n <= m, NEW g
  PROVE  /\ IsFiniteSet(OfGroup(s, m, g)) /\ Cardinality(OfGroup(s, m, g)) \in Nat
         /\ Cardinality(OfGroup(s, n, g)) <= Cardinality(OfGroup(s, m, g))
         /\ (\E j \in n + 1 .. m : s[j].nGroup = g) =>
              Cardinality(OfGroup(s, n, g)) < Cardinality(OfGroup(s, m, g))
<1> DEFINE A == OfGroup(s, n, g)
           B == OfGroup(s, m, g)
<1>1. B \subseteq 1 .. m /\ A \subseteq B
  BY DEF OfGroup
<1>2. IsFiniteSet(1 .. m)
  BY FS_Interval
<1>3. \A j \in n + 1 .. m : s[j].nGroup = g => j \in B /\ j \notin A
  BY DEF OfGroup
<1> HIDE DEF A, B
<1>4. IsFiniteSet(B)
  BY <1>1, <1>2, FS_Subset
<1>5. Cardinality(A) <= Cardinality(B) /\ (Cardinality(B) = Cardinality(A) => B = A) /\ IsFiniteSet(A)
  BY <1>1, <1>4, FS_Subset
<1>6. Cardinality(A) \in Nat /\ Cardinality(B) \in Nat
  BY <1>4, <1>5, FS_CardinalityType
<1>7. (\E j \in n + 1 .. m : s[j].nGroup = g) => Cardinality(A) < Cardinality(B)
  BY <1>3, <1>5, <1>6
<1>8. QED
  BY <1>4, <1>5, <1>6, <1>7 DEF A, B

\* Two positions of the journal have different tokens.
LEMMA TokensDiffer ==
  ASSUME NEW s, NEW p, NEW next, Linked(s, p, next), NEW i \in 0 .. Len(s), NEW j \in 0 .. Len(s), i < j
  PROVE  TokenAt(s, i) # TokenAt(s, j)
<1>1. j \in 1 .. Len(s) /\ j # 0 /\ i \in Nat /\ j \in Nat /\ i <= j
  BY LinkedOps
<1>2. s[j].nGroup # 0
  BY <1>1, LinkedOps
<1>3. TokenAt(s, j) = [nGroup |-> s[j].nGroup, nApplied |-> Cardinality(OfGroup(s, j, s[j].nGroup))]
  BY <1>1 DEF TokenAt
<1>4. CASE i = 0
  <2>1. TokenAt(s, i) = [nGroup |-> 0, nApplied |-> 0]
    BY <1>4 DEF TokenAt
  <2>2. TokenAt(s, i).nGroup = 0 /\ TokenAt(s, j).nGroup = s[j].nGroup
    BY <1>3, <2>1
  <2>3. QED
    BY <1>2, <2>2
<1>5. CASE i # 0 /\ s[i].nGroup # s[j].nGroup
  <2>1. TokenAt(s, i).nGroup = s[i].nGroup /\ TokenAt(s, j).nGroup = s[j].nGroup
    BY <1>3, <1>5 DEF TokenAt
  <2>2. QED
    BY <1>5, <2>1
<1>6. CASE i # 0 /\ s[i].nGroup = s[j].nGroup
  <2> DEFINE g == s[j].nGroup
  <2>1. TokenAt(s, i).nApplied = Cardinality(OfGroup(s, i, g)) /\ TokenAt(s, j).nApplied = Cardinality(OfGroup(s, j, g))
    BY <1>3, <1>6 DEF TokenAt
  <2>2. j \in i + 1 .. j /\ s[j].nGroup = g
    BY <1>1
  <2> HIDE DEF g
  <2>3. Cardinality(OfGroup(s, i, g)) < Cardinality(OfGroup(s, j, g)) /\ Cardinality(OfGroup(s, j, g)) \in Nat
        /\ Cardinality(OfGroup(s, i, g)) \in Nat
    BY <1>1, <2>2, GroupCounts
  <2>4. QED
    BY <2>1, <2>3
<1>7. QED
  BY <1>4, <1>5, <1>6

\* The count of a group does not change when older groups are evicted.
LEMMA ShiftedCounts ==
  ASSUME NEW s, NEW w, NEW n \in Nat, NEW m \in Nat, NEW g, \A i \in 1 .. m : w[i] = s[i + n],
         \A i \in 1 .. n : s[i].nGroup # g
  PROVE  Cardinality(OfGroup(w, m, g)) = Cardinality(OfGroup(s, m + n, g))
<1> DEFINE A == OfGroup(w, m, g)
           B == OfGroup(s, m + n, g)
           f == [i \in A |-> i + n]
<1>1. \A i \in A : i \in 1 .. m /\ i \in Nat /\ i + n \in B
  BY DEF OfGroup
<1>2. \A j \in B : j - n \in A /\ (j - n) + n = j
  <2>1. SUFFICES ASSUME NEW j \in B PROVE j - n \in A /\ (j - n) + n = j
    OBVIOUS
  <2>2. j \in 1 .. m + n /\ s[j].nGroup = g
    BY DEF OfGroup
  <2>3. j \notin 1 .. n
    BY <2>2
  <2>4. j - n \in 1 .. m /\ (j - n) + n = j
    BY <2>2, <2>3
  <2>5. w[j - n].nGroup = g
    BY <2>2, <2>4
  <2>6. QED
    BY <2>4, <2>5 DEF OfGroup
<1>3. IsFiniteSet(A)
  <2>1. m <= m
    OBVIOUS
  <2>2. QED
    BY <2>1, GroupCounts
<1> HIDE DEF A, B
<1>4. f \in [A -> B]
  BY <1>1
<1>5. \A a, b \in A : f[a] = f[b] => a = b
  BY <1>1
<1>6. \A j \in B : \E i \in A : f[i] = j
  BY <1>2
<1> HIDE DEF f
<1>7. f \in Bijection(A, B)
  BY <1>4, <1>5, <1>6 DEF Bijection, Injection, Surjection, IsInjective
<1>8. ExistsBijection(A, B)
  BY <1>7 DEF ExistsBijection
<1>9. QED
  BY <1>3, <1>8, FS_Bijection DEF A, B

\* A group that a step adds to or keeps open is new, or lies in the window it leaves.
Continued(g, n, c) ==
  \/ g >= nNextGroup
  \/ \E i \in n + 1 .. c : g = ops[i].nGroup
  \/ bTransactionOpen /\ g = nTransactionGroup /\ n <= iTransactionStart /\ iCursor <= c

\* A step leaves the window from n to c of the journal, with one operation after it at most.
Shortened(n, c) ==
  /\ c \in 0 .. Len(ops) /\ n \in 0 .. c /\ Len(ops') \in {c - n, c - n + 1}
  /\ \A i \in 1 .. c - n : ops'[i] = ops[i + n]
  /\ \A i \in 1 .. n, j \in n + 1 .. c : ops[i].nGroup < ops[j].nGroup
  /\ c = n => TextAt(ops', document', 0) = TextAt(ops, document, n)
  /\ Len(ops') = c - n + 1 =>
       /\ ops'[c - n + 1].edit = nPushed + 1 /\ Continued(ops'[c - n + 1].nGroup, n, c)
  /\ bTransactionOpen' => Continued(nTransactionGroup', n, c)
  /\ ~callbackFailed => c \in Boundaries(ops)

\* What the invariant says of the journal after a step.
LEMMA PrimedJournal ==
  ASSUME JournalKept'
  PROVE  /\ Linked(ops', nPushed', nNextGroup') /\ ops' \in Seq(Recorded) /\ Len(ops') \in Nat
         /\ nPushed' \in Nat /\ nNextGroup' \in Nat \ {0} /\ callbackFailed' \in BOOLEAN
         /\ \A i \in 1 .. Len(ops') :
              /\ ops'[i] \in Recorded /\ ops'[i].nGroup \in Nat \ {0} /\ ops'[i].edit \in Nat \ {0}
              /\ ops'[i].nGroup < nNextGroup' /\ ops'[i].before \in Edits(ops'[i].edit - 1)
<1>1. Linked(ops', nPushed', nNextGroup') /\ Counters'
  BY DEF JournalKept
<1>2. nPushed' \in Nat /\ nNextGroup' \in Nat \ {0} /\ callbackFailed' \in BOOLEAN
  BY <1>1 DEF Counters
<1>3. QED
  BY <1>1, <1>2, LinkedOps

\* The documents stay with their operations.
LEMMA TextsShifted ==
  ASSUME JournalKept, JournalKept', NEW n, NEW c, Shortened(n, c)
  PROVE  \A i \in 0 .. c - n : TextAt(ops', document', i) = TextAt(ops, document, i + n)
<1>1. /\ Len(ops) \in Nat /\ Linked(ops, nPushed, nNextGroup) /\ ops \in Seq(Recorded)
  BY JournalIs
<1>2. /\ c \in 0 .. Len(ops) /\ n \in 0 .. c /\ c \in Nat /\ n \in Nat /\ Len(ops') \in {c - n, c - n + 1}
      /\ \A i \in 1 .. c - n : ops'[i] = ops[i + n]
      /\ c = n => TextAt(ops', document', 0) = TextAt(ops, document, n)
  <2>1. c \in 0 .. Len(ops) /\ n \in 0 .. c /\ Len(ops') \in {c - n, c - n + 1}
    BY DEF Shortened
  <2>2. \A i \in 1 .. c - n : ops'[i] = ops[i + n]
    BY DEF Shortened
  <2>3. c = n => TextAt(ops', document', 0) = TextAt(ops, document, n)
    BY DEF Shortened
  <2>4. c \in Nat /\ n \in Nat
    BY <1>1, <2>1
  <2>5. QED
    BY <2>1, <2>2, <2>3, <2>4
<1>3. SUFFICES ASSUME NEW i \in 0 .. c - n
               PROVE  TextAt(ops', document', i) = TextAt(ops, document, i + n)
  OBVIOUS
<1>4. CASE i # 0
  <2>1. i \in 1 .. c - n /\ i + n # 0
    BY <1>2, <1>4
  <2>2. ops'[i] = ops[i + n]
    BY <1>2, <2>1
  <2>3. QED
    BY <1>4, <2>1, <2>2 DEF TextAt
<1>5. CASE i = 0 /\ c = n
  <2>1. i + n = n
    BY <1>2, <1>5
  <2>2. QED
    BY <1>2, <1>5, <2>1
<1>6. CASE i = 0 /\ c # n
  <2>1. 1 \in 1 .. c - n /\ 1 + n = n + 1 /\ Len(ops') # 0 /\ n + 1 \in 1 .. Len(ops) /\ i + n = n /\ n < Len(ops)
    BY <1>2, <1>6
  <2>2. ops'[1] = ops[n + 1] /\ ops' # << >> /\ ops # << >>
    BY <1>1, <1>2, <2>1
  <2>3. TextAt(ops', document', i) = ops[n + 1].before
    BY <1>6, <2>2 DEF TextAt
  <2>4. CASE n = 0
    <3>1. n + 1 = 1
      BY <2>4
    <3>2. TextAt(ops, document, n) = ops[1].before
      BY <2>2, <2>4 DEF TextAt
    <3>3. QED
      BY <2>1, <2>3, <3>1, <3>2
  <2>5. CASE n # 0
    <3>1. n \in 1 .. Len(ops) - 1
      BY <1>1, <1>2, <2>1, <2>5
    <3>2. ops[n + 1].before = After(ops[n])
      BY <1>1, <3>1 DEF Linked
    <3>3. TextAt(ops, document, n) = After(ops[n])
      BY <2>5 DEF TextAt
    <3>4. QED
      BY <2>1, <2>3, <3>2, <3>3
  <2>6. QED
    BY <2>4, <2>5
<1>7. QED
  BY <1>4, <1>5, <1>6

\* The tokens stay with their operations, but for the one before them all.
LEMMA TokensShifted ==
  ASSUME JournalKept, JournalKept', NEW n, NEW c, Shortened(n, c), NEW i \in 1 .. c - n
  PROVE  TokenAt(ops', i) = TokenAt(ops, i + n) /\ TokenAt(ops', i).nGroup # 0
<1>1. /\ Len(ops) \in Nat /\ \A j \in 1 .. Len(ops) : ops[j].nGroup \in Nat \ {0}
  BY JournalIs
<1>2. /\ c \in 0 .. Len(ops) /\ n \in 0 .. c /\ c \in Nat /\ n \in Nat
      /\ \A j \in 1 .. c - n : ops'[j] = ops[j + n]
      /\ \A j \in 1 .. n, k \in n + 1 .. c : ops[j].nGroup < ops[k].nGroup
  <2>1. c \in 0 .. Len(ops) /\ n \in 0 .. c /\ \A j \in 1 .. c - n : ops'[j] = ops[j + n]
    BY DEF Shortened
  <2>2. \A j \in 1 .. n, k \in n + 1 .. c : ops[j].nGroup < ops[k].nGroup
    BY DEF Shortened
  <2>3. c \in Nat /\ n \in Nat
    BY <1>1, <2>1
  <2>4. QED
    BY <2>1, <2>2, <2>3
<1> DEFINE g == ops[i + n].nGroup
<1>3. i \in Nat /\ i # 0 /\ i + n # 0 /\ i + n \in n + 1 .. c /\ i + n \in 1 .. Len(ops)
  BY <1>1, <1>2
<1>4. ops'[i].nGroup = g /\ g # 0 /\ g \in Nat
  BY <1>1, <1>2, <1>3
<1>5. \A j \in 1 .. n : ops[j].nGroup # g
  <2>1. SUFFICES ASSUME NEW j \in 1 .. n PROVE ops[j].nGroup # g
    OBVIOUS
  <2>2. j \in 1 .. Len(ops)
    BY <1>1, <1>2
  <2>3. ops[j].nGroup < g /\ ops[j].nGroup \in Nat
    BY <1>1, <1>2, <1>3, <2>2
  <2>4. QED
    BY <1>4, <2>3
<1>6. \A j \in 1 .. i : ops'[j] = ops[j + n]
  BY <1>2, <1>3
<1> HIDE DEF g
<1>7. Cardinality(OfGroup(ops', i, g)) = Cardinality(OfGroup(ops, i + n, g))
  BY <1>2, <1>3, <1>5, <1>6, ShiftedCounts
<1>8. TokenAt(ops', i) = [nGroup |-> g, nApplied |-> Cardinality(OfGroup(ops', i, g))]
  BY <1>3, <1>4 DEF TokenAt
<1>9. TokenAt(ops, i + n) = [nGroup |-> g, nApplied |-> Cardinality(OfGroup(ops, i + n, g))]
  BY <1>3 DEF TokenAt, g
<1>10. TokenAt(ops', i).nGroup = g
  BY <1>8
<1>11. QED
  BY <1>4, <1>7, <1>8, <1>9, <1>10

\* As long as no callback failed, a group that can still grow has lost none of its operations.
LEMMA GroupsContinue ==
  ASSUME JournalKept, JournalKept', NEW n, NEW c, Shortened(n, c), ~callbackFailed,
         NEW g \in Growing', g \in Nat, g < nNextGroup
  PROVE  g \in Growing /\ \A k \in 1 .. Len(ops) : ops[k].nGroup = g => k > n /\ k <= c
<1>1. /\ Len(ops) \in Nat /\ Linked(ops, nPushed, nNextGroup) /\ nNextGroup \in Nat /\ iCursor \in Nat
      /\ iTransactionStart \in Nat /\ TransactionKept
      /\ \A j \in 1 .. Len(ops) : ops[j].nGroup \in Nat \ {0}
  BY JournalIs
<1>2. /\ c \in 0 .. Len(ops) /\ n \in 0 .. c /\ c \in Nat /\ n \in Nat /\ Len(ops') \in {c - n, c - n + 1}
      /\ \A j \in 1 .. c - n : ops'[j] = ops[j + n]
      /\ \A j \in 1 .. n, k \in n + 1 .. c : ops[j].nGroup < ops[k].nGroup
      /\ Len(ops') = c - n + 1 => Continued(ops'[c - n + 1].nGroup, n, c)
      /\ bTransactionOpen' => Continued(nTransactionGroup', n, c)
      /\ c \in Boundaries(ops)
  <2>1. /\ c \in 0 .. Len(ops) /\ n \in 0 .. c /\ Len(ops') \in {c - n, c - n + 1}
        /\ \A j \in 1 .. c - n : ops'[j] = ops[j + n]
    BY DEF Shortened
  <2>2. \A j \in 1 .. n, k \in n + 1 .. c : ops[j].nGroup < ops[k].nGroup
    BY DEF Shortened
  <2>3. /\ Len(ops') = c - n + 1 => Continued(ops'[c - n + 1].nGroup, n, c)
        /\ bTransactionOpen' => Continued(nTransactionGroup', n, c)
        /\ c \in Boundaries(ops)
    BY DEF Shortened
  <2>4. c \in Nat /\ n \in Nat
    BY <1>1, <2>1
  <2>5. QED
    BY <2>1, <2>2, <2>3, <2>4
<1>3. Continued(g, n, c)
  <2>1. GroupsIn(ops') = {ops'[i].nGroup : i \in 1 .. Len(ops')}
    BY PrimedJournal, GroupsOf
  <2>2. g \in GroupsIn(ops') \/ (bTransactionOpen' /\ g = nTransactionGroup')
    BY DEF Growing
  <2>3. CASE bTransactionOpen' /\ g = nTransactionGroup'
    BY <1>2, <2>3
  <2>4. CASE g \in GroupsIn(ops')
    <3>1. PICK i \in 1 .. Len(ops') : g = ops'[i].nGroup
      BY <2>1, <2>4
    <3>2. CASE i \in 1 .. c - n
      <4>1. i + n \in n + 1 .. c /\ ops'[i] = ops[i + n]
        BY <1>2, <3>2
      <4>2. QED
        BY <3>1, <4>1 DEF Continued
    <3>3. CASE i \notin 1 .. c - n
      <4>1. i = c - n + 1 /\ Len(ops') = c - n + 1
        BY <1>2, <3>3
      <4>2. QED
        BY <1>2, <3>1, <4>1
    <3>4. QED
      BY <3>2, <3>3
  <2>5. QED
    BY <2>2, <2>3, <2>4
<1>4. CASE \E i \in n + 1 .. c : g = ops[i].nGroup
  <2>1. PICK i \in n + 1 .. c : g = ops[i].nGroup
    BY <1>4
  <2>2. i \in 1 .. Len(ops) /\ i <= c
    BY <1>1, <1>2
  <2>3. g \in Growing
    <3>1. GroupsIn(ops) = {ops[k].nGroup : k \in 1 .. Len(ops)}
      BY <1>1, GroupsOf
    <3>2. QED
      BY <2>1, <2>2, <3>1 DEF Growing
  <2>4. ASSUME NEW k \in 1 .. Len(ops), ops[k].nGroup = g PROVE k > n /\ k <= c
    <3>1. k > n
      <4>1. SUFFICES ASSUME k \in 1 .. n PROVE FALSE
        BY <1>2
      <4>2. ops[k].nGroup < ops[i].nGroup
        BY <1>2, <4>1
      <4>3. QED
        BY <2>1, <2>4, <4>2
    <3>2. k <= c
      <4>1. SUFFICES ASSUME c < k PROVE FALSE
        BY <1>2
      <4>2. ops[i].nGroup < ops[k].nGroup
        BY <1>1, <1>2, <2>2, <4>1, GroupsApart
      <4>3. QED
        BY <2>1, <2>4, <4>2
    <3>3. QED
      BY <3>1, <3>2
  <2>5. QED
    BY <2>3, <2>4
<1>5. CASE bTransactionOpen /\ g = nTransactionGroup /\ n <= iTransactionStart /\ iCursor <= c
  <2>1. g \in Growing
    BY <1>5 DEF Growing
  <2>2. \A k \in 1 .. Len(ops) : ops[k].nGroup = g => k > iTransactionStart /\ k <= iCursor
    BY <1>1, <1>5 DEF TransactionKept
  <2>3. \A k \in 1 .. Len(ops) : ops[k].nGroup = g => k > n /\ k <= c
    BY <1>1, <1>2, <1>5, <2>2
  <2>4. QED
    BY <2>1, <2>3
<1>6. ~(g >= nNextGroup)
  BY <1>1
<1>7. QED
  BY <1>3, <1>4, <1>5, <1>6 DEF Continued

\* Every step that leaves a window of the journal keeps the mark truthful: an eviction is
\* seen in the count of evicted groups, and a new operation has a new text and a new token.
LEMMA ShortenedKeeps ==
  ASSUME JournalKept, JournalKept', CleanKept, NEW n, NEW c, Shortened(n, c), UNCHANGED clean,
         nNextGroup <= nNextGroup', callbackFailed => callbackFailed',
         nPushed <= nPushed', n = 0 => nEvictedGroups' = nEvictedGroups,
         n # 0 => nEvictedGroups' > nEvictedGroups
  PROVE  CleanKept'
<1> DEFINE L == c - n
           text == saved.document
           token == cleanToken
<1>1. /\ Len(ops) \in Nat /\ nPushed \in Nat /\ nNextGroup \in Nat /\ nEvictedGroups \in Nat
      /\ callbackFailed \in BOOLEAN
  BY JournalIs DEF EvictedKept
<1>2. /\ c \in 0 .. Len(ops) /\ n \in 0 .. c /\ c \in Nat /\ n \in Nat /\ L \in Nat /\ L + n = c
      /\ Len(ops') \in {L, L + 1}
      /\ \A j \in 1 .. L : ops'[j] = ops[j + n]
      /\ Len(ops') = L + 1 => ops'[L + 1].edit = nPushed + 1
  <2>1. /\ c \in 0 .. Len(ops) /\ n \in 0 .. c /\ Len(ops') \in {L, L + 1}
        /\ \A j \in 1 .. L : ops'[j] = ops[j + n]
        /\ Len(ops') = L + 1 => ops'[L + 1].edit = nPushed + 1
    BY DEF Shortened
  <2>2. c \in Nat /\ n \in Nat /\ c - n \in Nat /\ (c - n) + n = c
    BY <1>1, <2>1
  <2>3. QED
    BY <2>1, <2>2
<1>3. /\ bCleanReachable \in BOOLEAN /\ token \in [nGroup : Nat, nApplied : Nat] /\ token.nGroup < nNextGroup
      /\ nEvictedAtClean \in 0 .. nEvictedGroups
      /\ text \in Edits(nPushed) /\ saved.nEvictedGroups \in 0 .. nEvictedGroups
  BY DEF CleanKept
<1>4. UNCHANGED <<cleanToken, nEvictedAtClean, bCleanReachable, saved>>
  BY DEF clean
<1>5. nPushed' \in Nat /\ nNextGroup' \in Nat /\ nEvictedGroups' \in Nat /\ callbackFailed' \in BOOLEAN
      /\ nEvictedGroups <= nEvictedGroups'
  <2>1. nEvictedGroups' \in Nat
    BY DEF JournalKept, EvictedKept
  <2>2. QED
    BY <1>1, <2>1, PrimedJournal
<1>6. \A i \in 0 .. L : TextAt(ops', document', i) = TextAt(ops, document, i + n)
  BY TextsShifted
<1>7. \A i \in 1 .. L : TokenAt(ops', i) = TokenAt(ops, i + n) /\ TokenAt(ops', i).nGroup # 0
  BY TokensShifted
<1>8. \A i \in 0 .. Len(ops') : i \in 0 .. L \/ (i = L + 1 /\ Len(ops') = L + 1)
  BY <1>2
<1>9. \A i \in 0 .. L : i + n \in 0 .. Len(ops) /\ (i # 0 => i \in 1 .. L)
  BY <1>1, <1>2
<1>10. Len(ops') = L + 1 => TextAt(ops', document', L + 1) # text
  <2>1. SUFFICES ASSUME Len(ops') = L + 1 PROVE After(ops'[L + 1]) # text
    BY <1>2 DEF TextAt
  <2>2. L + 1 \in 1 .. Len(ops') /\ nPushed \in Int
    BY <1>1, <1>2, <2>1
  <2>3. ops'[L + 1] \in Recorded /\ ops'[L + 1].before \in Edits(ops'[L + 1].edit - 1)
    BY <2>2, PrimedJournal
  <2>4. nPushed < ops'[L + 1].edit
    BY <1>1, <1>2, <2>1
  <2>5. After(ops'[L + 1]) \notin Edits(nPushed)
    BY <2>2, <2>3, <2>4, NewText
  <2>6. QED
    BY <1>3, <2>5
<1>11. ASSUME ~callbackFailed', token.nGroup \in Growing'
       PROVE  token.nApplied <= Cardinality(OfGroup(ops', L, token.nGroup))
  <2> DEFINE g == token.nGroup
  <2>1. ~callbackFailed /\ g \in Nat
    BY <1>3, <1>11
  <2>2. g \in Growing /\ \A k \in 1 .. Len(ops) : ops[k].nGroup = g => k > n /\ k <= c
    BY <1>3, <1>11, <2>1, GroupsContinue
  <2>3. g \in Growing => token.nApplied <= Cardinality(OfGroup(ops, Len(ops), g))
    BY <2>1 DEF CleanKept
  <2> HIDE DEF g
  <2>4. OfGroup(ops, Len(ops), g) = OfGroup(ops, c, g)
    BY <1>1, <1>2, <2>2 DEF OfGroup
  <2>5. \A k \in 1 .. n : ops[k].nGroup # g
    <3>1. \A k \in 1 .. n : k \in 1 .. Len(ops) /\ ~(k > n)
      BY <1>1, <1>2
    <3>2. QED
      BY <2>2, <3>1
  <2> HIDE DEF L
  <2>6. Cardinality(OfGroup(ops', L, g)) = Cardinality(OfGroup(ops, L + n, g))
    <3>1. L \in Nat /\ n \in Nat /\ \A i \in 1 .. L : ops'[i] = ops[i + n]
      BY <1>2
    <3>2. QED
      BY <2>5, <3>1, ShiftedCounts
  <2>7. QED
    BY <1>2, <2>2, <2>3, <2>4, <2>6 DEF g
<1> HIDE DEF L
<1>12. ASSUME saved.nEvictedGroups = nEvictedGroups', NEW i \in 0 .. Len(ops'),
              TextAt(ops', document', i) = text
       PROVE  bCleanReachable /\ token = TokenAt(ops', i) /\ (token.nGroup # 0 \/ nEvictedGroups' = nEvictedAtClean)
  <2>1. n = 0 /\ nEvictedGroups' = nEvictedGroups
    BY <1>1, <1>3, <1>5, <1>12
  <2>2. i \in 0 .. L
    BY <1>8, <1>10, <1>12
  <2>3. i + n = i /\ i \in 0 .. Len(ops)
    BY <1>2, <1>9, <2>1, <2>2
  <2>4. TextAt(ops, document, i) = text
    BY <1>6, <1>12, <2>2, <2>3
  <2>5. Marked(i)
    BY <1>12, <2>1, <2>3, <2>4 DEF CleanKept
  <2>6. TokenAt(ops', i) = TokenAt(ops, i)
    <3>1. CASE i = 0
      BY <3>1 DEF TokenAt
    <3>2. CASE i # 0
      BY <1>7, <1>9, <2>2, <2>3, <3>2
    <3>3. QED
      BY <3>1, <3>2
  <2>7. QED
    BY <2>1, <2>5, <2>6 DEF Marked
<1>13. ASSUME ~callbackFailed', NEW i \in 0 .. Len(ops'), bCleanReachable, token = TokenAt(ops', i),
              token.nGroup # 0 \/ nEvictedGroups' = nEvictedAtClean
       PROVE  TextAt(ops', document', i) = text
  <2>1. ~callbackFailed
    BY <1>13
  <2>2. \A k \in 0 .. Len(ops) : Marked(k) => TextAt(ops, document, k) = text
    BY <2>1 DEF CleanKept
  <2>3. CASE i = 0
    <3>1. token.nGroup = 0
      BY <1>13, <2>3 DEF TokenAt
    <3>2. nEvictedGroups' = nEvictedAtClean
      BY <1>13, <3>1
    <3>3. n = 0 /\ nEvictedGroups = nEvictedAtClean
      BY <1>1, <1>3, <1>5, <3>2
    <3>4. TokenAt(ops', 0) = TokenAt(ops, 0)
      BY DEF TokenAt
    <3>5. Marked(0)
      BY <1>13, <2>3, <3>3, <3>4 DEF Marked
    <3>6. 0 \in 0 .. L /\ 0 + n = 0 /\ 0 \in 0 .. Len(ops)
      BY <1>1, <1>2, <3>3
    <3>7. QED
      BY <1>6, <2>2, <2>3, <3>5, <3>6
  <2>4. CASE i \in 1 .. L
    <3>1. token = TokenAt(ops, i + n) /\ token.nGroup # 0
      BY <1>7, <1>13, <2>4
    <3>2. Marked(i + n)
      BY <1>13, <3>1 DEF Marked
    <3>3. i \in 0 .. L
      BY <1>2, <2>4
    <3>4. i + n \in 0 .. Len(ops)
      BY <1>9, <3>3
    <3>5. QED
      BY <1>6, <2>2, <3>2, <3>3, <3>4
  <2>5. CASE i = L + 1 /\ Len(ops') = L + 1
    <3> DEFINE g == ops'[i].nGroup
    <3>1. i # 0 /\ i \in 1 .. Len(ops') /\ i \in Nat /\ L <= i /\ i \in L + 1 .. i
      BY <1>2, <2>5
    <3>2. token = [nGroup |-> g, nApplied |-> Cardinality(OfGroup(ops', i, g))]
      BY <1>13, <3>1 DEF TokenAt
    <3>3. token.nGroup = g /\ token.nApplied = Cardinality(OfGroup(ops', i, g))
      BY <3>2
    <3>4. GroupsIn(ops') = {ops'[k].nGroup : k \in 1 .. Len(ops')}
      BY PrimedJournal, GroupsOf
    <3>5. token.nGroup \in Growing'
      BY <3>1, <3>3, <3>4 DEF Growing
    <3>6. token.nApplied <= Cardinality(OfGroup(ops', L, g))
      BY <1>11, <1>13, <3>3, <3>5
    <3>7. Cardinality(OfGroup(ops', L, g)) < Cardinality(OfGroup(ops', i, g))
      <4>1. \E j \in L + 1 .. i : ops'[j].nGroup = g
        BY <3>1
      <4> HIDE DEF g
      <4>2. QED
        BY <1>2, <3>1, <4>1, GroupCounts
    <3>8. Cardinality(OfGroup(ops', L, g)) \in Nat /\ token.nApplied \in Nat
      <4>1. L <= L
        BY <1>2
      <4>2. Cardinality(OfGroup(ops', L, g)) \in Nat
        BY <1>2, <4>1, GroupCounts
      <4>3. QED
        BY <1>3, <4>2
    <3>9. QED
      BY <3>3, <3>6, <3>7, <3>8
  <2>6. QED
    BY <1>8, <1>9, <2>3, <2>4, <2>5
<1>14. ASSUME ~callbackFailed', token.nGroup \in Growing'
       PROVE  token.nApplied <= Cardinality(OfGroup(ops', Len(ops'), token.nGroup))
  <2>1. token.nApplied <= Cardinality(OfGroup(ops', L, token.nGroup))
    BY <1>11, <1>14
  <2>2. L <= Len(ops') /\ Len(ops') \in Nat
    BY <1>2
  <2>3. Cardinality(OfGroup(ops', L, token.nGroup)) <= Cardinality(OfGroup(ops', Len(ops'), token.nGroup))
        /\ Cardinality(OfGroup(ops', Len(ops'), token.nGroup)) \in Nat
    BY <1>2, <2>2, GroupCounts
  <2>4. L <= L
    BY <1>2
  <2>5. Cardinality(OfGroup(ops', L, token.nGroup)) \in Nat /\ token.nApplied \in Nat
    BY <1>2, <1>3, <2>4, GroupCounts
  <2>6. QED
    BY <2>1, <2>3, <2>5
<1>15. nEvictedAtClean \in 0 .. nEvictedGroups' /\ saved.nEvictedGroups \in 0 .. nEvictedGroups'
       /\ token.nGroup < nNextGroup' /\ text \in Edits(nPushed')
  <2>1. text \in Edits(nPushed')
    <3>1. nPushed \in Int /\ nPushed' \in Int
      BY <1>1, <1>5
    <3>2. QED
      BY <1>3, <3>1, EditsGrow
  <2>2. QED
    BY <1>1, <1>3, <1>5, <2>1
<1>16. \A i : Marked(i)' <=> /\ bCleanReachable /\ token = TokenAt(ops', i)
                             /\ token.nGroup # 0 \/ nEvictedGroups' = nEvictedAtClean
  BY <1>4 DEF Marked
<1>17. saved.nEvictedGroups = nEvictedGroups' =>
         \A i \in 0 .. Len(ops') : TextAt(ops', document', i) = text => Marked(i)'
  BY <1>12, <1>16
<1>18. ~callbackFailed' => \A i \in 0 .. Len(ops') : Marked(i)' => TextAt(ops', document', i) = text
  BY <1>13, <1>16
<1>19. ~callbackFailed' => (token.nGroup \in Growing' =>
         token.nApplied <= Cardinality(OfGroup(ops', Len(ops'), token.nGroup)))
  BY <1>14
<1> HIDE DEF token, text
<1>20. cleanToken' = token /\ saved'.document = text /\ saved'.nEvictedGroups = saved.nEvictedGroups
       /\ nEvictedAtClean' = nEvictedAtClean /\ bCleanReachable' \in BOOLEAN
  BY <1>3, <1>4 DEF token, text
<1>21. token \in [nGroup : Nat, nApplied : Nat]
  BY <1>3
<1>22. QED
  BY <1>15, <1>17, <1>18, <1>19, <1>20, <1>21 DEF CleanKept

\* A push leaves such a window, whether it succeeds or fails.
LEMMA RoomCleans ==
  ASSUME JournalKept, NEW key, NEW cb, GroupFits(key, cb), Evict(Evictions(cb)),
         Len(ops') \in {iCursor - Evictions(cb), iCursor - Evictions(cb) + 1},
         \A i \in 1 .. iCursor - Evictions(cb) : ops'[i] = Drop(Applied, Evictions(cb))[i],
         iCursor = Evictions(cb) => TextAt(ops', document', 0) = document,
         Len(ops') = iCursor - Evictions(cb) + 1 =>
           /\ ops'[iCursor - Evictions(cb) + 1].edit = nPushed + 1
           /\ ops'[iCursor - Evictions(cb) + 1].nGroup = PushGroup(key),
         UNCHANGED <<bTransactionOpen, nTransactionGroup>>
  PROVE  Shortened(Evictions(cb), iCursor)
<1> DEFINE n == Evictions(cb)
           g == PushGroup(key)
<1>1. /\ n \in 0 .. iCursor /\ n <= ActiveStart(key)
      /\ \A i \in 1 .. iCursor - n : Drop(Applied, n)[i] = ops[i + n]
      /\ bTransactionOpen => n <= iTransactionStart
      /\ \A i \in 1 .. n, j \in n + 1 .. iCursor : ops[i].nGroup < ops[j].nGroup
  BY RoomIsMade
<1> HIDE DEF n
<1>2. /\ iCursor \in 0 .. Len(ops) /\ iCursor \in Nat /\ nNextGroup \in Nat
      /\ \A i \in 1 .. Len(ops) : ops[i].nGroup \in Nat
  BY JournalIs
<1>3. bTransactionOpen => Continued(nTransactionGroup, n, iCursor)
  BY <1>1, <1>2 DEF Continued
<1>4. Continued(g, n, iCursor)
  <2>1. /\ g \in Nat /\ g <= nNextGroup /\ (bTransactionOpen => g = nTransactionGroup)
        /\ \A i \in 1 .. ActiveStart(key) : ops[i].nGroup < g
        /\ g # nNextGroup /\ ~bTransactionOpen => iCursor # 0 /\ g = ops[iCursor].nGroup
    BY PushGroups
  <2>2. CASE bTransactionOpen
    BY <1>3, <2>1, <2>2
  <2>3. CASE g = nNextGroup
    BY <1>2, <2>1, <2>3 DEF Continued
  <2>4. CASE g # nNextGroup /\ ~bTransactionOpen
    <3>1. iCursor # 0 /\ g = ops[iCursor].nGroup
      BY <2>1, <2>4
    <3>2. ActiveStart(key) \in 0 .. iCursor
      BY ActiveStarts
    <3>3. ActiveStart(key) # iCursor
      <4>1. SUFFICES ASSUME ActiveStart(key) = iCursor PROVE FALSE
        OBVIOUS
      <4>2. iCursor \in 1 .. ActiveStart(key)
        BY <1>2, <3>1, <4>1
      <4>3. ops[iCursor].nGroup < g
        BY <2>1, <4>2
      <4>4. QED
        BY <2>1, <3>1, <4>3
    <3>4. iCursor \in n + 1 .. iCursor
      BY <1>1, <1>2, <3>2, <3>3
    <3>5. QED
      BY <3>1, <3>4 DEF Continued
  <2>5. QED
    BY <2>2, <2>3, <2>4
<1>5. \A i \in 1 .. iCursor - n : ops'[i] = ops[i + n]
  BY <1>1 DEF n
<1>6. iCursor = n => TextAt(ops', document', 0) = TextAt(ops, document, n)
  BY TextHere DEF n
<1>7. Len(ops') = iCursor - n + 1 =>
        ops'[iCursor - n + 1].edit = nPushed + 1 /\ Continued(ops'[iCursor - n + 1].nGroup, n, iCursor)
  BY <1>4 DEF n
<1>8. bTransactionOpen' => Continued(nTransactionGroup', n, iCursor)
  BY <1>3
<1>9. ~callbackFailed => iCursor \in Boundaries(ops)
  BY DEF JournalKept
<1>10. Len(ops') \in {iCursor - n, iCursor - n + 1}
  BY DEF n
<1>11. Shortened(n, iCursor)
  BY <1>1, <1>2, <1>5, <1>6, <1>7, <1>8, <1>9, <1>10 DEF Shortened
<1>12. QED
  BY <1>11 DEF n

\* Recording an operation keeps the mark truthful.
LEMMA PushCleans ==
  ASSUME JournalKept, CleanKept, UNCHANGED clean, NEW key \in MergeKeys \union {NoKey}, NEW cb \in Costs,
         UndoRedo_Push(key, cb)
  PROVE  CleanKept'
<1> DEFINE n == Evictions(cb)
           w == Drop(Applied, n)
           g == PushGroup(key)
           L == iCursor - n
           op == [edit |-> nPushed + 1, nMergeKey |-> key, nGroup |-> g, cb |-> cb, before |-> document]
<1>1. /\ GroupFits(key, cb) /\ Evict(n)
      /\ nNextGroup' = IF g = nNextGroup THEN nNextGroup + 1 ELSE nNextGroup
      /\ ops' = Append(w, op) /\ nPushed' = nPushed + 1
      /\ UNCHANGED <<bTransactionOpen, nTransactionGroup, callbackFailed>>
  BY DEF UndoRedo_Push, PushGroup
<1>2. JournalKept'
  BY PushKeeps
<1>3. /\ n \in 0 .. iCursor /\ Linked(w, nPushed, nNextGroup) /\ Len(w) = L
      /\ n = 0 => nEvictedGroups' = nEvictedGroups
      /\ n # 0 => nEvictedGroups' > nEvictedGroups
  BY <1>1, RoomIsMade
<1>4. nPushed \in Nat /\ nNextGroup \in Nat /\ iCursor \in Nat
  BY JournalIs
<1> HIDE DEF n, w, g
<1>5. op.edit = nPushed + 1 /\ op.nGroup = g /\ op.before = document
  OBVIOUS
<1> HIDE DEF op
<1>6. Len(ops') = L + 1 /\ ops'[L + 1] = op /\ \A i \in 1 .. L : ops'[i] = w[i]
  <2>1. w \in Seq(Recorded)
    BY <1>3 DEF Linked
  <2> DEFINE S == Recorded \union {op}
  <2>2. w \in Seq(S) /\ op \in S
    <3>1. Recorded \subseteq S
      OBVIOUS
    <3> HIDE DEF S
    <3>2. w \in Seq(S)
      BY <2>1, <3>1, SeqMonotonic
    <3>3. QED
      BY <3>2 DEF S
  <2> HIDE DEF S
  <2>3. QED
    BY <1>1, <1>3, <2>2, AppendProperties
<1>7. iCursor = n => TextAt(ops', document', 0) = document
  <2>1. SUFFICES ASSUME iCursor = n PROVE TextAt(ops', document', 0) = document
    OBVIOUS
  <2>2. L + 1 = 1 /\ ops' # << >>
    BY <1>4, <1>6, <2>1
  <2>3. QED
    BY <1>5, <1>6, <2>2 DEF TextAt
<1>8. Shortened(n, iCursor)
  BY <1>1, <1>5, <1>6, <1>7, RoomCleans DEF n, w, g
<1>9. nNextGroup <= nNextGroup' /\ nPushed <= nPushed' /\ (callbackFailed => callbackFailed')
  BY <1>1, <1>4
<1>10. QED
  BY <1>2, <1>3, <1>8, <1>9, ShortenedKeeps

\* A push that fails keeps the mark truthful.
LEMMA PushFailsCleans ==
  ASSUME JournalKept, CleanKept, UNCHANGED clean, NEW key, NEW cb, PushFails(key, cb)
  PROVE  CleanKept'
<1> DEFINE n == Evictions(cb)
           w == Drop(Applied, n)
<1>1. /\ GroupFits(key, cb) /\ Evict(n) /\ ops' = w
      /\ UNCHANGED <<nNextGroup, bTransactionOpen, nTransactionGroup, document, nPushed, callbackFailed>>
  BY DEF PushFails
<1>2. JournalKept'
  BY PushFailsKeeps
<1>3. /\ n \in 0 .. iCursor /\ Linked(w, nPushed, nNextGroup) /\ Len(w) = iCursor - n
      /\ n = 0 => nEvictedGroups' = nEvictedGroups
      /\ n # 0 => nEvictedGroups' > nEvictedGroups
  BY <1>1, RoomIsMade
<1>4. nPushed \in Nat /\ nNextGroup \in Nat /\ iCursor \in Nat
  BY JournalIs
<1> HIDE DEF n, w
<1>5. iCursor = n => TextAt(ops', document', 0) = document
  <2>1. SUFFICES ASSUME iCursor = n PROVE TextAt(ops', document', 0) = document
    OBVIOUS
  <2>2. w \in Seq(Recorded) /\ Len(w) = 0
    BY <1>3, <1>4, <2>1 DEF Linked
  <2>3. ops' = << >>
    BY <1>1, <2>2, EmptySeq
  <2>4. QED
    BY <1>1, <2>3 DEF TextAt
<1>6. Len(ops') = iCursor - n /\ Len(ops') # iCursor - n + 1
  BY <1>1, <1>3, <1>4
<1>7. Shortened(n, iCursor)
  BY <1>1, <1>5, <1>6, RoomCleans DEF n, w
<1>8. nNextGroup <= nNextGroup' /\ nPushed <= nPushed' /\ (callbackFailed => callbackFailed')
  BY <1>1, <1>4
<1>9. QED
  BY <1>2, <1>3, <1>7, <1>8, ShortenedKeeps

\* A prefix is such a window.
LEMMA PrefixShortens ==
  ASSUME JournalKept, NEW c \in 0 .. Len(ops), ops' = SubSeq(ops, 1, c), AtCursor(ops, c, document'),
         ~callbackFailed => c \in Boundaries(ops), ~bTransactionOpen',
         ops = << >> => document' = document
  PROVE  Shortened(0, c)
<1>1. /\ Linked(ops, nPushed, nNextGroup) /\ EvictedKept(evicted, nEvictedGroups, ops, nNextGroup)
      /\ Len(ops) \in Nat /\ ops \in Seq(Recorded)
  BY JournalIs
<1>2. Len(ops') = c /\ \A i \in 1 .. c : ops'[i] = ops[i]
  BY <1>1, PrefixKept
<1>3. /\ c \in Nat /\ 0 \in 0 .. c /\ c - 0 = c /\ \A i \in 1 .. c : i + 0 = i
      /\ Len(ops') # c - 0 + 1 /\ 1 .. 0 = {}
  BY <1>1, <1>2
<1>4. c = 0 => TextAt(ops', document', 0) = TextAt(ops, document, 0)
  <2>1. SUFFICES ASSUME c = 0 PROVE TextAt(ops', document', 0) = TextAt(ops, document, 0)
    OBVIOUS
  <2>2. ops' \in Seq(Recorded)
    BY <1>1, <1>3, WindowOf
  <2>3. ops' = << >>
    BY <1>2, <2>1, <2>2, EmptySeq
  <2>4. TextAt(ops', document', 0) = document'
    BY <2>3 DEF TextAt
  <2>5. CASE ops # << >>
    <3>1. 0 < Len(ops) /\ 0 + 1 = 1
      BY <1>1, <2>5, EmptySeq
    <3>2. document' = ops[1].before
      BY <2>1, <3>1 DEF AtCursor
    <3>3. QED
      BY <2>4, <2>5, <3>2 DEF TextAt
  <2>6. CASE ops = << >>
    BY <2>4, <2>6 DEF TextAt
  <2>7. QED
    BY <2>5, <2>6
<1>5. QED
  BY <1>2, <1>3, <1>4 DEF Shortened

\* The redo operations go, with the mark when it was on one of them.
LEMMA DiscardRedoCleans ==
  ASSUME JournalKept, CleanKept, UNCHANGED clean, UndoRedo_DiscardRedo
  PROVE  CleanKept'
<1>1. /\ ~bTransactionOpen' /\ ops' = SubSeq(ops, 1, iCursor)
      /\ UNCHANGED <<nNextGroup, nEvictedGroups, document, nPushed, callbackFailed>>
  BY DEF UndoRedo_DiscardRedo, transaction, Applied
<1>2. JournalKept'
  BY DiscardRedoKeeps
<1>3. AtCursor(ops, iCursor, document) /\ iCursor \in 0 .. Len(ops) /\ nPushed \in Nat /\ nNextGroup \in Nat
  BY JournalIs
<1>4. ~callbackFailed => iCursor \in Boundaries(ops)
  BY DEF JournalKept
<1>5. Shortened(0, iCursor)
  BY <1>1, <1>3, <1>4, PrefixShortens
<1>6. nNextGroup <= nNextGroup' /\ nPushed <= nPushed' /\ (callbackFailed => callbackFailed')
  BY <1>1, <1>3
<1>7. QED
  BY <1>1, <1>2, <1>5, <1>6, ShortenedKeeps

\* A cancelled transaction goes back to a position that keeps its token and its text.
LEMMA CancelCleans ==
  ASSUME JournalKept, CleanKept, UNCHANGED clean, UndoRedo_CancelTransaction
  PROVE  CleanKept'
<1> DEFINE t == iTransactionStart
<1>1. /\ bTransactionOpen /\ ~bTransactionOpen' /\ ops' = SubSeq(ops, 1, t) /\ document' = documentAtBegin
      /\ UNCHANGED <<nNextGroup, nEvictedGroups, nPushed, callbackFailed>>
  BY DEF UndoRedo_CancelTransaction, TransactionEnds
<1>2. JournalKept'
  BY CancelKeeps
<1>3. /\ Linked(ops, nPushed, nNextGroup) /\ AtCursor(ops, iCursor, document) /\ TransactionKept
      /\ Len(ops) \in Nat /\ iCursor \in 0 .. Len(ops) /\ iCursor \in Nat /\ t \in 0 .. iCursor /\ t \in Nat
      /\ t \in 0 .. Len(ops) /\ nPushed \in Nat /\ nNextGroup \in Nat
  BY JournalIs
<1>4. /\ documentAtBegin = IF t = iCursor THEN document ELSE ops[t + 1].before
      /\ \A i \in 1 .. Len(ops) : ops[i].nGroup = nTransactionGroup <=> i > t /\ i <= iCursor
  BY <1>1, <1>3 DEF TransactionKept
<1>5. CASE t = iCursor
  <2>1. AtCursor(ops, t, document') /\ document' = document
    BY <1>1, <1>3, <1>4, <1>5
  <2>2. ~callbackFailed => t \in Boundaries(ops)
    BY <1>5 DEF JournalKept
  <2>3. Shortened(0, t)
    BY <1>1, <1>3, <2>1, <2>2, PrefixShortens
  <2>4. nNextGroup <= nNextGroup' /\ nPushed <= nPushed' /\ (callbackFailed => callbackFailed')
    BY <1>1, <1>3
  <2>5. QED
    BY <1>1, <1>2, <2>3, <2>4, ShortenedKeeps
<1>6. CASE t # iCursor
  <2>1. t < Len(ops) /\ t + 1 \in 1 .. Len(ops) /\ t + 1 > t /\ t + 1 <= iCursor /\ ops # << >>
    BY <1>3, <1>6
  <2>2. document' = ops[t + 1].before
    BY <1>1, <1>4, <1>6
  <2>3. AtCursor(ops, t, document')
    BY <1>3, <2>1, <2>2, CursorBefore
  <2>4. t \in Boundaries(ops)
    <3>1. ops[t + 1].nGroup = nTransactionGroup
      BY <1>4, <2>1
    <3>2. t # 0 => t \in 1 .. Len(ops) /\ ~(t > t)
      BY <1>3, <2>1
    <3>3. t # 0 => ops[t].nGroup # nTransactionGroup
      BY <1>4, <3>2
    <3>4. QED
      BY <1>3, <3>1, <3>3 DEF Boundaries
  <2>5. Shortened(0, t)
    BY <1>1, <1>3, <2>1, <2>3, <2>4, PrefixShortens
  <2>6. nNextGroup <= nNextGroup' /\ nPushed <= nPushed' /\ (callbackFailed => callbackFailed')
    BY <1>1, <1>3
  <2>7. QED
    BY <1>1, <1>2, <2>5, <2>6, ShortenedKeeps
<1>7. QED
  BY <1>5, <1>6

\* Moving the cursor or a transaction changes nothing at any position.
LEMMA SameJournalCleans ==
  ASSUME JournalKept, JournalKept', CleanKept, UNCHANGED <<clean, ops, nEvictedGroups, nPushed>>,
         ops = << >> => document' = document, nNextGroup <= nNextGroup', callbackFailed => callbackFailed',
         bTransactionOpen' => \/ nTransactionGroup' >= nNextGroup
                              \/ bTransactionOpen /\ nTransactionGroup' = nTransactionGroup
  PROVE  CleanKept'
<1> DEFINE c == Len(ops)
<1>1. /\ c \in Nat /\ iCursor \in 0 .. c /\ iTransactionStart \in Nat /\ nPushed \in Nat
      /\ ops \in Seq(Recorded)
  BY JournalIs
<1>2. /\ c \in 0 .. Len(ops) /\ 0 \in 0 .. c /\ Len(ops') \in {c - 0, c - 0 + 1} /\ Len(ops') # c - 0 + 1
  BY <1>1
<1>3. \A i \in 1 .. c - 0 : ops'[i] = ops[i + 0]
  BY <1>1
<1>4. c = 0 => TextAt(ops', document', 0) = TextAt(ops, document, 0)
  <2>1. c = 0 => ops = << >>
    BY <1>1, EmptySeq
  <2>2. QED
    BY <2>1 DEF TextAt
<1>5. bTransactionOpen' => Continued(nTransactionGroup', 0, c)
  BY <1>1 DEF Continued
<1>6. c \in Boundaries(ops)
  BY <1>1 DEF Boundaries
<1>7. \A i \in 1 .. 0, j \in 0 + 1 .. c : ops[i].nGroup < ops[j].nGroup
  OBVIOUS
<1>8. Shortened(0, c)
  BY <1>2, <1>3, <1>4, <1>5, <1>6, <1>7 DEF Shortened
<1>9. nPushed <= nPushed' /\ nEvictedGroups' = nEvictedGroups
  BY <1>1
<1>10. QED
  BY <1>8, <1>9, ShortenedKeeps

\* A save marks the position of the cursor, and no other.
LEMMA MarkCleans ==
  ASSUME JournalKept, CleanKept, EditorHistory_MarkClean
  PROVE  CleanKept'
<1> DEFINE t == TokenAt(ops, iCursor)
<1>1. /\ cleanToken' = StateToken /\ nEvictedAtClean' = nEvictedGroups /\ bCleanReachable' = TRUE
      /\ saved' = [document |-> document, nEvictedGroups |-> nEvictedGroups]
      /\ UNCHANGED <<ops, nEvictedGroups, document, nPushed, nNextGroup, callbackFailed, bTransactionOpen,
                     nTransactionGroup>>
  BY DEF EditorHistory_MarkClean, uvars, transaction
<1>2. /\ Linked(ops, nPushed, nNextGroup) /\ nPushed \in Nat /\ nNextGroup \in Nat \ {0} /\ Len(ops) \in Nat
      /\ document \in Edits(nPushed) /\ nEvictedGroups \in Nat /\ iCursor \in 0 .. Len(ops) /\ iCursor \in Nat
      /\ \A i \in 1 .. Len(ops) : ops[i].nGroup \in Nat \ {0} /\ ops[i].nGroup < nNextGroup
  BY JournalIs DEF EvictedKept
<1>3. StateToken = t
  BY DEF StateToken, TokenAt, OfGroup
<1>4. \A g : /\ Cardinality(OfGroup(ops, iCursor, g)) <= Cardinality(OfGroup(ops, Len(ops), g))
             /\ Cardinality(OfGroup(ops, iCursor, g)) \in Nat /\ Cardinality(OfGroup(ops, Len(ops), g)) \in Nat
  <2>1. iCursor <= Len(ops) /\ iCursor <= iCursor /\ Len(ops) <= Len(ops)
    BY <1>2
  <2>2. QED
    BY <1>2, <2>1, GroupCounts
<1>5. /\ t \in [nGroup : Nat, nApplied : Nat] /\ t.nGroup < nNextGroup
      /\ t.nApplied <= Cardinality(OfGroup(ops, Len(ops), t.nGroup))
  <2>1. CASE iCursor = 0
    <3>1. t = [nGroup |-> 0, nApplied |-> 0]
      BY <2>1 DEF TokenAt
    <3> HIDE DEF t
    <3>2. t \in [nGroup : Nat, nApplied : Nat] /\ t.nGroup = 0 /\ t.nApplied = 0
      BY <3>1
    <3>3. QED
      BY <1>2, <1>4, <3>2
  <2>2. CASE iCursor # 0
    <3> DEFINE g == ops[iCursor].nGroup
               k == Cardinality(OfGroup(ops, iCursor, g))
    <3>1. t = [nGroup |-> g, nApplied |-> k]
      BY <2>2 DEF TokenAt
    <3>2. iCursor \in 1 .. Len(ops)
      BY <1>2, <2>2
    <3>3. g \in Nat /\ g < nNextGroup
      BY <1>2, <3>2
    <3>4. k \in Nat /\ k <= Cardinality(OfGroup(ops, Len(ops), g))
      BY <1>4
    <3> HIDE DEF t, g, k
    <3>5. t \in [nGroup : Nat, nApplied : Nat] /\ t.nGroup = g /\ t.nApplied = k
      BY <3>1, <3>3, <3>4
    <3>6. QED
      BY <3>3, <3>4, <3>5
  <2>3. QED
    BY <2>1, <2>2
<1>6. \A i \in 0 .. Len(ops) : TextAt(ops, document, i) = document => i = iCursor
  <2>1. SUFFICES ASSUME NEW i \in 0 .. Len(ops), i # iCursor
                 PROVE  TextAt(ops, document, i) # TextAt(ops, document, iCursor)
    BY TextHere
  <2>2. i < iCursor \/ iCursor < i
    BY <1>2, <2>1
  <2>3. QED
    BY <1>2, <2>2, TextsDiffer
<1>7. \A i \in 0 .. Len(ops) : t = TokenAt(ops, i) => i = iCursor
  <2>1. SUFFICES ASSUME NEW i \in 0 .. Len(ops), i # iCursor
                 PROVE  t # TokenAt(ops, i)
    OBVIOUS
  <2>2. i < iCursor \/ iCursor < i
    BY <1>2, <2>1
  <2>3. QED
    BY <1>2, <2>2, TokensDiffer
<1> HIDE DEF t
<1>8. cleanToken' = t /\ saved'.document = document /\ saved'.nEvictedGroups = nEvictedGroups
  BY <1>1, <1>3
<1>9. \A i : Marked(i)' <=> t = TokenAt(ops, i)
  BY <1>1, <1>8 DEF Marked
<1>10. \A i \in 0 .. Len(ops) : TextAt(ops', document', i) = document => Marked(i)'
  BY <1>1, <1>6, <1>9 DEF t
<1>11. \A i \in 0 .. Len(ops) : Marked(i)' => TextAt(ops', document', i) = document
  BY <1>1, <1>7, <1>9, TextHere
<1>12. nEvictedGroups \in 0 .. nEvictedGroups' /\ bCleanReachable' \in BOOLEAN /\ Len(ops') = Len(ops)
  BY <1>1, <1>2
<1>13. QED
  BY <1>1, <1>2, <1>5, <1>8, <1>10, <1>11, <1>12 DEF CleanKept

\* A cleared history keeps the mark when the document was clean, and has no other way to it.
LEMMA ClearCleans ==
  ASSUME JournalKept, CleanKept, EditorHistory_Clear
  PROVE  CleanKept'
<1>1. /\ cleanToken' = [nGroup |-> 0, nApplied |-> 0] /\ nEvictedAtClean' = nEvictedGroups
      /\ bCleanReachable' = EditorHistory_IsClean /\ ops' = << >>
      /\ UNCHANGED <<saved, nEvictedGroups, document, nPushed, nNextGroup, callbackFailed>>
  BY DEF EditorHistory_Clear, UndoRedo_Clear, MarkSurvivesClear
<1>2. /\ nPushed \in Nat /\ nNextGroup \in Nat \ {0} /\ nEvictedGroups \in Nat /\ iCursor \in 0 .. Len(ops)
      /\ callbackFailed \in BOOLEAN
  BY JournalIs DEF EvictedKept
<1>3. EditorHistory_IsClean <=> Marked(iCursor)
  BY DEF EditorHistory_IsClean, StateToken, Marked, TokenAt, OfGroup
<1>4. saved.nEvictedGroups = nEvictedGroups /\ document = saved.document => Marked(iCursor)
  BY <1>2, TextHere DEF CleanKept
<1>5. ~callbackFailed /\ Marked(iCursor) => document = saved.document
  BY <1>2, TextHere DEF CleanKept
<1>6. bCleanReachable' \in BOOLEAN
  BY <1>1 DEF EditorHistory_IsClean
<1>7. bCleanReachable' <=> Marked(iCursor)
  BY <1>1, <1>3
<1>8. Len(ops') = 0 /\ TokenAt(ops', 0) = [nGroup |-> 0, nApplied |-> 0] /\ TextAt(ops', document', 0) = document
  BY <1>1 DEF TokenAt, TextAt
<1>9. Marked(0)' <=> Marked(iCursor)
  BY <1>1, <1>7, <1>8 DEF Marked
<1>10. \A i \in 0 .. Len(ops') : i = 0
  BY <1>8
<1>11. saved'.nEvictedGroups = nEvictedGroups' =>
         \A i \in 0 .. Len(ops') : TextAt(ops', document', i) = saved'.document => Marked(i)'
  BY <1>1, <1>4, <1>8, <1>9, <1>10
<1>12. ~callbackFailed' => \A i \in 0 .. Len(ops') : Marked(i)' => TextAt(ops', document', i) = saved'.document
  BY <1>1, <1>5, <1>8, <1>9, <1>10
<1>13. cleanToken' \in [nGroup : Nat, nApplied : Nat] /\ cleanToken'.nGroup = 0 /\ cleanToken'.nApplied = 0
  BY <1>1
<1>14. cleanToken'.nApplied <= Cardinality(OfGroup(ops', Len(ops'), cleanToken'.nGroup))
  <2>1. 0 \in Nat /\ 0 <= 0
    OBVIOUS
  <2>2. Cardinality(OfGroup(ops', 0, 0)) \in Nat
    BY <2>1, GroupCounts
  <2>3. QED
    BY <1>8, <1>13, <2>2
<1>15. nEvictedAtClean' \in 0 .. nEvictedGroups' /\ cleanToken'.nGroup < nNextGroup'
  BY <1>1, <1>2, <1>13
<1>16. saved'.document \in Edits(nPushed') /\ saved'.nEvictedGroups \in 0 .. nEvictedGroups'
  BY <1>1 DEF CleanKept
<1>17. QED
  BY <1>6, <1>11, <1>12, <1>13, <1>14, <1>15, <1>16 DEF CleanKept

\* A new history is clean.
LEMMA CleanStarts == ASSUME Init PROVE CleanKept
<1>1. /\ ops = << >> /\ nNextGroup = 1 /\ nEvictedGroups = 0 /\ document = << >> /\ nPushed = 0
      /\ cleanToken = [nGroup |-> 0, nApplied |-> 0] /\ nEvictedAtClean = 0 /\ bCleanReachable = TRUE
      /\ saved = [document |-> document, nEvictedGroups |-> 0]
  BY DEF Init, UInit
<1>2. Len(ops) = 0 /\ \A i \in 0 .. Len(ops) : i = 0
  BY <1>1
<1>3. TextAt(ops, document, 0) = document /\ TokenAt(ops, 0) = [nGroup |-> 0, nApplied |-> 0]
  BY <1>1 DEF TextAt, TokenAt
<1>4. saved.document = document /\ saved.nEvictedGroups = 0 /\ document \in Edits(nPushed)
  BY <1>1 DEF Edits
<1>5. Marked(0)
  BY <1>1, <1>3 DEF Marked
<1>6. cleanToken \in [nGroup : Nat, nApplied : Nat] /\ cleanToken.nGroup = 0 /\ cleanToken.nApplied = 0
  BY <1>1
<1>7. cleanToken.nApplied <= Cardinality(OfGroup(ops, Len(ops), cleanToken.nGroup))
  <2>1. 0 \in Nat /\ 0 <= 0
    OBVIOUS
  <2>2. Cardinality(OfGroup(ops, 0, 0)) \in Nat
    BY <2>1, GroupCounts
  <2>3. QED
    BY <1>2, <1>6, <2>2
<1>8. /\ bCleanReachable \in BOOLEAN /\ cleanToken.nGroup < nNextGroup
      /\ nEvictedAtClean \in 0 .. nEvictedGroups /\ saved.nEvictedGroups \in 0 .. nEvictedGroups
  BY <1>1, <1>4, <1>6
<1>9. QED
  BY <1>2, <1>3, <1>4, <1>5, <1>6, <1>7, <1>8 DEF CleanKept

\* Every step keeps the invariant.
LEMMA CleanSteps == ASSUME JournalKept, CleanKept, [Next]_vars PROVE CleanKept'
<1>1. JournalKept'
  BY JournalSteps
<1>2. nNextGroup \in Nat /\ nPushed \in Nat
  BY JournalIs
<1>3. CASE EditorHistory_MarkClean
  BY <1>3, MarkCleans
<1>4. CASE EditorHistory_Clear
  BY <1>4, ClearCleans
<1>5. CASE UNCHANGED vars
  <2>1. UNCHANGED <<clean, ops, nEvictedGroups, nPushed, document, nNextGroup, callbackFailed, bTransactionOpen,
                    nTransactionGroup>>
    BY <1>5 DEF vars, uvars, transaction
  <2>2. QED
    BY <1>1, <1>2, <2>1, SameJournalCleans
<1>6. CASE UStep /\ UNCHANGED clean
  <2>1. CASE \E key \in MergeKeys \union {NoKey}, cb \in Costs : UndoRedo_Push(key, cb) \/ PushFails(key, cb)
    BY <1>6, <2>1, PushCleans, PushFailsCleans
  <2>2. CASE UndoRedo_DiscardRedo
    BY <1>6, <2>2, DiscardRedoCleans
  <2>3. CASE UndoRedo_BeginTransaction
    <3>1. /\ nTransactionGroup' = nNextGroup /\ nNextGroup' = nNextGroup + 1
          /\ UNCHANGED <<ops, nEvictedGroups, document, nPushed, callbackFailed>>
      BY <2>3 DEF UndoRedo_BeginTransaction
    <3>2. nNextGroup <= nNextGroup' /\ nTransactionGroup' >= nNextGroup
      BY <1>2, <3>1
    <3>3. QED
      BY <1>1, <1>6, <3>1, <3>2, SameJournalCleans
  <2>4. CASE UndoRedo_CommitTransaction
    <3>1. /\ ~bTransactionOpen'
          /\ UNCHANGED <<ops, nEvictedGroups, document, nPushed, callbackFailed, nNextGroup>>
      BY <2>4 DEF UndoRedo_CommitTransaction, TransactionEnds
    <3>2. nNextGroup <= nNextGroup'
      BY <1>2, <3>1
    <3>3. QED
      BY <1>1, <1>6, <3>1, <3>2, SameJournalCleans
  <2>5. CASE UndoRedo_CancelTransaction
    BY <1>6, <2>5, CancelCleans
  <2>6. CASE UndoRedo_Undo
    <3>1. /\ ~bTransactionOpen' /\ iCursor # 0 /\ (callbackFailed => callbackFailed')
          /\ UNCHANGED <<ops, nEvictedGroups, nPushed, nNextGroup>>
      BY <2>6 DEF UndoRedo_Undo, transaction
    <3>2. ops # << >> /\ nNextGroup <= nNextGroup'
      BY <1>2, <3>1, JournalIs
    <3>3. QED
      BY <1>1, <1>6, <3>1, <3>2, SameJournalCleans
  <2>7. CASE UndoRedo_Redo
    <3>1. /\ ~bTransactionOpen' /\ iCursor < Len(ops) /\ (callbackFailed => callbackFailed')
          /\ UNCHANGED <<ops, nEvictedGroups, nPushed, nNextGroup>>
      BY <2>7 DEF UndoRedo_Redo, transaction
    <3>2. ops # << >> /\ nNextGroup <= nNextGroup'
      BY <1>2, <3>1, JournalIs
    <3>3. QED
      BY <1>1, <1>6, <3>1, <3>2, SameJournalCleans
  <2>8. QED
    BY <1>6, <2>1, <2>2, <2>3, <2>4, <2>5, <2>6, <2>7 DEF UStep
<1>7. QED
  BY <1>3, <1>4, <1>5, <1>6 DEF Next

\* At the cursor it says what the editor shows.
LEMMA CleanKeptTells == ASSUME JournalKept, CleanKept PROVE CleanTellsSaved
<1>1. EditorHistory_IsClean <=> Marked(iCursor)
  BY DEF EditorHistory_IsClean, StateToken, Marked, TokenAt, OfGroup
<1>2. TextAt(ops, document, iCursor) = document /\ iCursor \in 0 .. Len(ops)
  BY TextHere, JournalIs
<1>3. CleanMeansSaved
  BY <1>1, <1>2 DEF CleanKept, CleanMeansSaved, CleanMatchesFile
<1>4. SavedStateRecognised
  BY <1>1, <1>2 DEF CleanKept, SavedStateRecognised
<1>5. QED
  BY <1>3, <1>4 DEF CleanTellsSaved

\* CleanTellsSaved (CypherEditor_History.cpp): as long as no callback failed a document shown
\* as clean is the saved one, and the saved one is shown as clean as long as nothing was
\* evicted since, for all budgets, costs and keys.
THEOREM CleanAlwaysTellsSaved == Spec => []CleanTellsSaved
<1> DEFINE BothKept == JournalKept /\ CleanKept
<1>1. Init => BothKept
  BY JournalStarts, CleanStarts DEF Init
<1>2. BothKept /\ [Next]_vars => BothKept'
  BY JournalSteps, CleanSteps
<1>3. BothKept => CleanTellsSaved
  BY CleanKeptTells
<1> HIDE DEF BothKept
<1>4. QED
  BY <1>1, <1>2, <1>3, PTL DEF Spec

-----------------------------------------------------------------------------
(* The settings file. *)

Loading == {"down", "load", "keep", "kept", "loadBackup"}
Saving == {"backup", "backedUp", "publish"}

\* The staging file that the next step moves into place holds what it should.
Staged ==
  /\ fileStep \in {"kept", "accept"} => disk["broken.tmp"] = disk["main"] /\ disk["main"] # NoFile
  /\ fileStep = "backedUp" => disk["bak.tmp"] = disk["main"] /\ disk["main"] # NoFile
  /\ fileStep = "publish" => disk["main"] \in {NoFile, disk["bak"]}
  /\ fileStep \in Saving => disk["main.tmp"] = saving

\* Saving is open only once a rejected text is in the .broken file, and while it is
\* blocked such a text is still the settings file.
Guarded ==
  /\ fileStep \in Loading => ~bOnDisk /\ ~bSaveBlocked
  /\ fileStep \in Saving => bOnDisk /\ ~bSaveBlocked
  /\ fileStep = "accept" => bSaveBlocked
  /\ fileStep \in {"keep", "kept", "loadBackup"} => rejected = disk["main"]
  /\ fileStep = "loadBackup" => rejected = disk["broken"]
  /\ bSaveBlocked => rejected \in {NoFile, disk["main"]}
  /\ bOnDisk /\ ~bSaveBlocked => rejected \in {NoFile, disk["broken"]}

\* The inductive invariant.
Keeping ==
  STypeOK /\ RejectedTextKept /\ CompletedSaveSurvives /\ Staged /\ Guarded

\* The six files of the model are distinct, and each is staged in its own.
LEMMA FileNames ==
  /\ Files = {"main", "bak", "broken", "main.tmp", "bak.tmp", "broken.tmp"}
  /\ Tmp("main") = "main.tmp" /\ Tmp("bak") = "bak.tmp" /\ Tmp("broken") = "broken.tmp"
  BY DEF Files, Siblings, Tmp

\* Nothing is on disk or in memory yet.
LEMMA KeepingStarts == SInit => Keeping
  BY FileNames, SettingsAssumption
  DEF SInit, Keeping, STypeOK, RejectedTextKept, CompletedSaveSurvives, Staged, Guarded,
      Loading, Saving, Siblings

\* Every step of a load, of a save and of the user, and a crash at any of them, keeps
\* the invariant.
LEMMA KeepingKept == Keeping /\ [SNext]_svars => Keeping'
<1> SUFFICES ASSUME Keeping, [SNext]_svars PROVE Keeping'
  OBVIOUS
<1> USE FileNames, SettingsAssumption
    DEF Keeping, STypeOK, RejectedTextKept, CompletedSaveSurvives, Staged, Guarded,
        Loading, Saving, Siblings, memory, observed, Readable, Writes, WriteFails,
        Replaces, Stages
<1>1. CASE EditorStarts
  BY <1>1 DEF EditorStarts
<1>2. CASE LoadEnds
  <2>1. CASE Readable(disk["main"]) /\ store' = disk["main"] /\ bOnDisk' = TRUE
             /\ lastSaved' = disk["main"] /\ rejected' = NoFile
    BY <1>2, <2>1 DEF LoadEnds
  <2>2. CASE disk["main"] = NoFile /\ bOnDisk' = TRUE /\ UNCHANGED <<store, observed>>
    BY <1>2, <2>2 DEF LoadEnds
  <2>3. CASE UNCHANGED <<store, bOnDisk, observed>>
    BY <1>2, <2>3 DEF LoadEnds
  <2>4. QED
    BY <1>2, <2>1, <2>2, <2>3 DEF LoadEnds
<1>3. CASE LoadRejects
  BY <1>3 DEF LoadRejects
<1>4. CASE KeepDamaged
  <2>1. CASE fileStep = "keep" /\ Stages("broken") /\ fileStep' = "kept"
    BY <1>4, <2>1 DEF KeepDamaged
  <2>2. CASE fileStep = "kept" /\ Replaces("broken") /\ fileStep' = "loadBackup"
    BY <1>4, <2>2 DEF KeepDamaged
  <2>3. QED
    BY <1>4, <2>1, <2>2 DEF KeepDamaged
<1>5. CASE LoadBackup
  BY <1>5 DEF LoadBackup
<1>6. CASE LoadGivesUp
  <2>1. \A f \in Files \ {"broken.tmp"} : disk'[f] = disk[f]
    BY <1>6 DEF LoadGivesUp
  <2>2. disk' \in [Files -> Values \cup Damaged \cup {Partial, NoFile}]
    BY <1>6 DEF LoadGivesUp
  <2>3. STypeOK' /\ RejectedTextKept' /\ CompletedSaveSurvives' /\ Staged'
    BY <1>6, <2>1, <2>2 DEF LoadGivesUp, BlockSaving
  <2>4. Guarded'
    BY <1>6, <2>1, <2>2 DEF LoadGivesUp, BlockSaving
  <2>5. QED
    BY <2>3, <2>4
<1>7. CASE ChangeSetting
  BY <1>7 DEF ChangeSetting
<1>8. CASE SaveBegins
  <2>1. CASE Writes(Tmp("main"), saving') /\ fileStep' = "backup"
    BY <1>8, <2>1 DEF SaveBegins
  <2>2. CASE WriteFails(Tmp("main")) /\ fileStep' = "idle"
    BY <1>8, <2>2 DEF SaveBegins
  <2>3. QED
    BY <1>8, <2>1, <2>2 DEF SaveBegins
<1>9. CASE RefreshBackup
  <2>1. CASE fileStep = "backup" /\ Stages("bak") /\ fileStep' = "backedUp"
    BY <1>9, <2>1 DEF RefreshBackup
  <2>2. CASE fileStep = "backedUp" /\ Replaces("bak") /\ fileStep' = "publish"
    BY <1>9, <2>2 DEF RefreshBackup
  <2>3. CASE fileStep = "backup" /\ disk["main"] = NoFile /\ fileStep' = "publish" /\ UNCHANGED disk
    BY <1>9, <2>3 DEF RefreshBackup
  <2>4. QED
    BY <1>9, <2>1, <2>2, <2>3 DEF RefreshBackup
<1>10. CASE BackupFails
  BY <1>10 DEF BackupFails, AbandonSave
<1>11. CASE Publish
  <2>1. CASE Replaces("main") /\ fileStep' = "idle" /\ store' = saving /\ lastSaved' = saving
    BY <1>11, <2>1 DEF Publish, AbandonSave
  <2>2. CASE AbandonSave /\ UNCHANGED <<store, lastSaved>>
    BY <1>11, <2>2 DEF Publish, AbandonSave
  <2>3. QED
    BY <1>11, <2>1, <2>2 DEF Publish, AbandonSave
<1>12. CASE AcceptOverwrite
  <2>1. CASE /\ fileStep = "idle" /\ bSaveBlocked /\ Stages("broken")
             /\ fileStep' = "accept" /\ UNCHANGED bSaveBlocked
    BY <1>12, <2>1 DEF AcceptOverwrite
  <2>2. CASE /\ fileStep = "idle" /\ bSaveBlocked /\ WriteFails(Tmp("broken"))
             /\ fileStep' = "idle" /\ UNCHANGED bSaveBlocked
    BY <1>12, <2>2 DEF AcceptOverwrite
  <2>3. CASE /\ fileStep = "accept" /\ fileStep' = "idle"
             /\ Replaces("broken") /\ bSaveBlocked' = FALSE
    BY <1>12, <2>3 DEF AcceptOverwrite
  <2>4. CASE /\ fileStep = "accept" /\ fileStep' = "idle"
             /\ UNCHANGED <<disk, bSaveBlocked>>
    BY <1>12, <2>4 DEF AcceptOverwrite
  <2>5. CASE /\ fileStep = "idle" /\ bSaveBlocked /\ disk["main"] = NoFile
             /\ bSaveBlocked' = FALSE /\ UNCHANGED <<disk, fileStep>>
    BY <1>12, <2>5 DEF AcceptOverwrite
  <2>6. QED
    BY <1>12, <2>1, <2>2, <2>3, <2>4, <2>5 DEF AcceptOverwrite
<1>13. CASE EditorStops
  BY <1>13 DEF EditorStops
<1>14. CASE EditByHand
  BY <1>14 DEF EditByHand
<1>15. CASE UNCHANGED svars
  BY <1>15 DEF svars
<1>16. QED
  BY <1>1, <1>2, <1>3, <1>4, <1>5, <1>6, <1>7, <1>8, <1>9, <1>10, <1>11, <1>12, <1>13,
     <1>14, <1>15 DEF SNext

\* In every reachable state: how far the load or the save in progress has come says
\* what its staging files hold, and saving is open only when a text that was rejected
\* has its copy.
THEOREM KeepingInvariant == SSpec => []Keeping
  BY KeepingStarts, KeepingKept, PTL DEF SSpec

\* Only the last step of a save replaces what is in the settings file, and then the
\* backup has it.
LEMMA OverwritesHaveCopies ==
  ASSUME Keeping, [SNext]_svars, disk'["main"] # disk["main"], ~EditByHand
  PROVE  disk["main"] \in {NoFile, disk'["bak"], disk'["broken"]}
<1> USE FileNames, SettingsAssumption DEF Keeping, STypeOK, Siblings, Writes, WriteFails,
    Replaces, Stages
<1>1. CASE Publish
  BY <1>1 DEF Publish, AbandonSave, Staged
<1>2. CASE KeepDamaged \/ LoadGivesUp
  BY <1>2 DEF KeepDamaged, LoadGivesUp
<1>3. CASE SaveBegins \/ RefreshBackup \/ BackupFails
  BY <1>3 DEF SaveBegins, RefreshBackup, BackupFails, AbandonSave
<1>4. CASE AcceptOverwrite
  BY <1>4 DEF AcceptOverwrite
<1>5. CASE \/ EditorStarts \/ LoadEnds \/ LoadRejects \/ LoadBackup \/ ChangeSetting
           \/ EditorStops \/ UNCHANGED svars
  BY <1>5 DEF EditorStarts, LoadEnds, LoadRejects, LoadBackup, ChangeSetting, EditorStops, svars
<1>6. QED
  BY <1>1, <1>2, <1>3, <1>4, <1>5 DEF SNext

\* Staging files are the only ones that can be cut off: what the editor reads back is
\* whole, wherever writes fail or the editor is killed.
THEOREM SettingsTypeCorrect == SSpec => []STypeOK
  BY KeepingInvariant, PTL DEF Keeping

\* Neither the text that a load rejected nor the one that a save completed is ever
\* lost, and nothing but the user's own edit overwrites an only copy.
THEOREM SettingsNeverLost == SSpec => SettingsTextKept
<1>1. Keeping => RejectedTextKept /\ CompletedSaveSurvives
  BY DEF Keeping
<1>2. Keeping /\ [SNext]_svars =>
        [disk'["main"] # disk["main"] /\ ~EditByHand =>
           disk["main"] \in {NoFile, disk'["bak"], disk'["broken"]}]_svars
  BY OverwritesHaveCopies
<1>3. QED
  BY KeepingInvariant, <1>1, <1>2, PTL DEF SSpec, SettingsTextKept, OverwrittenTextKept

-----------------------------------------------------------------------------
(* Maps and their copies. *)

\* The copies of one map, by number.
CopySets == UNION {[N -> Contents] : N \in SUBSET (1 .. MaxCopies)}

\* The document behind the mark is the one in the file.
MarkTrue ==
  cleanAt # 0 =>
    IF path = NoPath THEN states[cleanAt] = Blank ELSE file[path] = states[cleanAt]

\* The copies that an autosave has listed end in the one it writes.
Listed ==
  /\ mapStep \in {"copy", "prune"} =>
       /\ numbers \in Seq(1 .. MaxCopies) /\ numbers # <<>>
       /\ \A m, n \in DOMAIN numbers : m < n => numbers[m] < numbers[n]
  /\ mapStep = "copy" => \A n \in Numbers(path) : n < Last(numbers)
  /\ mapStep = "prune" =>
       /\ Last(numbers) \in Numbers(path) /\ \A n \in Numbers(path) : n <= Last(numbers)
       /\ copies[path][Last(numbers)] = Content

\* Addresses are not reused, and the document copied last is where it can be read.
Addressed ==
  /\ pDocument = nAddresses
  /\ mapStep # "down" /\ pLastCopied = pDocument => WorkOnDisk
  /\ mapStep = "prune" => pLastCopied = pDocument

\* The inductive invariant of MapWorkspace.
Storing ==
  /\ MTypeOK
  /\ copies \in [Bases -> CopySets]
  /\ mapStep # "down" => pDocument # 0
  /\ MarkTrue
  /\ Listed
  /\ ~AllocatorReuses => Addressed /\ WorkIsOnDisk

\* Max is the greatest member.
LEMMA GreatestIs ==
  ASSUME NEW N, N \subseteq Nat, NEW g \in N, \A n \in N : n <= g
  PROVE  Max(N) = g
<1>1. Max(N) \in N /\ \A n \in N : Max(N) >= n
  BY DEF Max
<1>2. Max(N) <= g /\ Max(N) >= g /\ Max(N) \in Nat /\ g \in Nat
  BY <1>1
<1> QED
  BY <1>2

\* The numbers of copies have a greatest one.
LEMMA GreatestExists ==
  ASSUME NEW N, N \subseteq 0 .. MaxCopies, N # {}
  PROVE  Max(N) \in N /\ \A n \in N : n <= Max(N)
<1>1. PICK g \in N : \A n \in N : n <= g
  BY GreatestNumber, WorkspaceAssumption
<1>2. N \subseteq Nat
  BY WorkspaceAssumption
<1>3. Max(N) = g
  BY <1>1, <1>2, GreatestIs
<1> QED
  BY <1>1, <1>3

\* The copies of a map, by their numbers.
LEMMA CopiesShape ==
  ASSUME NEW numbered \in CopySets
  PROVE  /\ DOMAIN numbered \subseteq 1 .. MaxCopies
         /\ numbered \in [DOMAIN numbered -> Contents]
BY DEF CopySets

\* A function on numbers of copies is a set of copies.
LEMMA CopySetBuilt ==
  ASSUME NEW N \in SUBSET (1 .. MaxCopies), NEW f \in [N -> Contents]
  PROVE  f \in CopySets
BY DEF CopySets

\* The greater of two numbers.
LEMMA TwoGreatest ==
  ASSUME NEW a \in Nat, NEW b \in Nat
  PROVE  /\ Max({a, b}) \in {a, b} /\ Max({a, b}) >= a /\ Max({a, b}) >= b
<1>1. CASE a <= b
  <2>1. Max({a, b}) = b
    BY <1>1, GreatestIs
  <2> QED
    BY <1>1, <2>1
<1>2. CASE b <= a
  <2>1. Max({a, b}) = a
    BY <1>2, GreatestIs
  <2> QED
    BY <1>2, <2>1
<1> QED
  BY <1>1, <1>2

\* A document is allocated while the one before it is alive.
LEMMA DocumentAllocated ==
  ASSUME MTypeOK, NewDocument
  PROVE  /\ nAddresses' \in 0 .. MaxAddresses /\ pDocument' \in 1 .. nAddresses'
         /\ nAddresses <= nAddresses' /\ pLastCopied \in 0 .. nAddresses'
         /\ ~AllocatorReuses => pDocument' = nAddresses + 1 /\ nAddresses' = pDocument'
<1>1. nAddresses \in Nat /\ pDocument' \in Nat /\ MaxAddresses \in Nat /\ pDocument' >= 1
      /\ pLastCopied \in 0 .. nAddresses /\ nAddresses \in 0 .. MaxAddresses
  BY WorkspaceAssumption DEF MTypeOK, NewDocument
<1>2. /\ nAddresses' = Max({nAddresses, pDocument'}) /\ nAddresses' <= MaxAddresses
      /\ AllocatorReuses \/ pDocument' = nAddresses + 1
  BY DEF NewDocument
<1>3. nAddresses' \in {nAddresses, pDocument'} /\ nAddresses' >= nAddresses /\ nAddresses' >= pDocument'
  BY <1>1, <1>2, TwoGreatest
<1> QED
  BY <1>1, <1>2, <1>3

\* The invariant holds initially.
LEMMA StoringStarts == MInit => Storing
<1> SUFFICES ASSUME MInit PROVE Storing
  OBVIOUS
<1>1. MTypeOK
  <2>1. states = <<Blank>> /\ states \in Seq(Contents) /\ Len(states) = 1
    BY WorkspaceAssumption DEF MInit
  <2>2. bTransaction \in BOOLEAN
    BY DEF MInit
  <2>3. file \in [Paths -> Contents \cup {Missing}] /\ DOMAIN copies = Bases /\ path \in Bases
    BY DEF MInit, Bases
  <2> QED
    BY <2>1, <2>2, <2>3, WorkspaceAssumption DEF MInit, MTypeOK, NoAddress
<1>2. copies \in [Bases -> CopySets]
  <2>1. <<>> \in [{} -> Contents]
    OBVIOUS
  <2>2. <<>> \in CopySets
    BY <2>1, CopySetBuilt
  <2> QED
    BY <2>2 DEF MInit
<1> QED
  BY <1>1, <1>2 DEF Storing, MInit, MarkTrue, Listed, Addressed, WorkIsOnDisk, NoAddress

\* Nothing that the work on disk depends on changes.
LEMMA DiskKept ==
  ASSUME path' = path, Content' = Content, file' = file, copies' = copies
  PROVE  WorkOnDisk' <=> WorkOnDisk
BY DEF WorkOnDisk, Numbers, Newest

\* An edit drops the redo steps and the mark with them; undo and redo move along the
\* history; each allocates a document.
LEMMA StoringEdits ==
  ASSUME Storing, Edit \/ UndoOrRedo
  PROVE  Storing'
<1>1. /\ mapStep = "idle" /\ mapStep' = "idle" /\ NewDocument /\ answer' = "none"
      /\ path' = path /\ file' = file /\ copies' = copies /\ bTransaction' = bTransaction
      /\ pLastCopied' = pLastCopied /\ numbers' = numbers
  BY DEF Edit, UndoOrRedo, autosave
<1>2. /\ nAddresses' \in 0 .. MaxAddresses /\ pDocument' \in 1 .. nAddresses'
      /\ nAddresses <= nAddresses' /\ pLastCopied \in 0 .. nAddresses'
      /\ ~AllocatorReuses => pDocument' = nAddresses + 1 /\ nAddresses' = pDocument'
  BY <1>1, DocumentAllocated DEF Storing
<1>3. /\ states \in Seq(Contents) /\ Len(states) <= MaxStates /\ now \in 1 .. Len(states)
      /\ cleanAt \in 0 .. Len(states) /\ MaxStates \in Nat /\ Len(states) \in Nat
  BY WorkspaceAssumption DEF Storing, MTypeOK
<1>4. /\ states' \in Seq(Contents) /\ Len(states') <= MaxStates /\ now' \in 1 .. Len(states')
      /\ cleanAt' \in 0 .. Len(states')
      /\ cleanAt' # 0 => cleanAt' = cleanAt /\ states'[cleanAt] = states[cleanAt]
  <2>1. CASE Edit
    <3>1. PICK c \in Contents : states' = Append(SubSeq(states, 1, now), c)
      BY <2>1 DEF Edit
    <3>2. now < MaxStates /\ now' = now + 1 /\ cleanAt' = IF cleanAt > now THEN 0 ELSE cleanAt
      BY <2>1 DEF Edit, MarkAfterEdit
    <3>3. /\ SubSeq(states, 1, now) \in Seq(Contents) /\ Len(SubSeq(states, 1, now)) = now
          /\ \A i \in 1 .. now : SubSeq(states, 1, now)[i] = states[i]
      BY <1>3, SubSeqProperties
    <3>4. /\ states' \in Seq(Contents) /\ Len(states') = now + 1
          /\ \A i \in 1 .. now : states'[i] = states[i]
      BY <1>3, <3>1, <3>3, AppendProperties
    <3> QED
      BY <1>3, <3>2, <3>4
  <2>2. CASE UndoOrRedo
    BY <1>3, <2>2 DEF UndoOrRedo
  <2> QED
    BY <2>1, <2>2
<1>5. MTypeOK'
  <2>1. DOMAIN copies' = Bases /\ path' \in Bases /\ bTransaction' \in BOOLEAN
        /\ file' \in [Paths -> Contents \cup {Missing}]
    BY <1>1 DEF Storing, MTypeOK
  <2>2. nAddresses' \in Nat /\ pDocument' \in 0 .. nAddresses'
    BY <1>2, WorkspaceAssumption
  <2> QED
    BY <1>1, <1>2, <1>4, <2>1, <2>2 DEF MTypeOK
<1>6. MarkTrue'
  BY <1>1, <1>3, <1>4 DEF Storing, MarkTrue
<1>7. Listed'
  BY <1>1 DEF Listed
<1>8. ~AllocatorReuses => Addressed'
  <2>1. pDocument' # 0
    BY <1>2, WorkspaceAssumption
  <2>2. ~AllocatorReuses => pLastCopied # pDocument' /\ pDocument' = nAddresses'
    BY <1>2 DEF Storing, MTypeOK
  <2> QED
    BY <1>1, <2>2 DEF Addressed
<1>9. WorkIsOnDisk'
  BY <1>1 DEF WorkIsOnDisk
<1>10. pDocument' # 0
  BY <1>2, WorkspaceAssumption
<1> QED
  BY <1>1, <1>5, <1>6, <1>7, <1>8, <1>9, <1>10 DEF Storing

\* A new or opened map begins a history whose first state is the one in its file.
LEMMA StoringAdopts ==
  ASSUME Storing, New \/ Open
  PROVE  Storing'
<1>1. PICK p \in Bases, c \in Contents :
        Adopt(p, c) /\ (IF p = NoPath THEN c = Blank ELSE file[p] = c)
  BY WorkspaceAssumption DEF New, Open, Bases
<1>2. /\ mapStep = "idle" /\ mapStep' = "idle" /\ NewDocument /\ answer' = "none"
      /\ path' = p /\ file' = file /\ copies' = copies /\ bTransaction' \in BOOLEAN
      /\ pLastCopied' = pLastCopied /\ numbers' = numbers
      /\ states' = <<c>> /\ now' = 1 /\ cleanAt' = 1
  BY <1>1 DEF Adopt, autosave
<1>3. /\ nAddresses' \in 0 .. MaxAddresses /\ pDocument' \in 1 .. nAddresses'
      /\ nAddresses <= nAddresses' /\ pLastCopied \in 0 .. nAddresses'
      /\ ~AllocatorReuses => pDocument' = nAddresses + 1 /\ nAddresses' = pDocument'
  BY <1>2, DocumentAllocated DEF Storing
<1>4. states' \in Seq(Contents) /\ Len(states') = 1 /\ states'[1] = c
  BY <1>2
<1>5. MTypeOK'
  <2>1. DOMAIN copies' = Bases /\ file' \in [Paths -> Contents \cup {Missing}]
    BY <1>2 DEF Storing, MTypeOK
  <2>2. nAddresses' \in Nat /\ pDocument' \in 0 .. nAddresses'
    BY <1>3, WorkspaceAssumption
  <2> QED
    BY <1>2, <1>3, <1>4, <2>1, <2>2, WorkspaceAssumption DEF MTypeOK
<1>6. MarkTrue'
  BY <1>1, <1>2, <1>4 DEF MarkTrue
<1>7. Listed' /\ WorkIsOnDisk'
  BY <1>2 DEF Listed, WorkIsOnDisk
<1>8. ~AllocatorReuses => Addressed'
  <2>1. ~AllocatorReuses => pLastCopied # pDocument' /\ pDocument' = nAddresses'
    BY <1>3 DEF Storing, MTypeOK
  <2> QED
    BY <1>2, <2>1 DEF Addressed
<1>9. pDocument' # 0
  BY <1>3, WorkspaceAssumption
<1> QED
  BY <1>2, <1>5, <1>6, <1>7, <1>8, <1>9 DEF Storing

\* A save marks what it wrote, and a save that failed leaves the file and the mark.
LEMMA StoringSave ==
  ASSUME Storing, SaveAs
  PROVE  Storing'
<1>1. /\ mapStep = "idle" /\ mapStep' = mapStep /\ states' = states /\ now' = now
      /\ pDocument' = pDocument /\ nAddresses' = nAddresses /\ bTransaction' = bTransaction
      /\ pLastCopied' = pLastCopied /\ numbers' = numbers /\ copies' = copies /\ answer' = answer
  BY DEF SaveAs, liveDocument, autosave
<1>2. PICK p \in Paths :
       \/ file' = [file EXCEPT ![p] = Content] /\ path' = p /\ cleanAt' = now
       \/ /\ \E text \in LeftByFailure(file[p]) : file' = [file EXCEPT ![p] = text]
          /\ cleanAt' = cleanAt /\ path' = path
  BY DEF SaveAs, MarkAfterFailure
<1>3. /\ file \in [Paths -> Contents \cup {Missing}] /\ now \in 1 .. Len(states)
      /\ states \in Seq(Contents) /\ cleanAt \in 0 .. Len(states) /\ path \in Bases
      /\ Content \in Contents /\ p # NoPath
  BY WorkspaceAssumption DEF Storing, MTypeOK, Content
<1>4. Content' = Content
  BY <1>1 DEF Content
<1>5. CASE file' = [file EXCEPT ![p] = Content] /\ path' = p /\ cleanAt' = now
  <2>1. file' \in [Paths -> Contents \cup {Missing}] /\ file'[p] = Content /\ p \in Bases
    BY <1>3, <1>5 DEF Bases
  <2>2. WorkOnDisk'
    BY <1>3, <1>4, <1>5, <2>1 DEF WorkOnDisk
  <2>3. MTypeOK'
    BY <1>1, <1>3, <1>5, <2>1 DEF Storing, MTypeOK
  <2>4. MarkTrue'
    BY <1>1, <1>3, <1>5, <2>1 DEF MarkTrue, Content
  <2> QED
    BY <1>1, <2>2, <2>3, <2>4 DEF Storing, Listed, Addressed, WorkIsOnDisk
<1>6. CASE /\ \E text \in LeftByFailure(file[p]) : file' = [file EXCEPT ![p] = text]
           /\ cleanAt' = cleanAt /\ path' = path
  <2>1. file' = file
    BY <1>3, <1>6 DEF LeftByFailure
  <2>2. WorkOnDisk' <=> WorkOnDisk
    BY <1>1, <1>4, <1>6, <2>1, DiskKept
  <2>3. MTypeOK'
    BY <1>1, <1>6, <2>1 DEF Storing, MTypeOK
  <2>4. MarkTrue'
    BY <1>1, <1>6, <2>1 DEF Storing, MarkTrue
  <2> QED
    BY <1>1, <2>2, <2>3, <2>4 DEF Storing, Listed, Addressed, WorkIsOnDisk
<1> QED
  BY <1>2, <1>5, <1>6

\* A step that changes nothing but the flags.
LEMMA StoringQuiet ==
  ASSUME Storing, MTypeOK', UNCHANGED <<pDocument, nAddresses, path, states, now, cleanAt,
                                        pLastCopied, file, copies>>,
         Listed', answer' \in {"SAVED", "UNCHANGED"} => WorkOnDisk \/ AllocatorReuses,
         mapStep # "down",
         mapStep' = "prune" => mapStep = "prune"
  PROVE  Storing'
<1>1. Content' = Content
  BY DEF Content
<1>2. WorkOnDisk' <=> WorkOnDisk
  BY <1>1, DiskKept
<1>3. MarkTrue'
  BY DEF Storing, MarkTrue
<1>4. pDocument' # 0
  BY DEF Storing
<1>5. ~AllocatorReuses => Addressed' /\ WorkIsOnDisk'
  BY <1>2 DEF Storing, Addressed, WorkIsOnDisk
<1> QED
  BY <1>3, <1>4, <1>5 DEF Storing

\* A gesture begins or ends.
LEMMA StoringGesture ==
  ASSUME Storing, Gesture
  PROVE  Storing'
<1>1. /\ mapStep = "idle" /\ mapStep' = mapStep /\ answer' = answer /\ numbers' = numbers
      /\ UNCHANGED <<pDocument, nAddresses, path, states, now, cleanAt, pLastCopied, file, copies>>
  BY DEF Gesture, liveDocument, autosave
<1>2. bTransaction' \in BOOLEAN
  BY DEF Gesture
<1>3. MTypeOK'
  BY <1>1, <1>2 DEF Storing, MTypeOK
<1>4. Listed'
  BY <1>1 DEF Listed
<1>5. answer' \in {"SAVED", "UNCHANGED"} => WorkOnDisk \/ AllocatorReuses
  BY <1>1 DEF Storing, WorkIsOnDisk
<1> QED
  BY <1>1, <1>3, <1>4, <1>5, StoringQuiet

\* A document without unsaved work is in its file, or it is a new map.
LEMMA UnmodifiedOnDisk ==
  ASSUME Storing, ~IsModified
  PROVE  WorkOnDisk
<1>1. cleanAt = now /\ now # 0
  BY DEF IsModified, Storing, MTypeOK
<1> QED
  BY <1>1 DEF Storing, MarkTrue, WorkOnDisk, Content

\* An autosave that finds nothing to copy, or the document busy.
LEMMA StoringDeclines ==
  ASSUME Storing, AutosaveDeclines
  PROVE  Storing'
<1>1. /\ mapStep = "idle" /\ mapStep' = mapStep /\ numbers' = numbers
      /\ bTransaction' = bTransaction
      /\ UNCHANGED <<pDocument, nAddresses, path, states, now, cleanAt, pLastCopied, file, copies>>
  BY DEF AutosaveDeclines, liveDocument, journal, autosave
<1>2. answer' \in {"UNCHANGED", "BUSY"} /\ (answer' = "UNCHANGED" => NothingToCopy)
  BY DEF AutosaveDeclines
<1>3. MTypeOK'
  BY <1>1, <1>2 DEF Storing, MTypeOK
<1>4. Listed'
  BY <1>1 DEF Listed
<1>5. NothingToCopy => WorkOnDisk \/ AllocatorReuses
  BY <1>1, UnmodifiedOnDisk DEF NothingToCopy, Storing, Addressed
<1>6. answer' \in {"SAVED", "UNCHANGED"} => WorkOnDisk \/ AllocatorReuses
  BY <1>2, <1>5
<1> QED
  BY <1>1, <1>3, <1>4, <1>6, StoringQuiet

\* An autosave lists the copies there are and the number after them.
LEMMA StoringLists ==
  ASSUME Storing, AutosaveLists
  PROVE  Storing'
<1>1. /\ mapStep = "idle" /\ mapStep' = "copy" /\ answer' = "none"
      /\ bTransaction' = bTransaction
      /\ UNCHANGED <<pDocument, nAddresses, path, states, now, cleanAt, pLastCopied, file, copies>>
  BY DEF AutosaveLists, liveDocument, journal
<1> DEFINE N == Numbers(path)
           next == Max(N \cup {0}) + 1
           A == Ascending(N)
<1>2. next <= MaxCopies /\ numbers' = A \o <<next>>
  BY DEF AutosaveLists
<1>3. path \in Bases /\ copies[path] \in CopySets
  BY DEF Storing, MTypeOK
<1>4. N \subseteq 1 .. MaxCopies /\ N \subseteq Nat /\ IsFiniteSet(N) /\ MaxCopies \in Nat
  <2>1. N \subseteq 1 .. MaxCopies /\ MaxCopies \in Nat
    BY <1>3, CopiesShape, WorkspaceAssumption DEF Numbers
  <2>2. IsFiniteSet(1 .. MaxCopies)
    BY <2>1, FS_Interval
  <2> QED
    BY <2>1, <2>2, FS_Subset
<1> HIDE DEF N
<1>5. Max(N \cup {0}) \in N \cup {0} /\ \A n \in N \cup {0} : n <= Max(N \cup {0})
  <2>1. N \cup {0} \subseteq 0 .. MaxCopies /\ N \cup {0} # {}
    BY <1>4
  <2> QED
    BY <2>1, GreatestExists
<1>6. next \in 1 .. MaxCopies /\ \A n \in N : n < next
  <2>0. N \cup {0} \subseteq Nat
    BY <1>4
  <2>1. Max(N \cup {0}) \in Nat
    BY <1>5, <2>0, Zenon
  <2> DEFINE greatest == Max(N \cup {0})
  <2>2. next = greatest + 1 /\ greatest \in Nat /\ \A n \in N : n <= greatest /\ n \in Nat
    BY <1>4, <1>5, <2>1
  <2> HIDE DEF greatest, next
  <2> QED
    BY <1>2, <1>4, <2>2
<1> HIDE DEF next
<1>7. /\ A \in Seq(N) /\ Len(A) = Cardinality(N) /\ Cardinality(N) \in Nat
      /\ \A m, n \in 1 .. Cardinality(N) : m < n => A[m] < A[n]
  BY <1>4, AscendingLists, FS_CardinalityType
<1> HIDE DEF A
<1>8. A \in Seq(1 .. MaxCopies)
  BY <1>4, <1>7, SeqMonotonic
<1>9. /\ numbers' \in Seq(1 .. MaxCopies) /\ Len(numbers') = Len(A) + 1
      /\ numbers'[Len(A) + 1] = next /\ \A n \in 1 .. Len(A) : numbers'[n] = A[n]
      /\ DOMAIN numbers' = 1 .. Len(A) + 1
  <2>1. <<next>> \in Seq(1 .. MaxCopies) /\ Len(<<next>>) = 1 /\ <<next>>[1] = next
    BY <1>6
  <2>2. /\ numbers' \in Seq(1 .. MaxCopies) /\ Len(numbers') = Len(A) + 1
        /\ \A i \in 1 .. Len(A) + 1 : numbers'[i] = IF i <= Len(A) THEN A[i] ELSE <<next>>[i - Len(A)]
    BY <1>2, <1>8, <2>1, ConcatProperties
  <2>3. Len(A) \in Nat
    BY <1>7
  <2>4. numbers'[Len(A) + 1] = next
    <3>1. ~(Len(A) + 1 <= Len(A)) /\ (Len(A) + 1) - Len(A) = 1 /\ Len(A) + 1 \in 1 .. Len(A) + 1
      BY <2>3
    <3> QED
      BY <2>1, <2>2, <3>1
  <2> QED
    BY <2>2, <2>3, <2>4
<1>10. \A m, n \in DOMAIN numbers' : m < n => numbers'[m] < numbers'[n]
  <2> SUFFICES ASSUME NEW m \in 1 .. Len(A) + 1, NEW n \in 1 .. Len(A) + 1, m < n
               PROVE  numbers'[m] < numbers'[n]
    BY <1>9
  <2>1. m \in 1 .. Len(A) /\ A[m] \in N
    BY <1>7
  <2>2. CASE n = Len(A) + 1
    BY <1>6, <1>9, <2>1, <2>2
  <2>3. CASE n # Len(A) + 1
    <3>1. n \in 1 .. Len(A)
      BY <1>7, <2>3
    <3> QED
      BY <1>7, <1>9, <2>1, <3>1
  <2> QED
    BY <2>2, <2>3
<1>11. Listed'
  <2>1. numbers' # <<>> /\ Last(numbers)' = next
    BY <1>7, <1>9 DEF Last
  <2>2. Numbers(path)' = N
    BY <1>1 DEF Numbers, N
  <2> QED
    BY <1>1, <1>6, <1>9, <1>10, <2>1, <2>2 DEF Listed
<1>12. MTypeOK'
  BY <1>1 DEF Storing, MTypeOK
<1> QED
  BY <1>1, <1>11, <1>12, StoringQuiet

\* The copy cannot be made: the document does not count as copied.
LEMMA StoringFails ==
  ASSUME Storing, AutosaveFails
  PROVE  Storing'
<1>1. /\ mapStep = "copy" /\ mapStep' = "idle" /\ answer' = "FAILED"
      /\ bTransaction' = bTransaction
      /\ UNCHANGED <<pDocument, nAddresses, path, states, now, cleanAt, pLastCopied, file, copies>>
  BY DEF AutosaveFails, RememberedWhenWritten, liveDocument, journal
<1>2. MTypeOK'
  BY <1>1 DEF Storing, MTypeOK
<1>3. Listed'
  BY <1>1 DEF Listed
<1> QED
  BY <1>1, <1>2, <1>3, StoringQuiet

\* The last of the copies listed is one of them, and the greatest.
LEMMA LastListed ==
  ASSUME Listed, mapStep \in {"copy", "prune"}
  PROVE  /\ numbers \in Seq(1 .. MaxCopies) /\ Len(numbers) \in Nat /\ Len(numbers) >= 1
         /\ DOMAIN numbers = 1 .. Len(numbers)
         /\ Last(numbers) = numbers[Len(numbers)] /\ Last(numbers) \in 1 .. MaxCopies
         /\ \A m \in 1 .. Len(numbers) : numbers[m] \in 1 .. MaxCopies
<1>1. numbers \in Seq(1 .. MaxCopies) /\ numbers # <<>>
  BY DEF Listed
<1>2. Len(numbers) \in Nat \ {0}
  BY <1>1, EmptySeq
<1>3. DOMAIN numbers = 1 .. Len(numbers) /\ \A m \in 1 .. Len(numbers) : numbers[m] \in 1 .. MaxCopies
  BY <1>1, LenProperties, ElementOfSeq
<1> QED
  BY <1>1, <1>2, <1>3 DEF Last

\* Pruning leaves at least one copy.
LEMMA KeptAtLeastOne == Kept \in Nat /\ Kept >= 1
<1>1. Keep \in Nat
  BY WorkspaceAssumption
<1> QED
  BY <1>1, TwoGreatest DEF Kept

\* The copies after the new one is written.
LEMMA CopyWritten ==
  ASSUME Storing, AutosaveWrites
  PROVE  /\ copies' \in [Bases -> CopySets]
         /\ \A b \in Bases : b # path => copies'[b] = copies[b]
         /\ DOMAIN copies'[path] = Numbers(path) \cup {Last(numbers)}
         /\ copies'[path][Last(numbers)] = Content
         /\ \A n \in Numbers(path) : n <= Last(numbers)
<1>1. mapStep = "copy"
  BY DEF AutosaveWrites
<1>2. Last(numbers) \in 1 .. MaxCopies /\ \A n \in Numbers(path) : n < Last(numbers)
  BY <1>1, LastListed DEF Storing, Listed
<1>3. path \in Bases /\ copies \in [Bases -> CopySets] /\ copies[path] \in CopySets
  BY DEF Storing, MTypeOK
<1>4. Content \in Contents
  BY DEF Storing, MTypeOK, Content
<1> DEFINE L == Last(numbers)
           one == WithCopy(copies[path], L)
<1>5. copies' = [copies EXCEPT ![path] = one]
  BY DEF AutosaveWrites
<1>6. /\ Numbers(path) \subseteq 1 .. MaxCopies
      /\ \A n \in Numbers(path) : copies[path][n] \in Contents
  BY <1>3, CopiesShape DEF Numbers
<1>7. /\ DOMAIN one = Numbers(path) \cup {L} /\ one[L] = Content
      /\ one \in [Numbers(path) \cup {L} -> Contents]
  BY <1>4, <1>6 DEF WithCopy, Numbers
<1>8. one \in CopySets
  <2>1. Numbers(path) \cup {L} \in SUBSET (1 .. MaxCopies)
    BY <1>2, <1>6
  <2> QED
    BY <1>7, <2>1, CopySetBuilt
<1> HIDE DEF one
<1>9. \A n \in Numbers(path) : n <= L
  BY <1>2, <1>6
<1>10. /\ copies' \in [Bases -> CopySets] /\ copies'[path] = one
       /\ \A b \in Bases : b # path => copies'[b] = copies[b]
  BY <1>3, <1>5, <1>8
<1> QED
  BY <1>7, <1>9, <1>10

\* The newest copy is the one with the greatest number.
LEMMA NewestIs ==
  ASSUME NEW numbered \in CopySets, NEW g \in DOMAIN numbered, \A n \in DOMAIN numbered : n <= g
  PROVE  Newest(numbered) = numbered[g] /\ Max(DOMAIN numbered) = g
<1>1. DOMAIN numbered \subseteq Nat
  BY CopiesShape, WorkspaceAssumption
<1>2. Max(DOMAIN numbered) = g
  BY <1>1, GreatestIs
<1> QED
  BY <1>2 DEF Newest

\* The copy that is written is the newest.
LEMMA StoringWrites ==
  ASSUME Storing, AutosaveWrites
  PROVE  Storing'
<1>1. /\ mapStep = "copy" /\ mapStep' = "prune" /\ pLastCopied' = pDocument /\ answer' = answer
      /\ UNCHANGED <<pDocument, nAddresses, path, states, now, cleanAt, bTransaction, numbers, file>>
  BY DEF AutosaveWrites, liveDocument, journal
<1>2. /\ copies' \in [Bases -> CopySets]
      /\ DOMAIN copies'[path] = Numbers(path) \cup {Last(numbers)}
      /\ copies'[path][Last(numbers)] = Content
      /\ \A n \in Numbers(path) : n <= Last(numbers)
  BY CopyWritten
<1>3. path \in Bases /\ Last(numbers) \in Nat
  BY <1>1, LastListed, WorkspaceAssumption DEF Storing, MTypeOK
<1>4. \A n \in DOMAIN copies'[path] : n <= Last(numbers)
  BY <1>2, <1>3
<1>5. Newest(copies'[path]) = Content
  BY <1>2, <1>3, <1>4, NewestIs
<1>6. Content' = Content /\ Last(numbers)' = Last(numbers) /\ Numbers(path)' = DOMAIN copies'[path]
      /\ Newest(copies[path])' = Newest(copies'[path])
  BY <1>1 DEF Content, Last, Numbers, Newest
<1>7. WorkOnDisk'
  BY <1>2, <1>5, <1>6 DEF WorkOnDisk
<1>8. MTypeOK'
  BY <1>1, <1>2 DEF Storing, MTypeOK
<1>9. MarkTrue'
  BY <1>1 DEF Storing, MarkTrue
<1>10. Listed'
  BY <1>1, <1>2, <1>4, <1>6 DEF Storing, Listed
<1>11. ~AllocatorReuses => Addressed' /\ WorkIsOnDisk'
  BY <1>1, <1>7 DEF Storing, Addressed, WorkIsOnDisk
<1> QED
  BY <1>1, <1>2, <1>8, <1>9, <1>10, <1>11 DEF Storing

\* The copies after the oldest of them is deleted: never the newest.
LEMMA CopyDeleted ==
  ASSUME Storing, AutosavePrunes, copies' # copies
  PROVE  /\ copies' \in [Bases -> CopySets]
         /\ \A b \in Bases : b # path => copies'[b] = copies[b]
         /\ DOMAIN copies'[path] \subseteq Numbers(path)
         /\ Last(numbers) \in DOMAIN copies'[path]
         /\ copies'[path][Last(numbers)] = copies[path][Last(numbers)]
<1> DEFINE rest == Numbers(path) \ {Head(numbers)}
           one == Restrict(copies[path], rest)
<1>1. /\ mapStep = "prune" /\ Len(numbers) > Kept /\ copies' = [copies EXCEPT ![path] = one]
  BY DEF AutosavePrunes, Numbers
<1>2. /\ path \in Bases /\ copies \in [Bases -> CopySets] /\ copies[path] \in CopySets
  BY DEF Storing, MTypeOK
<1>3. /\ Len(numbers) \in Nat /\ DOMAIN numbers = 1 .. Len(numbers)
      /\ Last(numbers) = numbers[Len(numbers)] /\ numbers \in Seq(1 .. MaxCopies)
      /\ \A m \in 1 .. Len(numbers) : numbers[m] \in 1 .. MaxCopies
  BY <1>1, LastListed DEF Storing
<1>4. Head(numbers) = numbers[1] /\ numbers[1] < numbers[Len(numbers)]
  <2>1. Len(numbers) > 1 /\ 1 \in DOMAIN numbers /\ Len(numbers) \in DOMAIN numbers
    BY <1>1, <1>3, KeptAtLeastOne
  <2>2. Head(numbers) = numbers[1]
    BY <1>3, <2>1, HeadTailProperties
  <2> QED
    BY <1>1, <1>3, <2>1, <2>2 DEF Storing, Listed
<1>5. Last(numbers) \in rest
  <2>1. numbers[Len(numbers)] # numbers[1]
    <3>1. numbers[1] \in Nat /\ numbers[Len(numbers)] \in Nat
      <4>1. 1 \in 1 .. Len(numbers) /\ Len(numbers) \in 1 .. Len(numbers)
        BY <1>1, <1>3, KeptAtLeastOne
      <4> QED
        BY <1>3, <4>1, WorkspaceAssumption
    <3> QED
      BY <1>4, <3>1
  <2> QED
    BY <1>1, <1>3, <1>4, <2>1 DEF Storing, Listed
<1>6. one = [n \in rest |-> copies[path][n]]
  BY DEF Restrict
<1>7. /\ Numbers(path) \subseteq 1 .. MaxCopies
      /\ \A n \in Numbers(path) : copies[path][n] \in Contents
  BY <1>2, CopiesShape DEF Numbers
<1>8. one \in CopySets
  <2>1. rest \in SUBSET (1 .. MaxCopies) /\ one \in [rest -> Contents]
    BY <1>6, <1>7
  <2> QED
    BY <2>1, CopySetBuilt
<1>9. DOMAIN one = rest /\ one[Last(numbers)] = copies[path][Last(numbers)]
  BY <1>5, <1>6
<1> HIDE DEF one
<1>10. /\ copies' \in [Bases -> CopySets] /\ copies'[path] = one
       /\ \A b \in Bases : b # path => copies'[b] = copies[b]
  BY <1>1, <1>2, <1>8
<1> QED
  BY <1>5, <1>9, <1>10

\* Pruning takes the oldest and never the newest.
LEMMA StoringPrunes ==
  ASSUME Storing, AutosavePrunes
  PROVE  Storing'
<1>1. /\ mapStep = "prune"
      /\ UNCHANGED <<pDocument, nAddresses, path, states, now, cleanAt, bTransaction,
                     pLastCopied, file>>
  BY DEF AutosavePrunes, liveDocument, journal
<1>2. /\ path \in Bases /\ Content' = Content /\ copies \in [Bases -> CopySets]
      /\ Last(numbers) \in 1 .. MaxCopies
  BY <1>1, LastListed DEF Storing, MTypeOK, Content
<1>3. /\ Last(numbers) \in Numbers(path) /\ copies[path][Last(numbers)] = Content
      /\ \A n \in Numbers(path) : n <= Last(numbers)
  BY <1>1 DEF Storing, Listed
<1>4. /\ copies' \in [Bases -> CopySets] /\ Last(numbers) \in DOMAIN copies'[path]
      /\ copies'[path][Last(numbers)] = Content
      /\ \A n \in DOMAIN copies'[path] : n <= Last(numbers)
  <2>1. CASE copies' = copies
    BY <1>2, <1>3, <2>1 DEF Numbers
  <2>2. CASE copies' # copies
    BY <1>3, <2>2, CopyDeleted
  <2> QED
    BY <2>1, <2>2
<1>5. Numbers(path)' = DOMAIN copies'[path] /\ Newest(copies[path])' = Newest(copies'[path])
  BY <1>1 DEF Numbers, Newest
<1>6. WorkOnDisk'
  <2>1. copies'[path] \in CopySets
    BY <1>2, <1>4
  <2>2. Newest(copies'[path]) = Content
    BY <1>4, <2>1, NewestIs
  <2> QED
    BY <1>2, <1>4, <1>5, <2>2 DEF WorkOnDisk
<1>7. MarkTrue'
  BY <1>1 DEF Storing, MarkTrue
<1>8. CASE Len(numbers) > Kept
  <2>1. numbers' = Tail(numbers) /\ mapStep' = "prune" /\ answer' = answer
    <3>1. ~(Len(numbers) <= Kept)
      BY <1>1, <1>8, KeptAtLeastOne, LastListed DEF Storing
    <3> QED
      BY <1>1, <3>1 DEF AutosavePrunes
  <2>2. /\ numbers \in Seq(1 .. MaxCopies) /\ Len(numbers) \in Nat /\ Len(numbers) > 1
        /\ DOMAIN numbers = 1 .. Len(numbers) /\ Last(numbers) = numbers[Len(numbers)]
    BY <1>1, <1>8, KeptAtLeastOne, LastListed DEF Storing
  <2>3. /\ numbers' \in Seq(1 .. MaxCopies) /\ Len(numbers') = Len(numbers) - 1
        /\ \A m \in 1 .. Len(numbers') : numbers'[m] = numbers[m + 1]
        /\ DOMAIN numbers' = 1 .. Len(numbers')
    BY <2>1, <2>2, HeadTailProperties, LenProperties
  <2>4. numbers' # <<>> /\ Last(numbers)' = Last(numbers)
    <3>1. Len(numbers') \in 1 .. Len(numbers') /\ Len(numbers') + 1 = Len(numbers)
      BY <2>2, <2>3
    <3>2. numbers'[Len(numbers')] = numbers[Len(numbers)]
      BY <2>3, <3>1
    <3>3. Last(numbers)' = numbers'[Len(numbers')]
      BY DEF Last
    <3>4. numbers' # <<>>
      BY <2>2, <2>3
    <3> QED
      BY <2>2, <3>2, <3>3, <3>4
  <2>5. \A m, n \in DOMAIN numbers' : m < n => numbers'[m] < numbers'[n]
    <3> SUFFICES ASSUME NEW m \in 1 .. Len(numbers'), NEW n \in 1 .. Len(numbers'), m < n
                 PROVE  numbers'[m] < numbers'[n]
      BY <2>3
    <3>1. m + 1 \in DOMAIN numbers /\ n + 1 \in DOMAIN numbers /\ m + 1 < n + 1
      BY <2>2, <2>3
    <3>2. numbers[m + 1] < numbers[n + 1]
      BY <1>1, <3>1 DEF Storing, Listed
    <3> QED
      BY <2>3, <3>2
  <2>6. Listed'
    <3>1. /\ Last(numbers)' \in Numbers(path)'
          /\ \A n \in Numbers(path)' : n <= Last(numbers)'
      BY <1>4, <1>5, <2>4
    <3>2. copies'[path'][Last(numbers)'] = Content'
      BY <1>1, <1>2, <1>4, <2>4
    <3> QED
      BY <2>1, <2>3, <2>4, <2>5, <3>1, <3>2 DEF Listed
  <2>7. MTypeOK'
    BY <1>1, <1>4, <2>1 DEF Storing, MTypeOK
  <2>8. ~AllocatorReuses => Addressed' /\ WorkIsOnDisk'
    BY <1>1, <1>6, <2>1 DEF Storing, Addressed, WorkIsOnDisk
  <2> QED
    BY <1>1, <1>4, <1>7, <2>1, <2>6, <2>7, <2>8 DEF Storing
<1>9. CASE ~(Len(numbers) > Kept)
  <2>1. mapStep' = "idle" /\ answer' = "SAVED"
    BY <1>1, <1>9 DEF AutosavePrunes
  <2>2. Listed'
    BY <2>1 DEF Listed
  <2>3. MTypeOK'
    BY <1>1, <1>4, <2>1 DEF Storing, MTypeOK
  <2>4. ~AllocatorReuses => Addressed' /\ WorkIsOnDisk'
    BY <1>1, <1>6, <2>1 DEF Storing, Addressed, WorkIsOnDisk
  <2> QED
    BY <1>1, <1>4, <1>7, <2>1, <2>2, <2>3, <2>4 DEF Storing
<1> QED
  BY <1>8, <1>9

\* The editor ends, anywhere, and what is on the disk stays.
LEMMA StoringEnds ==
  ASSUME Storing, SessionEnds
  PROVE  Storing'
<1>1. /\ mapStep' = "down" /\ pDocument' = 0 /\ nAddresses' = 0 /\ path' = NoPath
      /\ states' = <<Blank>> /\ now' = 1 /\ cleanAt' = 1 /\ bTransaction' \in BOOLEAN
      /\ pLastCopied' = 0 /\ answer' = "none" /\ file' = file /\ copies' = copies
  BY DEF SessionEnds, NoAddress
<1>2. states' \in Seq(Contents) /\ Len(states') = 1 /\ states'[1] = Blank /\ NoPath \in Bases
  BY <1>1, WorkspaceAssumption DEF Bases
<1>3. MTypeOK'
  BY <1>1, <1>2, WorkspaceAssumption DEF Storing, MTypeOK
<1> QED
  BY <1>1, <1>2, <1>3 DEF Storing, MarkTrue, Listed, Addressed, WorkIsOnDisk

\* The editor starts with a new map.
LEMMA StoringRestarts ==
  ASSUME Storing, SessionStarts
  PROVE  Storing'
<1>1. /\ mapStep = "down" /\ mapStep' = "idle" /\ NewDocument
      /\ UNCHANGED <<path, states, now, cleanAt, bTransaction, pLastCopied, numbers,
                     file, copies, answer>>
  BY DEF SessionStarts, journal, autosave
<1>2. /\ nAddresses' \in 0 .. MaxAddresses /\ pDocument' \in 1 .. nAddresses'
      /\ pLastCopied \in 0 .. nAddresses'
      /\ ~AllocatorReuses => pDocument' = nAddresses + 1 /\ nAddresses' = pDocument'
  BY <1>1, DocumentAllocated DEF Storing
<1>3. Content' = Content
  BY <1>1 DEF Content
<1>4. WorkOnDisk' <=> WorkOnDisk
  BY <1>1, <1>3, DiskKept
<1>5. nAddresses' \in Nat /\ pDocument' \in 0 .. nAddresses' /\ pDocument' # 0
  BY <1>2, WorkspaceAssumption
<1>6. MTypeOK'
  BY <1>1, <1>2, <1>5 DEF Storing, MTypeOK
<1>7. ~AllocatorReuses => pLastCopied' # pDocument'
  BY <1>1, <1>2 DEF Storing, MTypeOK
<1> QED
  BY <1>1, <1>2, <1>4, <1>5, <1>6, <1>7 DEF Storing, MarkTrue, Listed, Addressed, WorkIsOnDisk

\* Nothing changes.
LEMMA StoringStutters ==
  ASSUME Storing, UNCHANGED mvars
  PROVE  Storing'
BY DEF Storing, MTypeOK, MarkTrue, Listed, Addressed, WorkIsOnDisk, WorkOnDisk, Content, Numbers,
       Newest, Last, mvars, liveDocument, journal, autosave

\* Every step keeps the invariant.
LEMMA StoringSteps == Storing /\ [MNext]_mvars => Storing'
<1> SUFFICES ASSUME Storing, [MNext]_mvars PROVE Storing'
  OBVIOUS
<1>1. CASE SessionStarts
  BY <1>1, StoringRestarts
<1>2. CASE Edit \/ UndoOrRedo
  BY <1>2, StoringEdits
<1>3. CASE Gesture
  BY <1>3, StoringGesture
<1>4. CASE New \/ Open
  BY <1>4, StoringAdopts
<1>5. CASE SaveAs
  BY <1>5, StoringSave
<1>6. CASE AutosaveDeclines
  BY <1>6, StoringDeclines
<1>7. CASE AutosaveLists
  BY <1>7, StoringLists
<1>8. CASE AutosaveFails
  BY <1>8, StoringFails
<1>9. CASE AutosaveWrites
  BY <1>9, StoringWrites
<1>10. CASE AutosavePrunes
  BY <1>10, StoringPrunes
<1>11. CASE SessionEnds
  BY <1>11, StoringEnds
<1>12. CASE UNCHANGED mvars
  BY <1>12, StoringStutters
<1> QED
  BY <1>1, <1>2, <1>3, <1>4, <1>5, <1>6, <1>7, <1>8, <1>9, <1>10, <1>11, <1>12 DEF MNext

\* The invariant always holds.
LEMMA StoringInvariant == MSpec => []Storing
BY StoringStarts, StoringSteps, PTL DEF MSpec

\* The invariant includes what an unmodified document promises.
LEMMA CleanIsOnDisk == Storing => CleanMeansOnDisk
BY DEF Storing, MTypeOK, MarkTrue, CleanMeansOnDisk, IsModified, Content

\* For any contents, paths and numbers of copies the workspace keeps its shape.
THEOREM MapTyped == MSpec => []MTypeOK
<1>1. Storing => MTypeOK
  BY DEF Storing
<1> QED
  BY <1>1, StoringInvariant, PTL

\* A document that is shown as not modified is the one in its file, or a new map, even if
\* addresses are reused.
THEOREM CleanAlwaysOnDisk == MSpec => []CleanMeansOnDisk
BY CleanIsOnDisk, StoringInvariant, PTL

\* As long as no two documents of a session had the same address, what the editor reports as
\* saved, copied or not modified is on disk.
THEOREM ReportsAlwaysTrue ==
  ASSUME ~AllocatorReuses
  PROVE  MSpec => []ReportsAreTrue
<1>1. Storing => ReportsAreTrue
  BY CleanIsOnDisk DEF Storing, ReportsAreTrue
<1> QED
  BY <1>1, StoringInvariant, PTL

\* No step replaces a map that can be read by something that cannot.
LEMMA FilesSurvive ==
  ASSUME Storing, [MNext]_mvars, NEW p \in Paths, file[p] \in Contents
  PROVE  file'[p] \in Contents
<1>1. CASE file' = file
  BY <1>1
<1>2. CASE file' # file
  <2>1. SaveAs
    BY <1>2 DEF MNext, SessionStarts, Edit, UndoOrRedo, Gesture, New, Open, Adopt, AutosaveDeclines,
         AutosaveLists, AutosaveFails, AutosaveWrites, AutosavePrunes, SessionEnds, mvars
  <2>2. Content \in Contents /\ file \in [Paths -> Contents \cup {Missing}]
    BY DEF Storing, MTypeOK, Content
  <2> QED
    BY <2>1, <2>2 DEF SaveAs, LeftByFailure
<1> QED
  BY <1>1, <1>2

\* No step takes the newest copy of a map away.
LEMMA NewestSurvives ==
  ASSUME Storing, [MNext]_mvars, NEW b \in Bases, Numbers(b) # {}
  PROVE  \E n \in Numbers(b)' : n >= Max(Numbers(b))
<1>1. /\ copies[b] \in CopySets /\ Numbers(b) \subseteq 1 .. MaxCopies
      /\ Numbers(b) \subseteq 0 .. MaxCopies /\ MaxCopies \in Nat
  BY CopiesShape, WorkspaceAssumption DEF Storing, Numbers
<1>2. Max(Numbers(b)) \in Numbers(b) /\ Max(Numbers(b)) \in Nat
  BY <1>1, GreatestExists
<1>3. CASE copies' = copies
  BY <1>2, <1>3 DEF Numbers
<1>4. CASE copies' # copies
  <2>1. AutosaveWrites \/ AutosavePrunes
    BY <1>4 DEF MNext, SessionStarts, Edit, UndoOrRedo, Gesture, New, Open, Adopt, SaveAs,
         AutosaveDeclines, AutosaveLists, AutosaveFails, SessionEnds, mvars
  <2>2. CASE b # path
    <3>1. copies'[b] = copies[b]
      BY <1>4, <2>1, <2>2, CopyWritten, CopyDeleted
    <3> QED
      BY <1>2, <3>1 DEF Numbers
  <2>3. CASE b = path
    <3>1. CASE AutosaveWrites
      BY <1>2, <2>3, <3>1, CopyWritten DEF Numbers
    <3>2. CASE AutosavePrunes
      <4>1. /\ mapStep = "prune" /\ Last(numbers) \in Numbers(b)'
        BY <1>4, <2>3, <3>2, CopyDeleted DEF AutosavePrunes, Numbers
      <4>2. Max(Numbers(b)) <= Last(numbers) /\ Last(numbers) \in Numbers(b)
        BY <1>2, <2>3, <4>1 DEF Storing, Listed
      <4>3. Last(numbers) >= Max(Numbers(b))
        BY <1>1, <1>2, <4>2
      <4> QED
        BY <4>1, <4>3
    <3> QED
      BY <2>1, <3>1, <3>2
  <2> QED
    BY <2>2, <2>3
<1> QED
  BY <1>3, <1>4

\* A map that can be read stays one whatever fails, and the newest copy of a map goes only
\* when there is a newer one, however autosaves fail and are cut off.
THEOREM MapsAlwaysSurvive == MSpec => MapsSurvive
<1> DEFINE Surviving ==
      /\ \A p \in Paths : file[p] \in Contents => file'[p] \in Contents
      /\ \A b \in Bases : Numbers(b) # {} => \E n \in Numbers(b)' : n >= Max(Numbers(b))
<1>1. Storing /\ [MNext]_mvars => Surviving
  BY FilesSurvive, NewestSurvives
<1>2. (Storing /\ [MNext]_mvars => Surviving) => (Storing /\ [MNext]_mvars => [Surviving]_mvars)
  OBVIOUS
<1> QED
  BY <1>1, <1>2, StoringInvariant, PTL DEF MSpec, MapsSurvive

-----------------------------------------------------------------------------
(* The parts side by side. *)

\* A behaviour of the parts side by side is one of each part, so that what is proved of a
\* part holds in the runs that check them together.
THEOREM PartsRun == EditorSpec => Spec /\ SSpec /\ MSpec
<1>1. EditorInit => Init /\ SInit /\ MInit
  BY DEF EditorInit
<1>2. [EditorNext]_editorVars => [Next]_vars /\ [SNext]_svars /\ [MNext]_mvars
  BY DEF EditorNext, editorVars
<1> QED
  BY <1>1, <1>2, PTL DEF EditorSpec, Spec, SSpec, MSpec

\* EditorTypeOK (HistoryIsValid of CypherCommon_UndoRedo.cpp, the settings store and the
\* autosave): journal, settings and maps keep their shape in any behaviour of the three.
THEOREM EditorTyped == EditorSpec => []EditorTypeOK
<1>1. UTypeOK /\ STypeOK /\ MTypeOK => EditorTypeOK
  BY DEF EditorTypeOK
<1> QED
  BY <1>1, PartsRun, JournalTyped, SettingsTypeCorrect, MapTyped, PTL
=============================================================================
