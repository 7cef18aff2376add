-------------------------- MODULE WorkbenchProofs --------------------------
(***************************************************************************)
(* What is proved of the components of MCWorkbench, for any values of its  *)
(* constants.                                                              *)
(*                                                                         *)
(* Codex: what a chat is given is what Codex said.  The messages that are  *)
(* put aside and those in the pipe are walked by a function that counts    *)
(* the words told before each of them (Tells): it starts at what the chat  *)
(* has and ends at what Codex has said, and at the end of the turn it has  *)
(* nothing left to count.                                                  *)
(*                                                                         *)
(* Review journals: a save is answered with the one row of its request,    *)
(* and a follower hears of every row.                                      *)
(*                                                                         *)
(* Drafts, of a single client: DraftInv relates the two files of a token   *)
(* to what its host remembers of them (TokenFits), and says of a request   *)
(* what the step it takes next relies on (HeadFits), by which steps are    *)
(* left of it (DraftScript).  The lemmas on values (NewDraftFits to        *)
(* DescribeFits) say what each step makes of one token; those on actions   *)
(* apply them to the state.                                                *)
(***************************************************************************)
EXTENDS MCWorkbench, FiniteSetTheorems, SequenceTheorems, TLAPS

-----------------------------------------------------------------------------
(* A queue of messages of Codex.                                           *)

Kinds == {"result", "missing", "error", "ask", "stray", "end", "delta", "item",
          "completed", "interrupted", "failed"}
Words == [kind : Kinds, of : Nat, words : Seq(Nat)]

\* The items that a queue has a word of.
Deltas(q) == {q[i].of : i \in {j \in DOMAIN q : q[j].kind = "delta"}}

\* The item of the ith message was told by words before it.
Streamed(q, i, already) ==
  \/ q[i].of \in already
  \/ \E j \in 1 .. i - 1 : q[j].kind = "delta" /\ q[j].of = q[i].of

\* The ith message tells a word that was not told before.
Adds(q, i, already) == q[i].kind = "delta" \/ (q[i].kind = "item" /\ ~Streamed(q, i, already))

\* f[i] words are told when the ith message is read, and all when the turn is over.
Counts(f, q, last, already) ==
  /\ f \in [1 .. Len(q) + 1 -> 0 .. last]
  /\ \A i \in 1 .. Len(q) :
       /\ f[i + 1] = IF Adds(q, i, already) THEN f[i] + 1 ELSE f[i]
       /\ Adds(q, i, already) => q[i].words = <<f[i] + 1>>
       /\ q[i].kind \in Codex!Terminal => f[i] = last

Tells(q, from, to, last, already) ==
  \E f : Counts(f, q, last, already) /\ f[1] = from /\ f[Len(q) + 1] = to

LEMMA EmptyTells ==
  ASSUME NEW a, NEW b, NEW last \in Nat, NEW already
  PROVE  Tells(<<>>, a, b, last, already) <=> a = b /\ a \in 0 .. last
<1>1. ASSUME Tells(<<>>, a, b, last, already) PROVE a = b /\ a \in 0 .. last
  BY <1>1 DEF Tells, Counts
<1>2. ASSUME a = b, a \in 0 .. last PROVE Tells(<<>>, a, b, last, already)
  <2> DEFINE f == [i \in 1 .. 1 |-> a]
  <2>1. Counts(f, <<>>, last, already) /\ f[1] = a
    BY <1>2 DEF Counts
  <2>. QED  BY <2>1, <1>2 DEF Tells
<1>. QED  BY <1>1, <1>2

\* A message at the end of a queue.
LEMMA TellsAppended ==
  ASSUME NEW q \in Seq(Words), NEW m \in Words, NEW a, NEW b, NEW last \in Nat, NEW already,
         Tells(q, a, b, last, already), NEW adds \in BOOLEAN,
         adds <=> m.kind = "delta" \/ (m.kind = "item" /\ m.of \notin already \cup Deltas(q)),
         adds => m.words = <<b + 1>> /\ b < last,
         m.kind \in Codex!Terminal => b = last
  PROVE  Tells(Append(q, m), a, IF adds THEN b + 1 ELSE b, last, already)
<1> DEFINE r == Append(q, m)
           n == Len(q)
           c == IF adds THEN b + 1 ELSE b
<1>1. PICK f : Counts(f, q, last, already) /\ f[1] = a /\ f[n + 1] = b
  BY DEF Tells
<1> DEFINE g == [i \in 1 .. n + 2 |-> IF i = n + 2 THEN c ELSE f[i]]
<1>2. n \in Nat /\ Len(r) = n + 1 /\ r[n + 1] = m /\ \A i \in 1 .. n : r[i] = q[i]
  OBVIOUS
<1>3. b \in 0 .. last
  BY <1>1, <1>2 DEF Counts
<1>4. g \in [1 .. Len(r) + 1 -> 0 .. last]
  BY <1>1, <1>2, <1>3 DEF Counts
<1>5. ASSUME NEW i \in 1 .. n
      PROVE  /\ g[i + 1] = IF Adds(r, i, already) THEN g[i] + 1 ELSE g[i]
             /\ Adds(r, i, already) => r[i].words = <<g[i] + 1>>
             /\ r[i].kind \in Codex!Terminal => g[i] = last
  <2>1. r[i] = q[i] /\ g[i] = f[i] /\ g[i + 1] = f[i + 1]
    BY <1>2
  <2>2. Adds(r, i, already) <=> Adds(q, i, already)
    BY <1>2, <2>1 DEF Adds, Streamed
  <2>. QED  BY <1>1, <2>1, <2>2 DEF Counts
<1>6. Adds(r, n + 1, already) <=> adds
  <2>1. m.of \in Deltas(q) <=> \E j \in 1 .. n : q[j].kind = "delta" /\ q[j].of = m.of
    BY DEF Deltas
  <2>. QED  BY <1>2, <2>1 DEF Adds, Streamed
<1>7. /\ g[n + 2] = IF Adds(r, n + 1, already) THEN g[n + 1] + 1 ELSE g[n + 1]
      /\ Adds(r, n + 1, already) => r[n + 1].words = <<g[n + 1] + 1>>
      /\ r[n + 1].kind \in Codex!Terminal => g[n + 1] = last
  BY <1>1, <1>2, <1>6
<1>8. Counts(g, r, last, already)
  <2>1. ASSUME NEW i \in 1 .. Len(r)
        PROVE  /\ g[i + 1] = IF Adds(r, i, already) THEN g[i] + 1 ELSE g[i]
               /\ Adds(r, i, already) => r[i].words = <<g[i] + 1>>
               /\ r[i].kind \in Codex!Terminal => g[i] = last
    <3>1. CASE i \in 1 .. n
      BY <3>1, <1>5
    <3>2. CASE i = n + 1
      BY <3>2, <1>2, <1>7, (n + 1) + 1 = n + 2
    <3>. QED  BY <1>2, <3>1, <3>2
  <2>. HIDE DEF g, r
  <2>. QED  BY <1>4, <2>1 DEF Counts
<1>9. g[1] = a /\ g[Len(r) + 1] = c
  BY <1>1, <1>2
<1>. QED  BY <1>8, <1>9 DEF Tells

LEMMA WordAppended ==
  ASSUME NEW q \in Seq(Words), NEW m \in Words, NEW a, NEW b, NEW last \in Nat, NEW already,
         Tells(q, a, b, last, already),
         m.kind = "delta" \/ (m.kind = "item" /\ m.of \notin already \cup Deltas(q)),
         m.words = <<b + 1>>, b < last
  PROVE  Tells(Append(q, m), a, b + 1, last, already)
<1> DEFINE adds == TRUE
<1>1. m.kind \notin Codex!Terminal
  BY DEF Codex!Terminal
<1>2. Tells(Append(q, m), a, IF adds THEN b + 1 ELSE b, last, already)
  <2>. HIDE DEF adds
  <2>1. adds
    BY DEF adds
  <2>. QED  BY <1>1, <2>1, TellsAppended
<1>. QED  BY <1>2

LEMMA NothingAppended ==
  ASSUME NEW q \in Seq(Words), NEW m \in Words, NEW a, NEW b, NEW last \in Nat, NEW already,
         Tells(q, a, b, last, already),
         m.kind # "delta", m.kind = "item" => m.of \in already \cup Deltas(q),
         m.kind \in Codex!Terminal => b = last
  PROVE  Tells(Append(q, m), a, b, last, already)
<1> DEFINE adds == FALSE
<1>1. Tells(Append(q, m), a, IF adds THEN b + 1 ELSE b, last, already)
  <2>. HIDE DEF adds
  <2>1. ~adds /\ adds \in BOOLEAN
    BY DEF adds
  <2>. QED  BY <2>1, TellsAppended
<1>. QED  BY <1>1

\* Codex has said one more word, and no queue has its end.
LEMMA TellsRaised ==
  ASSUME NEW q, NEW a, NEW b, NEW last \in Nat, NEW already, Tells(q, a, b, last, already),
         \A i \in 1 .. Len(q) : q[i].kind \notin Codex!Terminal
  PROVE  Tells(q, a, b, last + 1, already)
<1>1. PICK f : Counts(f, q, last, already) /\ f[1] = a /\ f[Len(q) + 1] = b
  BY DEF Tells
<1>2. Counts(f, q, last + 1, already)
  <2>1. f \in [1 .. Len(q) + 1 -> 0 .. last + 1]
    BY <1>1 DEF Counts
  <2>. QED  BY <1>1, <2>1 DEF Counts
<1>. QED  BY <1>1, <1>2 DEF Tells

\* The head of a queue is read: what it tells, and what is left.
LEMMA TellsRead ==
  ASSUME NEW q \in Seq(Words), q # <<>>, NEW a, NEW b, NEW last \in Nat, NEW already,
         Tells(q, a, b, last, already)
  PROVE  /\ a \in 0 .. last
         /\ LET m == Head(q)
                adds == m.kind = "delta" \/ (m.kind = "item" /\ m.of \notin already)
                now == IF m.kind = "delta" THEN already \cup {m.of} ELSE already
            IN /\ Tells(Tail(q), IF adds THEN a + 1 ELSE a, b, last, now)
               /\ adds => m.words = <<a + 1>> /\ a + 1 <= last
               /\ m.kind \in Codex!Terminal => a = last
<1> DEFINE m == Head(q)
           r == Tail(q)
           n == Len(q)
           adds == m.kind = "delta" \/ (m.kind = "item" /\ m.of \notin already)
           now == IF m.kind = "delta" THEN already \cup {m.of} ELSE already
           c == IF adds THEN a + 1 ELSE a
<1>1. PICK f : Counts(f, q, last, already) /\ f[1] = a /\ f[n + 1] = b
  BY DEF Tells
<1> DEFINE g == [i \in 1 .. n |-> f[i + 1]]
<1>2. /\ n \in Nat \ {0} /\ Len(r) = n - 1 /\ m = q[1] /\ r \in Seq(Words)
      /\ \A i \in 1 .. n - 1 : r[i] = q[i + 1]
  OBVIOUS
<1>3. /\ Adds(q, 1, already) <=> adds
      /\ c = f[2] /\ f[1] \in 0 .. last /\ f[2] \in 0 .. last
      /\ adds => m.words = <<a + 1>>
      /\ m.kind \in Codex!Terminal => a = last
  <2>1. Adds(q, 1, already) <=> adds
    BY <1>2 DEF Adds, Streamed
  <2>. QED  BY <1>1, <1>2, <2>1 DEF Counts
<1>4. g \in [1 .. Len(r) + 1 -> 0 .. last] /\ g[1] = c /\ g[Len(r) + 1] = b
  BY <1>1, <1>2, <1>3 DEF Counts
<1>5. ASSUME NEW i \in 1 .. Len(r)
      PROVE  /\ g[i + 1] = IF Adds(r, i, now) THEN g[i] + 1 ELSE g[i]
             /\ Adds(r, i, now) => r[i].words = <<g[i] + 1>>
             /\ r[i].kind \in Codex!Terminal => g[i] = last
  <2>1. i + 1 \in 1 .. n /\ r[i] = q[i + 1] /\ g[i] = f[i + 1] /\ g[i + 1] = f[i + 2]
    BY <1>2
  <2>2. Streamed(r, i, now) <=> Streamed(q, i + 1, already)
    <3>1. ASSUME Streamed(r, i, now) PROVE Streamed(q, i + 1, already)
      <4>1. CASE r[i].of \in now
        BY <4>1, <1>2, <2>1 DEF Streamed
      <4>2. ASSUME NEW j \in 1 .. i - 1, r[j].kind = "delta", r[j].of = r[i].of
            PROVE  Streamed(q, i + 1, already)
        <5>1. j + 1 \in 1 .. i /\ r[j] = q[j + 1]
          BY <1>2
        <5>. QED  BY <4>2, <5>1, <2>1 DEF Streamed
      <4>. QED  BY <3>1, <4>1, <4>2 DEF Streamed
    <3>2. ASSUME Streamed(q, i + 1, already) PROVE Streamed(r, i, now)
      <4>1. CASE q[i + 1].of \in already
        BY <4>1, <2>1 DEF Streamed
      <4>2. ASSUME NEW j \in 1 .. i, q[j].kind = "delta", q[j].of = q[i + 1].of
            PROVE  Streamed(r, i, now)
        <5>1. CASE j = 1
          BY <4>2, <5>1, <1>2, <2>1 DEF Streamed
        <5>2. CASE j # 1
          <6>1. j - 1 \in 1 .. i - 1 /\ r[j - 1] = q[j]
            BY <5>2, <1>2
          <6>. QED  BY <4>2, <6>1, <2>1 DEF Streamed
        <5>. QED  BY <5>1, <5>2
      <4>. QED  BY <3>2, <4>1, <4>2, (i + 1) - 1 = i DEF Streamed
    <3>. QED  BY <3>1, <3>2
  <2>3. Adds(r, i, now) <=> Adds(q, i + 1, already)
    BY <2>1, <2>2 DEF Adds
  <2>4. /\ f[(i + 1) + 1] = IF Adds(q, i + 1, already) THEN f[i + 1] + 1 ELSE f[i + 1]
        /\ Adds(q, i + 1, already) => q[i + 1].words = <<f[i + 1] + 1>>
        /\ q[i + 1].kind \in Codex!Terminal => f[i + 1] = last
    BY <1>1, <2>1 DEF Counts
  <2>. QED  BY <2>1, <2>3, <2>4
<1>6. Tells(r, c, b, last, now)
  BY <1>4, <1>5 DEF Tells, Counts
<1>. QED  BY <1>1, <1>3, <1>6

LEMMA DeltasOf ==
  /\ Deltas(<<>>) = {}
  /\ \A q \in Seq(Words), m \in Words :
       Deltas(Append(q, m)) = Deltas(q) \cup (IF m.kind = "delta" THEN {m.of} ELSE {})
  /\ \A q \in Seq(Words) : q # <<>> =>
       Deltas(q) = Deltas(Tail(q)) \cup (IF Head(q).kind = "delta" THEN {Head(q).of} ELSE {})
<1>1. Deltas(<<>>) = {}
  BY DEF Deltas
<1>2. ASSUME NEW q \in Seq(Words), NEW m \in Words
      PROVE  Deltas(Append(q, m)) = Deltas(q) \cup (IF m.kind = "delta" THEN {m.of} ELSE {})
  <2> DEFINE r == Append(q, m)
  <2>1. /\ DOMAIN q = 1 .. Len(q) /\ DOMAIN r = 1 .. Len(q) + 1 /\ Len(q) \in Nat
        /\ r[Len(q) + 1] = m /\ \A i \in 1 .. Len(q) : r[i] = q[i]
    OBVIOUS
  <2>. HIDE DEF r
  <2>. QED  BY <2>1 DEF Deltas
<1>3. ASSUME NEW q \in Seq(Words), q # <<>>
      PROVE  Deltas(q) = Deltas(Tail(q)) \cup (IF Head(q).kind = "delta" THEN {Head(q).of} ELSE {})
  <2> DEFINE r == Tail(q)
             m == Head(q)
  <2>1. /\ DOMAIN q = 1 .. Len(q) /\ DOMAIN r = 1 .. Len(q) - 1 /\ Len(q) \in Nat \ {0}
        /\ m = q[1] /\ \A i \in 1 .. Len(q) - 1 : r[i] = q[i + 1]
    BY <1>3
  <2>. HIDE DEF r, m
  <2>2. ASSUME NEW x \in Deltas(q) PROVE x \in Deltas(r) \cup (IF m.kind = "delta" THEN {m.of} ELSE {})
    <3>1. PICK i \in 1 .. Len(q) : q[i].kind = "delta" /\ x = q[i].of
      BY <2>1 DEF Deltas
    <3>2. CASE i = 1
      BY <2>1, <3>1, <3>2
    <3>3. CASE i # 1
      <4>1. i - 1 \in 1 .. Len(q) - 1 /\ r[i - 1] = q[i]
        BY <2>1, <3>3
      <4>. QED  BY <2>1, <3>1, <4>1 DEF Deltas
    <3>. QED  BY <3>2, <3>3
  <2>3. Deltas(r) \subseteq Deltas(q)
    <3>1. \A i \in 1 .. Len(q) - 1 : i + 1 \in 1 .. Len(q)
      BY <2>1
    <3>. QED  BY <2>1, <3>1 DEF Deltas
  <2>4. m.kind = "delta" => m.of \in Deltas(q)
    BY <2>1 DEF Deltas
  <2>5. Deltas(q) = Deltas(r) \cup (IF m.kind = "delta" THEN {m.of} ELSE {})
    BY <2>2, <2>3, <2>4
  <2>. QED  BY <2>5 DEF r, m
<1>. QED  BY <1>1, <1>2, <1>3

-----------------------------------------------------------------------------
(* The messages that are put aside, and then the ones in the pipe.         *)

Known(aside, pipe, already) == already \cup Deltas(aside) \cup Deltas(pipe)

InFlight(aside, pipe, has, last, already, new) ==
  /\ \E mid : /\ Tells(aside, has, mid, last, already)
              /\ Tells(pipe, mid, last, last, already \cup Deltas(aside))
  /\ \A n \in Known(aside, pipe, already) : n \in Nat /\ n <= new.number
  /\ new.told # <<>> <=> new.number \in Known(aside, pipe, already)

Quiet(m) == m.kind \notin {"delta", "item"}
NoEnd(q) == \A i \in 1 .. Len(q) : q[i].kind \notin Codex!Terminal
Items == [number : Nat, told : Seq(Nat)]

LEMMA QuietSent ==
  ASSUME NEW aside \in Seq(Words), NEW pipe \in Seq(Words), NEW has, NEW last \in Nat, NEW already,
         NEW new, InFlight(aside, pipe, has, last, already, new), NEW m \in Words, Quiet(m)
  PROVE  InFlight(aside, Append(pipe, m), has, last, already, new)
<1>1. PICK mid : /\ Tells(aside, has, mid, last, already)
                 /\ Tells(pipe, mid, last, last, already \cup Deltas(aside))
  BY DEF InFlight
<1>2. Tells(Append(pipe, m), mid, last, last, already \cup Deltas(aside))
  <2>1. m.kind # "delta" /\ m.kind # "item"
    BY DEF Quiet
  <2>. QED  BY <1>1, <2>1, NothingAppended
<1>3. Deltas(Append(pipe, m)) = Deltas(pipe)
  <2>1. m.kind # "delta"
    BY DEF Quiet
  <2>2. Deltas(Append(pipe, m)) = Deltas(pipe) \cup (IF m.kind = "delta" THEN {m.of} ELSE {})
    BY DeltasOf
  <2>. QED  BY <2>1, <2>2
<1>. QED  BY <1>1, <1>2, <1>3 DEF InFlight, Known

LEMMA WordSent ==
  ASSUME NEW aside \in Seq(Words), NEW pipe \in Seq(Words), NEW has, NEW last \in Nat, NEW already,
         NEW new \in Items, InFlight(aside, pipe, has, last, already, new),
         NoEnd(aside), NoEnd(pipe),
         NEW m \in Words, m.words = <<last + 1>>, m.of = new.number,
         m.kind = "delta" \/ (m.kind = "item" /\ new.told = <<>>),
         NEW next \in Items,
         next.number = (IF m.kind = "delta" THEN new.number ELSE new.number + 1),
         next.told = <<>> <=> m.kind = "item"
  PROVE  InFlight(aside, Append(pipe, m), has, last + 1, already, next)
<1> DEFINE all == already \cup Deltas(aside)
<1>1. PICK mid : Tells(aside, has, mid, last, already) /\ Tells(pipe, mid, last, last, all)
  BY DEF InFlight
<1>2. Tells(aside, has, mid, last + 1, already) /\ Tells(pipe, mid, last, last + 1, all)
  BY <1>1, TellsRaised DEF NoEnd
<1>3. Tells(Append(pipe, m), mid, last + 1, last + 1, all)
  <2>1. m.kind = "delta" \/ (m.kind = "item" /\ m.of \notin all \cup Deltas(pipe))
    BY DEF InFlight, Known
  <2>. HIDE DEF all
  <2>. QED  BY <1>2, <2>1, WordAppended
<1>4. Deltas(Append(pipe, m)) = Deltas(pipe) \cup (IF m.kind = "delta" THEN {m.of} ELSE {})
  BY DeltasOf
<1>5. Known(aside, Append(pipe, m), already)
        = Known(aside, pipe, already) \cup (IF m.kind = "delta" THEN {m.of} ELSE {})
  BY <1>4 DEF Known
<1>6. new.number \in Nat
  BY DEF Items
<1>7. /\ \A n \in Known(aside, Append(pipe, m), already) : n \in Nat /\ n <= next.number
      /\ next.told # <<>> <=> next.number \in Known(aside, Append(pipe, m), already)
  <2>1. \A n \in Known(aside, pipe, already) : n \in Nat /\ n <= new.number
    BY DEF InFlight
  <2>2. CASE m.kind = "delta"
    BY <1>5, <1>6, <2>1, <2>2
  <2>3. CASE m.kind = "item"
    <3>1. new.number + 1 \notin Known(aside, pipe, already)
      BY <1>6, <2>1
    <3>. QED  BY <1>5, <1>6, <2>1, <2>3, <3>1
  <2>. QED  BY <2>2, <2>3
<1>. QED  BY <1>3, <1>2, <1>7 DEF InFlight

LEMMA WholeSent ==
  ASSUME NEW aside \in Seq(Words), NEW pipe \in Seq(Words), NEW has, NEW last \in Nat, NEW already,
         NEW new \in Items, InFlight(aside, pipe, has, last, already, new), new.told # <<>>,
         NEW m \in Words, m.kind = "item", m.of = new.number,
         NEW next \in Items, next.number = new.number + 1, next.told = <<>>
  PROVE  InFlight(aside, Append(pipe, m), has, last, already, next)
<1> DEFINE all == already \cup Deltas(aside)
<1>1. PICK mid : Tells(aside, has, mid, last, already) /\ Tells(pipe, mid, last, last, all)
  BY DEF InFlight
<1>2. Tells(Append(pipe, m), mid, last, last, all)
  <2>1. m.kind # "delta" /\ m.of \in all \cup Deltas(pipe) /\ m.kind \notin Codex!Terminal
    BY DEF InFlight, Known, Codex!Terminal
  <2>. HIDE DEF all
  <2>. QED  BY <1>1, <2>1, NothingAppended
<1>3. Known(aside, Append(pipe, m), already) = Known(aside, pipe, already)
  BY DeltasOf DEF Known
<1>4. new.number \in Nat /\ new.number + 1 \notin Known(aside, pipe, already)
  BY DEF InFlight, Items
<1>. QED  BY <1>1, <1>2, <1>3, <1>4 DEF InFlight

LEMMA PutAside ==
  ASSUME NEW aside \in Seq(Words), NEW pipe \in Seq(Words), pipe # <<>>, NEW has, NEW last \in Nat,
         NEW already, NEW new, InFlight(aside, pipe, has, last, already, new)
  PROVE  InFlight(Append(aside, Head(pipe)), Tail(pipe), has, last, already, new)
<1> DEFINE m == Head(pipe)
           all == already \cup Deltas(aside)
           adds == m.kind = "delta" \/ (m.kind = "item" /\ m.of \notin all)
           now == IF m.kind = "delta" THEN all \cup {m.of} ELSE all
<1>1. PICK mid : Tells(aside, has, mid, last, already) /\ Tells(pipe, mid, last, last, all)
  BY DEF InFlight
<1> DEFINE next == IF adds THEN mid + 1 ELSE mid
<1>2. /\ mid \in 0 .. last
      /\ Tells(Tail(pipe), next, last, last, now)
      /\ adds => m.words = <<mid + 1>> /\ mid + 1 <= last
      /\ m.kind \in Codex!Terminal => mid = last
  BY <1>1, TellsRead
<1>3. m \in Words
  OBVIOUS
<1>4. Tells(Append(aside, m), has, next, last, already)
  <2>1. CASE adds
    <3>1. mid < last
      BY <1>2, <2>1
    <3>. QED  BY <1>1, <1>2, <1>3, <2>1, <3>1, WordAppended
  <2>2. CASE ~adds
    BY <1>1, <1>2, <1>3, <2>2, NothingAppended
  <2>. QED  BY <2>1, <2>2
<1>5. /\ already \cup Deltas(Append(aside, m)) = now
      /\ Known(Append(aside, m), Tail(pipe), already) = Known(aside, pipe, already)
  BY <1>3, DeltasOf DEF Known
<1>. QED  BY <1>2, <1>4, <1>5 DEF InFlight

\* An answer or a question of Codex leaves the pipe.
LEMMA QuietTaken ==
  ASSUME NEW aside \in Seq(Words), NEW pipe \in Seq(Words), pipe # <<>>, Quiet(Head(pipe)), NEW has,
         NEW last \in Nat, NEW already, NEW new, InFlight(aside, pipe, has, last, already, new)
  PROVE  InFlight(aside, Tail(pipe), has, last, already, new)
<1>1. PICK mid : /\ Tells(aside, has, mid, last, already)
                 /\ Tells(pipe, mid, last, last, already \cup Deltas(aside))
  BY DEF InFlight
<1>2. Head(pipe).kind # "delta" /\ Head(pipe).kind # "item"
  BY DEF Quiet
<1>3. Tells(Tail(pipe), mid, last, last, already \cup Deltas(aside))
  BY <1>1, <1>2, TellsRead
<1>4. Deltas(Tail(pipe)) = Deltas(pipe)
  <2>1. Deltas(pipe) = Deltas(Tail(pipe))
                          \cup (IF Head(pipe).kind = "delta" THEN {Head(pipe).of} ELSE {})
    BY DeltasOf
  <2>. QED  BY <1>2, <2>1
<1>. QED  BY <1>1, <1>3, <1>4 DEF InFlight, Known

\* The provider reads the next message: the first put aside, ...
LEMMA AsideRead ==
  ASSUME NEW aside \in Seq(Words), NEW pipe \in Seq(Words), NEW has \in Nat, NEW last \in Nat,
         NEW already, NEW new, InFlight(aside, pipe, has, last, already, new), aside # <<>>
  PROVE  LET m == Head(aside)
             adds == m.kind = "delta" \/ (m.kind = "item" /\ m.of \notin already)
             now == IF m.kind = "delta" THEN already \cup {m.of} ELSE already
         IN /\ InFlight(Tail(aside), pipe, IF adds THEN has + 1 ELSE has, last, now, new)
            /\ adds => m.words = <<has + 1>> /\ has + 1 <= last
            /\ m.kind \in Codex!Terminal => has = last
<1> DEFINE m == Head(aside)
           adds == m.kind = "delta" \/ (m.kind = "item" /\ m.of \notin already)
           now == IF m.kind = "delta" THEN already \cup {m.of} ELSE already
           next == IF adds THEN has + 1 ELSE has
<1>1. PICK mid : /\ Tells(aside, has, mid, last, already)
                 /\ Tells(pipe, mid, last, last, already \cup Deltas(aside))
  BY DEF InFlight
<1>2. /\ Tells(Tail(aside), next, mid, last, now)
      /\ adds => m.words = <<has + 1>> /\ has + 1 <= last
      /\ m.kind \in Codex!Terminal => has = last
  BY <1>1, TellsRead
<1>3. Deltas(aside) = Deltas(Tail(aside)) \cup (IF m.kind = "delta" THEN {m.of} ELSE {})
  BY DeltasOf
<1>4. /\ now \cup Deltas(Tail(aside)) = already \cup Deltas(aside)
      /\ Known(Tail(aside), pipe, now) = Known(aside, pipe, already)
  BY <1>3 DEF Known
<1>. QED  BY <1>1, <1>2, <1>4 DEF InFlight

\* ... or, when there is none, the head of the pipe.
LEMMA PipeRead ==
  ASSUME NEW pipe \in Seq(Words), NEW has \in Nat, NEW last \in Nat,
         NEW already, NEW new, InFlight(<<>>, pipe, has, last, already, new), pipe # <<>>
  PROVE  LET m == Head(pipe)
             adds == m.kind = "delta" \/ (m.kind = "item" /\ m.of \notin already)
             now == IF m.kind = "delta" THEN already \cup {m.of} ELSE already
         IN /\ InFlight(<<>>, Tail(pipe), IF adds THEN has + 1 ELSE has, last, now, new)
            /\ adds => m.words = <<has + 1>> /\ has + 1 <= last
            /\ m.kind \in Codex!Terminal => has = last
<1> DEFINE m == Head(pipe)
           adds == m.kind = "delta" \/ (m.kind = "item" /\ m.of \notin already)
           now == IF m.kind = "delta" THEN already \cup {m.of} ELSE already
           next == IF adds THEN has + 1 ELSE has
<1>1. PICK mid : /\ Tells(<<>>, has, mid, last, already)
                 /\ Tells(pipe, mid, last, last, already \cup Deltas(<<>>))
  BY DEF InFlight
<1>2. Deltas(<<>>) = {} /\ mid = has /\ has \in 0 .. last
  BY <1>1, DeltasOf, EmptyTells
<1>3. Tells(pipe, has, last, last, already)
  BY <1>1, <1>2
<1>4. /\ Tells(Tail(pipe), next, last, last, now)
      /\ adds => m.words = <<has + 1>> /\ has + 1 <= last
      /\ m.kind \in Codex!Terminal => has = last
  BY <1>3, TellsRead
<1>5. Tells(<<>>, next, next, last, now)
  <2>1. next \in 0 .. last
    BY <1>2, <1>4
  <2>. QED  BY <2>1, EmptyTells
<1>6. Deltas(pipe) = Deltas(Tail(pipe)) \cup (IF m.kind = "delta" THEN {m.of} ELSE {})
  BY DeltasOf
<1>7. /\ Known(<<>>, Tail(pipe), now) = Known(<<>>, pipe, already)
      /\ now \cup Deltas(<<>>) = now
  BY <1>2, <1>6 DEF Known
<1>. QED  BY <1>4, <1>5, <1>7 DEF InFlight

-----------------------------------------------------------------------------
(* The invariant of a turn.                                                *)

Starting == {"initialize", "thread/resume", "thread/start"}

CodexTypes ==
  /\ stage \in {"idle", "loop", "read"} \cup Codex!Waiting
  /\ codex \in {"off", "ready", "running", "over"}
  /\ inbox \in Seq(Words) /\ pending \in Seq(Words)
  /\ item \in Items /\ spoken \in Nat /\ said \in Seq(Nat)

\* Where a turn is, and what of it cannot have begun.
CodexPlaces ==
  /\ due \in {"none", stage}
  /\ stage \in {"idle", "loop", "read"} => due = "none"
  /\ stage = "idle" => codex = "off"
  /\ stage # "idle" => outcome = "none"
  /\ stage = "read" => provider_events = 0
  /\ stage \in Starting =>
       /\ codex \in {"ready", "off"} /\ spoken = 0 /\ provider_events = 0 /\ verdict = "none"
       /\ \A i \in 1 .. Len(inbox) : inbox[i].kind # "ask"

\* The end of a turn in a queue is the one Codex made, who says no more.
EndIn(q, state, how) ==
  \A i \in 1 .. Len(q) : q[i].kind \in Codex!Terminal =>
    state \notin {"ready", "running"} /\ q[i].kind = how
CodexQueues ==
  stage # "idle" =>
    /\ InFlight(pending, inbox, Len(said), spoken, deltaItems, item)
    /\ EndIn(pending, codex, verdict) /\ EndIn(inbox, codex, verdict)

\* The pipe has the answer to a request once, and then none is due; and it has
\* none when the provider waits for none.
IsAnswer(m) == m.kind \in {"result", "missing", "error"}
AnsweredOnce(q, request) ==
  \A i \in 1 .. Len(q) : IsAnswer(q[i]) =>
    request = "none" /\ \A j \in 1 .. Len(q) : IsAnswer(q[j]) => j = i

Owed == IF stage \in Codex!Waiting THEN due ELSE "nothing"

TurnInv == CodexTypes /\ CodexPlaces /\ CodexQueues /\ Codex!EveryWordOnce
CodexInv == TurnInv /\ AnsweredOnce(inbox, Owed)

LEMMA CodexNotes ==
  \A kind \in Kinds : /\ Codex!Note(kind) \in Words /\ Codex!Note(kind).kind = kind
                      /\ Codex!Note(kind).words = <<>>
BY DEF Codex!Note, Codex!Message, Words

LEMMA CodexEnds ==
  ASSUME NEW q \in Seq(Words), NEW m \in Words, NEW state, NEW how, EndIn(q, state, how)
  PROVE  /\ (m.kind \in Codex!Terminal => state \notin {"ready", "running"} /\ m.kind = how)
              => EndIn(Append(q, m), state, how)
         /\ q # <<>> => /\ EndIn(Tail(q), state, how)
                        /\ Head(q).kind \in Codex!Terminal =>
                             state \notin {"ready", "running"} /\ Head(q).kind = how
<1>1. ASSUME m.kind \in Codex!Terminal => state \notin {"ready", "running"} /\ m.kind = how
      PROVE  EndIn(Append(q, m), state, how)
  BY <1>1 DEF EndIn
<1>2. ASSUME q # <<>>
      PROVE  /\ EndIn(Tail(q), state, how)
             /\ Head(q).kind \in Codex!Terminal =>
                  state \notin {"ready", "running"} /\ Head(q).kind = how
  BY <1>2 DEF EndIn
<1>. QED  BY <1>1, <1>2

LEMMA CodexStarts == Codex!Init => CodexInv
<1>. SUFFICES ASSUME Codex!Init PROVE CodexInv
  OBVIOUS
<1>. QED  BY DEF Codex!Init, CodexInv, TurnInv, AnsweredOnce, CodexTypes, CodexPlaces, CodexQueues, Codex!EveryWordOnce,
             Codex!NoItem, Items, Starting

\* A turn that is over, however it ended.
LEMMA CodexEnded ==
  ASSUME CodexInv, NEW event, Codex!Ends(event), said' \in Seq(Nat), spoken' = spoken, item' = item,
         verdict' = verdict, provider_events' = provider_events,
         Len(said') <= spoken, \A k \in DOMAIN said' : said'[k] = k,
         event = "completed" => verdict = "completed" /\ Len(said') = spoken,
         event = "cancelled" => \/ verdict = "interrupted" /\ Len(said') = spoken
                                \/ verdict = "none" /\ spoken = 0,
         event \in {"completed", "cancelled"} => provider_events = 0
  PROVE  TurnInv'
BY DEF CodexInv, TurnInv, CodexTypes, CodexPlaces, CodexQueues, Codex!EveryWordOnce, Codex!Ends, Starting

\* Codex sends an answer, a question or its end.
LEMMA CodexSends ==
  ASSUME CodexInv, stage # "idle", NEW m \in Words, Codex!Sends(m), Quiet(m),
         m.kind \in Codex!Terminal => codex' \notin {"ready", "running"} /\ m.kind = verdict',
         codex' = codex \/ codex' \in {"off", "over"},
         verdict' = verdict \/ codex \in {"ready", "running"},
         UNCHANGED <<stage, pending, item, spoken, said, deltaItems>>
  PROVE  CodexTypes' /\ CodexQueues'
<1>1. CodexTypes'
  BY DEF CodexInv, TurnInv, CodexTypes, Codex!Sends
<1>2. InFlight(pending, inbox, Len(said), spoken, deltaItems, item)'
  BY QuietSent DEF CodexInv, TurnInv, CodexTypes, CodexQueues, Codex!Sends
<1>3. EndIn(pending, codex', verdict') /\ EndIn(inbox, codex', verdict')
  BY DEF CodexInv, TurnInv, CodexQueues, EndIn
<1>4. EndIn(inbox', codex', verdict')
  BY <1>3, CodexEnds DEF CodexInv, TurnInv, CodexTypes, Codex!Sends
<1>. QED  BY <1>1, <1>2, <1>3, <1>4 DEF CodexQueues

LEMMA CodexAnswersThread == ASSUME CodexInv, Codex!AnswerThread PROVE TurnInv'
<1>1. stage \in Starting /\ stage = due /\ stage # "idle"
  BY DEF CodexInv, TurnInv, CodexPlaces, Codex!AnswerThread, Starting
<1>2. PICK kind \in {"result", "missing"} : Codex!Answers(kind)
  BY DEF Codex!AnswerThread
<1>3. /\ due' = "none" /\ inbox' = Append(inbox, Codex!Note(kind)) /\ Codex!Sends(Codex!Note(kind))
      /\ UNCHANGED <<stage, codex, pending, item, spoken, deltaItems, said, provider_events, outcome,
                     verdict>>
  BY <1>2 DEF Codex!AnswerThread, Codex!Answers, Codex!Sends, Codex!speech, Codex!heard,
     Codex!questions, Codex!ends
<1>4. CodexTypes' /\ CodexQueues'
  <2>1. Codex!Note(kind) \in Words /\ Quiet(Codex!Note(kind)) /\ Codex!Note(kind).kind \notin Codex!Terminal
    BY CodexNotes DEF Kinds, Quiet, Codex!Terminal
  <2>. QED  BY <1>1, <1>3, <2>1, CodexSends
<1>5. CodexPlaces'
  <2>1. \A i \in 1 .. Len(inbox') : inbox'[i].kind # "ask"
    BY <1>1, <1>3, CodexNotes DEF Kinds, CodexInv, TurnInv, CodexPlaces, CodexTypes
  <2>. QED  BY <1>1, <1>3, <2>1 DEF CodexInv, TurnInv, CodexPlaces, Starting
<1>6. Codex!EveryWordOnce'
  BY <1>3 DEF CodexInv, TurnInv, Codex!EveryWordOnce
<1>. QED  BY <1>4, <1>5, <1>6 DEF CodexInv, TurnInv

LEMMA CodexAnswersTurn == ASSUME CodexInv, Codex!AnswerTurn PROVE TurnInv'
<1>1. stage = due /\ stage \in {"turn/start", "turn/interrupt"}
  BY DEF CodexInv, TurnInv, CodexPlaces, Codex!AnswerTurn
<1>2. /\ UNCHANGED <<stage, pending, item, spoken, deltaItems, said, provider_events, outcome>>
      /\ due' \in {"none", due} /\ codex' \in {"off", "ready", "running", "over"}
  BY DEF CodexInv, TurnInv, CodexTypes, Codex!AnswerTurn, Codex!Answers, Codex!speech, Codex!heard, Codex!questions
<1>3. CodexPlaces'
  BY <1>1, <1>2 DEF CodexInv, TurnInv, CodexPlaces, Starting
<1>4. Codex!EveryWordOnce'
  BY <1>1, <1>2 DEF CodexInv, TurnInv, CodexPlaces, Codex!EveryWordOnce
<1>5. CodexTypes' /\ CodexQueues'
  <2>1. CASE due = "turn/start" /\ codex = "ready" /\ codex' = "running" /\ UNCHANGED <<due, inbox, verdict>>
    BY <1>1, <1>2, <2>1 DEF CodexInv, TurnInv, CodexTypes, CodexQueues, EndIn
  <2>2. ASSUME NEW kind \in {"result", "error"}, Codex!Answers(kind), UNCHANGED <<codex, verdict>>
        PROVE  CodexTypes' /\ CodexQueues'
    <3>1. /\ Codex!Sends(Codex!Note(kind)) /\ Codex!Note(kind) \in Words /\ Quiet(Codex!Note(kind))
          /\ Codex!Note(kind).kind \notin Codex!Terminal
      BY <2>2, CodexNotes DEF Kinds, Quiet, Codex!Terminal, Codex!Answers
    <3>. QED  BY <1>1, <1>2, <2>2, <3>1, CodexSends
  <2>3. ASSUME codex = "running", inbox' = inbox \o <<Codex!Note("result"), Codex!Note("interrupted")>>,
               codex' = "over", verdict' = "interrupted"
        PROVE  CodexTypes' /\ CodexQueues'
    <3> DEFINE one == Codex!Note("result")
               two == Codex!Note("interrupted")
    <3>1. one \in Words /\ two \in Words /\ one.kind = "result" /\ two.kind = "interrupted"
      BY CodexNotes DEF Kinds
    <3>. HIDE DEF one, two
    <3>2. inbox \in Seq(Words) /\ pending \in Seq(Words) /\ Append(inbox, one) \in Seq(Words)
      BY <3>1 DEF CodexInv, TurnInv, CodexTypes
    <3>3. inbox' = Append(Append(inbox, one), two)
      <4>1. inbox' = inbox \o <<one, two>>
        BY <2>3 DEF one, two
      <4>. QED  BY <3>1, <3>2, <4>1
    <3>4. CodexTypes'
      <4>1. inbox' \in Seq(Words)
        BY <3>1, <3>2, <3>3
      <4>. QED  BY <1>1, <1>2, <2>3, <4>1 DEF CodexInv, TurnInv, CodexTypes
    <3>5. InFlight(pending, Append(inbox, one), Len(said), spoken, deltaItems, item)
      BY <1>1, <3>1, <3>2, QuietSent DEF CodexInv, TurnInv, CodexQueues, CodexTypes, Quiet
    <3>6. InFlight(pending, inbox', Len(said), spoken, deltaItems, item)
      BY <3>1, <3>2, <3>3, <3>5, QuietSent DEF CodexInv, TurnInv, CodexTypes, Quiet
    <3>7. EndIn(pending, "over", "interrupted") /\ EndIn(inbox, "over", "interrupted")
      BY <1>1, <2>3 DEF CodexInv, TurnInv, CodexQueues, EndIn
    <3>8. EndIn(Append(inbox, one), "over", "interrupted")
      BY <3>1, <3>2, <3>7, CodexEnds DEF Codex!Terminal
    <3>9. EndIn(inbox', "over", "interrupted")
      BY <3>1, <3>2, <3>3, <3>8, CodexEnds
    <3>. QED  BY <1>2, <2>3, <3>4, <3>6, <3>7, <3>9 DEF CodexQueues
  <2>. QED  BY <2>1, <2>2, <2>3 DEF Codex!AnswerTurn
<1>. QED  BY <1>3, <1>4, <1>5 DEF CodexInv, TurnInv

\* A word, or a whole item, leaves the end of no turn behind it in a queue.
LEMMA CodexSpeaks == ASSUME CodexInv, Codex!Speak PROVE TurnInv'
<1>1. /\ stage # "idle" /\ stage \notin Starting /\ codex = "running"
      /\ UNCHANGED <<stage, due, codex, pending, deltaItems, said, provider_events, outcome, verdict>>
  BY DEF CodexInv, TurnInv, CodexPlaces, Codex!Speak, Codex!heard, Codex!questions, Codex!ends
<1>2. CodexPlaces'
  BY <1>1 DEF CodexInv, TurnInv, CodexPlaces
<1>3. /\ inbox \in Seq(Words) /\ pending \in Seq(Words) /\ item \in Items /\ spoken \in Nat
      /\ said \in Seq(Nat) /\ item.number \in Nat /\ item.told \in Seq(Nat)
      /\ InFlight(pending, inbox, Len(said), spoken, deltaItems, item)
      /\ NoEnd(pending) /\ NoEnd(inbox) /\ EndIn(pending, codex, verdict)
  BY <1>1 DEF CodexInv, TurnInv, CodexTypes, CodexQueues, Items, NoEnd, EndIn
<1>4. ASSUME NEW m \in Words, Codex!Sends(m), m.kind \in {"delta", "item"}, item' \in Items,
             spoken' \in {spoken, spoken + 1},
             InFlight(pending, Append(inbox, m), Len(said), spoken', deltaItems, item')
      PROVE  TurnInv'
  <2>1. CodexTypes'
    BY <1>1, <1>3, <1>4 DEF CodexInv, TurnInv, CodexTypes, Codex!Sends
  <2>2. EndIn(Append(inbox, m), codex, verdict)
    BY <1>1, <1>3, <1>4, CodexEnds DEF CodexInv, TurnInv, CodexQueues, Codex!Terminal
  <2>3. CodexQueues'
    BY <1>1, <1>3, <1>4, <2>2 DEF CodexQueues, Codex!Sends
  <2>4. Codex!EveryWordOnce'
    BY <1>1, <1>3, <1>4 DEF CodexInv, TurnInv, CodexPlaces, Codex!EveryWordOnce
  <2>. QED  BY <1>2, <2>1, <2>3, <2>4 DEF CodexInv, TurnInv
<1>5. ASSUME spoken' = spoken + 1, item' = [item EXCEPT !.told = Append(@, spoken')],
             Codex!Sends(Codex!Message("delta", item.number, <<spoken'>>))
      PROVE  TurnInv'
  <2> DEFINE m == Codex!Message("delta", item.number, <<spoken'>>)
  <2>1. /\ m \in Words /\ m.kind = "delta" /\ m.of = item.number /\ m.words = <<spoken + 1>>
        /\ item' \in Items /\ item'.number = item.number /\ item'.told # <<>>
    <3>1. spoken' \in Nat /\ <<spoken'>> \in Seq(Nat)
      BY <1>3, <1>5
    <3>2. m \in Words /\ m.kind = "delta" /\ m.of = item.number /\ m.words = <<spoken + 1>>
      BY <1>3, <1>5, <3>1 DEF Codex!Message, Words, Kinds
    <3>3. Append(item.told, spoken') \in Seq(Nat) /\ Append(item.told, spoken') # <<>>
      <4>1. \A t \in Seq(Nat), n \in Nat : Append(t, n) \in Seq(Nat) /\ Len(Append(t, n)) # 0
        OBVIOUS
      <4>. QED  BY <1>3, <3>1, <4>1
    <3>4. item' = [number |-> item.number, told |-> Append(item.told, spoken')]
      BY <1>3, <1>5 DEF Items
    <3>. QED  BY <1>3, <3>2, <3>3, <3>4 DEF Items
  <2>. HIDE DEF m
  <2>2. InFlight(pending, Append(inbox, m), Len(said), spoken + 1, deltaItems, item')
    BY <1>3, <2>1, WordSent
  <2>. QED  BY <1>4, <1>5, <2>1, <2>2 DEF m
<1>6. ASSUME item.told # <<>>, spoken' = spoken, item' = [number |-> item.number + 1, told |-> <<>>],
             Codex!Sends(Codex!Message("item", item.number, item.told))
      PROVE  TurnInv'
  <2> DEFINE m == Codex!Message("item", item.number, item.told)
  <2>1. /\ m \in Words /\ m.kind = "item" /\ m.of = item.number
        /\ item' \in Items /\ item'.number = item.number + 1 /\ item'.told = <<>>
    BY <1>3, <1>6 DEF Codex!Message, Words, Items, Kinds
  <2>. HIDE DEF m
  <2>2. InFlight(pending, Append(inbox, m), Len(said), spoken, deltaItems, item')
    BY <1>3, <1>6, <2>1, WholeSent
  <2>. QED  BY <1>4, <1>6, <2>1, <2>2 DEF m
<1>7. ASSUME item.told = <<>>, spoken' = spoken + 1, item' = [number |-> item.number + 1, told |-> <<>>],
             Codex!Sends(Codex!Message("item", item.number, <<spoken'>>))
      PROVE  TurnInv'
  <2> DEFINE m == Codex!Message("item", item.number, <<spoken'>>)
  <2>1. /\ m \in Words /\ m.kind = "item" /\ m.of = item.number /\ m.words = <<spoken + 1>>
        /\ item' \in Items /\ item'.number = item.number + 1 /\ item'.told = <<>>
    BY <1>3, <1>7 DEF Codex!Message, Words, Items, Kinds
  <2>. HIDE DEF m
  <2>2. InFlight(pending, Append(inbox, m), Len(said), spoken + 1, deltaItems, item')
    BY <1>3, <1>7, <2>1, WordSent
  <2>. QED  BY <1>4, <1>7, <2>1, <2>2 DEF m
<1>. QED  BY <1>5, <1>6, <1>7 DEF Codex!Speak

LEMMA CodexAsks == ASSUME CodexInv, Codex!Ask PROVE TurnInv'
<1>1. /\ stage # "idle" /\ stage \notin Starting /\ codex = "running"
      /\ UNCHANGED <<stage, due, codex, pending, item, spoken, deltaItems, said, provider_events,
                     outcome, verdict>>
  BY DEF CodexInv, TurnInv, CodexPlaces, Codex!Ask, Codex!speech, Codex!heard, Codex!ends
<1>2. PICK kind \in {"ask", "stray"} : Codex!Sends(Codex!Note(kind))
  BY DEF Codex!Ask
<1>3. Codex!Note(kind) \in Words /\ Quiet(Codex!Note(kind)) /\ Codex!Note(kind).kind \notin Codex!Terminal
  BY CodexNotes DEF Kinds, Quiet, Codex!Terminal
<1>4. CodexTypes' /\ CodexQueues'
  BY <1>1, <1>2, <1>3, CodexSends
<1>. QED  BY <1>1, <1>4 DEF CodexInv, TurnInv, CodexPlaces, Codex!EveryWordOnce

LEMMA CodexFinishes == ASSUME CodexInv, Codex!Finish PROVE TurnInv'
<1>1. /\ stage # "idle" /\ stage \notin Starting /\ codex = "running" /\ codex' = "over"
      /\ UNCHANGED <<stage, due, pending, item, spoken, deltaItems, said, provider_events, outcome>>
  BY DEF CodexInv, TurnInv, CodexPlaces, Codex!Finish, Codex!speech, Codex!heard, Codex!questions
<1>2. PICK how \in {"completed", "failed"} : Codex!Sends(Codex!Note(how)) /\ verdict' = how
  BY DEF Codex!Finish
<1>3. Codex!Note(how) \in Words /\ Quiet(Codex!Note(how)) /\ Codex!Note(how).kind = verdict'
  BY <1>2, CodexNotes DEF Kinds, Quiet
<1>4. CodexTypes' /\ CodexQueues'
  BY <1>1, <1>2, <1>3, CodexSends
<1>. QED  BY <1>1, <1>4 DEF CodexInv, TurnInv, CodexPlaces, Codex!EveryWordOnce

LEMMA CodexBreaks == ASSUME CodexInv, Codex!Break PROVE TurnInv'
<1>1. UNCHANGED <<stage, pending, item, spoken, deltaItems, said, provider_events, outcome, verdict>>
  BY DEF Codex!Break, Codex!speech, Codex!heard, Codex!questions, Codex!ends
<1>2. CASE codex # "off" /\ codex' = "off" /\ due' = "none" /\ Codex!Sends(Codex!Note("end"))
  <2>1. /\ Codex!Note("end") \in Words /\ Quiet(Codex!Note("end"))
        /\ Codex!Note("end").kind = "end" /\ "end" \notin Codex!Terminal
    BY CodexNotes DEF Kinds, Quiet, Codex!Terminal
  <2>2. stage # "idle"
    BY <1>2 DEF CodexInv, TurnInv, CodexPlaces
  <2>3. CodexTypes' /\ CodexQueues'
    BY <1>1, <1>2, <2>1, <2>2, CodexSends
  <2>4. stage \in Starting => \A i \in 1 .. Len(inbox') : inbox'[i].kind # "ask"
    BY <1>2, <2>1 DEF CodexInv, TurnInv, CodexPlaces, CodexTypes, Codex!Sends
  <2>5. CodexPlaces'
    BY <1>1, <1>2, <2>2, <2>4 DEF CodexInv, TurnInv, CodexPlaces
  <2>6. Codex!EveryWordOnce'
    BY <1>1 DEF CodexInv, TurnInv, Codex!EveryWordOnce
  <2>. QED  BY <2>3, <2>5, <2>6 DEF CodexInv, TurnInv
<1>3. CASE codex = "off" /\ UNCHANGED <<codex, due, inbox>>
  BY <1>1, <1>3 DEF CodexInv, TurnInv, CodexTypes, CodexPlaces, CodexQueues, Codex!EveryWordOnce
<1>. QED  BY <1>2, <1>3 DEF Codex!Break

\* A turn begins with empty queues, or ends before it has begun.
LEMMA CodexTurns == ASSUME CodexInv, NEW c \in Chat, Codex!stream_turn(c) PROVE TurnInv'
<1>1. stage = "idle" /\ codex = "off" /\ due = "none"
  BY DEF CodexInv, TurnInv, CodexPlaces, Codex!stream_turn
<1>2. /\ inbox' = <<>> /\ pending' = <<>> /\ said' = <<>> /\ spoken' = 0 /\ deltaItems' = {}
      /\ item' = [number |-> 0, told |-> <<>>] /\ provider_events' = 0 /\ verdict' = "none"
  BY DEF Codex!stream_turn, Codex!Fresh, Codex!NoItem
<1>3. \/ outcome' = "none" /\ codex' = "ready" /\ stage' = "initialize" /\ due' = "initialize"
      \/ outcome' \in {"cancelled", "failed"} /\ UNCHANGED <<codex, stage, due>>
  BY DEF Codex!stream_turn, Codex!Fresh, Codex!Request
<1>4. CodexTypes'
  BY <1>1, <1>2, <1>3 DEF CodexTypes, Codex!Waiting, Items
<1>5. CodexPlaces'
  BY <1>1, <1>2, <1>3 DEF CodexPlaces, Starting
<1>6. Codex!EveryWordOnce'
  BY <1>2, <1>3 DEF Codex!EveryWordOnce
<1>7. CodexQueues'
  <2>1. InFlight(<<>>, <<>>, 0, 0, {}, [number |-> 0, told |-> <<>>])
    <3>1. Known(<<>>, <<>>, {}) = {}
      BY DeltasOf DEF Known
    <3>2. \A already : Tells(<<>>, 0, 0, 0, already)
      BY EmptyTells
    <3>. QED  BY <3>1, <3>2 DEF InFlight
  <2>2. EndIn(<<>>, codex', verdict')
    BY DEF EndIn
  <2>. QED  BY <1>2, <2>1, <2>2 DEF CodexQueues
<1>. QED  BY <1>4, <1>5, <1>6, <1>7 DEF CodexInv, TurnInv

\* The head of the pipe is taken by the provider.
LEMMA HeadTaken ==
  ASSUME CodexInv, stage # "idle", inbox # <<>>, Quiet(Head(inbox)), inbox' = Tail(inbox),
         stage' \in {"loop", "read"} \cup Codex!Waiting,
         UNCHANGED <<codex, pending, item, spoken, deltaItems, said, verdict>>
  PROVE  CodexTypes' /\ CodexQueues'
<1>1. inbox \in Seq(Words) /\ pending \in Seq(Words) /\ Tail(inbox) \in Seq(Words)
  BY DEF CodexInv, TurnInv, CodexTypes
<1>2. CodexTypes'
  BY <1>1 DEF CodexInv, TurnInv, CodexTypes
<1>3. InFlight(pending, Tail(inbox), Len(said), spoken, deltaItems, item)
  BY <1>1, QuietTaken DEF CodexInv, TurnInv, CodexTypes, CodexQueues
<1>4. EndIn(Tail(inbox), codex, verdict) /\ EndIn(pending, codex, verdict)
  BY <1>1 DEF CodexInv, TurnInv, CodexQueues, EndIn
<1>. QED  BY <1>2, <1>3, <1>4 DEF CodexQueues

LEMMA CodexAnswerRead == ASSUME CodexInv, Codex!AnswerRead PROVE TurnInv'
<1>1. /\ stage \in Codex!Waiting /\ stage # "idle" /\ inbox # <<>>
      /\ UNCHANGED <<item, spoken, deltaItems, said, provider_events, verdict>>
  BY DEF Codex!AnswerRead, Codex!Waiting, Codex!speech, Codex!heard, Codex!questions
<1>2. Quiet(Head(inbox))
  BY DEF Codex!AnswerRead, Quiet
<1>3. inbox \in Seq(Words) /\ \A i \in 1 .. Len(Tail(inbox)) : Tail(inbox)[i] = inbox[i + 1]
  BY <1>1 DEF CodexInv, TurnInv, CodexTypes
<1>4. ASSUME stage \in Starting, Codex!Ends("cancelled") PROVE TurnInv'
  <2>1. spoken = 0 /\ provider_events = 0 /\ verdict = "none" /\ said \in Seq(Nat)
    BY <1>4 DEF CodexInv, TurnInv, CodexPlaces, CodexTypes
  <2>2. Len(said) <= spoken /\ \A k \in DOMAIN said : said[k] = k
    BY DEF CodexInv, TurnInv, Codex!EveryWordOnce
  <2>. QED  BY <1>1, <1>4, <2>1, <2>2, CodexEnded
<1>5. ASSUME stage \in Starting, NEW method \in {"thread/resume", "thread/start", "turn/start"},
             Codex!Request(method), inbox' = Tail(inbox), UNCHANGED <<codex, pending, outcome>>
      PROVE  TurnInv'
  <2>1. stage' = method /\ due' = method
    BY <1>5 DEF Codex!Request
  <2>2. CodexTypes' /\ CodexQueues'
    BY <1>1, <1>2, <1>5, <2>1, HeadTaken DEF Codex!Waiting
  <2>3. \A i \in 1 .. Len(inbox') : inbox'[i].kind # "ask"
    <3>1. \A i \in 1 .. Len(Tail(inbox)) : i + 1 \in 1 .. Len(inbox)
      BY <1>1, <1>3
    <3>. QED  BY <1>3, <1>5, <3>1 DEF CodexInv, TurnInv, CodexPlaces
  <2>4. CodexPlaces'
    BY <1>1, <1>5, <2>1, <2>3 DEF CodexInv, TurnInv, CodexPlaces
  <2>5. Codex!EveryWordOnce'
    BY <1>1, <1>5 DEF CodexInv, TurnInv, Codex!EveryWordOnce
  <2>. QED  BY <2>2, <2>4, <2>5 DEF CodexInv, TurnInv
<1>6. ASSUME stage \in {"turn/start", "turn/interrupt"}, stage' = "loop", inbox' = Tail(inbox),
             UNCHANGED <<due, codex, pending, outcome>>, due = "none"
      PROVE  TurnInv'
  <2>1. CodexTypes' /\ CodexQueues'
    BY <1>1, <1>2, <1>6, HeadTaken
  <2>2. CodexPlaces'
    BY <1>1, <1>6 DEF CodexInv, TurnInv, CodexPlaces, Starting
  <2>3. Codex!EveryWordOnce'
    BY <1>1, <1>6 DEF CodexInv, TurnInv, Codex!EveryWordOnce
  <2>. QED  BY <2>1, <2>2, <2>3 DEF CodexInv, TurnInv
<1>7. due = "none"
  BY <1>1, <1>3 DEF CodexInv, AnsweredOnce, Owed, IsAnswer, Codex!AnswerRead
<1>8. CASE stage \in {"turn/start", "turn/interrupt"}
  BY <1>6, <1>7, <1>8 DEF Codex!AnswerRead, Codex!wish
<1>9. CASE stage = "initialize"
  BY <1>5, <1>9 DEF Codex!AnswerRead, Codex!_start_or_resume_thread, Codex!wish, Starting
<1>10. CASE stage \in {"thread/resume", "thread/start"} /\ Codex!ThreadReady
  BY <1>4, <1>5, <1>10 DEF Codex!ThreadReady, Codex!wish, Starting
<1>11. CASE stage = "thread/resume" /\ ~Codex!ThreadReady
  BY <1>5, <1>11 DEF Codex!AnswerRead, Codex!wish, Starting
<1>. QED  BY <1>1, <1>8, <1>9, <1>10, <1>11 DEF Codex!AnswerRead, Codex!Waiting

\* Notifications are put aside while an answer is due.
LEMMA CodexDefers == ASSUME CodexInv, Codex!Defer PROVE TurnInv'
<1> DEFINE m == Head(inbox)
<1>1. /\ stage # "idle" /\ inbox # <<>> /\ m.kind \in {"delta", "item", "stray"} \cup Codex!Terminal
      /\ pending' = Append(pending, m) /\ inbox' = Tail(inbox)
      /\ UNCHANGED <<stage, due, codex, item, spoken, deltaItems, said, provider_events, outcome, verdict>>
  BY DEF Codex!Defer, Codex!Waiting, Codex!speech, Codex!heard, Codex!questions, Codex!ends
<1>2. /\ inbox \in Seq(Words) /\ pending \in Seq(Words) /\ m \in Words /\ spoken \in Nat
      /\ inbox' \in Seq(Words) /\ pending' \in Seq(Words)
      /\ \A i \in 1 .. Len(inbox') : i + 1 \in 1 .. Len(inbox) /\ inbox'[i] = inbox[i + 1]
  BY <1>1 DEF CodexInv, TurnInv, CodexTypes
<1>. HIDE DEF m
<1>3. CodexTypes'
  BY <1>1, <1>2 DEF CodexInv, TurnInv, CodexTypes
<1>4. InFlight(pending', inbox', Len(said), spoken, deltaItems, item)
  BY <1>1, <1>2, PutAside DEF CodexInv, TurnInv, CodexQueues, m
<1>5. EndIn(pending', codex, verdict) /\ EndIn(inbox', codex, verdict)
  <2>1. EndIn(pending, codex, verdict) /\ EndIn(inbox, codex, verdict)
    BY <1>1 DEF CodexInv, TurnInv, CodexQueues
  <2>2. /\ EndIn(Tail(inbox), codex, verdict)
        /\ m.kind \in Codex!Terminal => codex \notin {"ready", "running"} /\ m.kind = verdict
    BY <1>1, <1>2, <2>1, CodexEnds DEF m
  <2>. QED  BY <1>1, <1>2, <2>1, <2>2, CodexEnds
<1>6. CodexPlaces'
  BY <1>1, <1>2 DEF CodexInv, TurnInv, CodexPlaces
<1>7. Codex!EveryWordOnce'
  BY <1>1 DEF CodexInv, TurnInv, Codex!EveryWordOnce
<1>. QED  BY <1>1, <1>3, <1>4, <1>5, <1>6, <1>7 DEF TurnInv, CodexQueues

LEMMA CodexHandles == ASSUME CodexInv, Codex!handle_server_request PROVE TurnInv'
<1>1. /\ stage \in Codex!Waiting \cup {"read"} /\ stage # "idle" /\ inbox # <<>>
      /\ Head(inbox).kind = "ask" /\ inbox' = Tail(inbox)
      /\ stage' = IF stage = "read" THEN "loop" ELSE stage
      /\ UNCHANGED <<due, codex, pending, item, spoken, deltaItems, said, outcome, verdict>>
  BY DEF Codex!handle_server_request, Codex!Waiting, Codex!speech, Codex!heard, Codex!ends
<1>2. CodexTypes' /\ CodexQueues'
  BY <1>1, HeadTaken DEF Quiet
<1>3. stage \notin Starting
  BY <1>1 DEF CodexInv, TurnInv, CodexTypes, CodexPlaces
<1>4. CodexPlaces'
  BY <1>1, <1>3 DEF CodexInv, TurnInv, CodexPlaces, Codex!Waiting, Starting
<1>5. Codex!EveryWordOnce'
  BY <1>1 DEF CodexInv, TurnInv, CodexPlaces, Codex!EveryWordOnce
<1>. QED  BY <1>2, <1>4, <1>5 DEF TurnInv

LEMMA CodexFails == ASSUME CodexInv, Codex!Fail PROVE TurnInv'
<1>1. /\ Codex!Ends("failed")
      /\ UNCHANGED <<item, spoken, said, verdict, provider_events>>
  BY DEF Codex!Fail, Codex!speech, Codex!heard, Codex!questions
<1>2. said \in Seq(Nat) /\ Len(said) <= spoken /\ \A k \in DOMAIN said : said[k] = k
  BY DEF CodexInv, TurnInv, CodexTypes, Codex!EveryWordOnce
<1>. QED  BY <1>1, <1>2, CodexEnded

LEMMA CodexLoops == ASSUME CodexInv, Codex!Loop \/ Codex!Poll \/ Codex!Cancel PROVE TurnInv'
<1>1. UNCHANGED <<codex, inbox, pending, item, spoken, deltaItems, said, outcome, verdict>>
  BY DEF Codex!Loop, Codex!Poll, Codex!Cancel, Codex!pipes, Codex!speech, Codex!heard, Codex!ends
<1>2. CASE Codex!Loop
  <2>1. /\ stage = "loop"
        /\ \/ stage' = "turn/interrupt" /\ due' = "turn/interrupt" /\ UNCHANGED provider_events
           \/ stage' = "read" /\ provider_events' = 0 /\ UNCHANGED due
    BY <1>2 DEF Codex!Loop, Codex!Request
  <2>. QED  BY <1>1, <2>1 DEF CodexInv, TurnInv, CodexTypes, CodexPlaces, CodexQueues,
               Codex!EveryWordOnce, Codex!Waiting, Starting
<1>3. CASE Codex!Poll
  BY <1>1, <1>3 DEF Codex!Poll, Codex!questions, CodexInv, TurnInv, CodexTypes, CodexPlaces,
     CodexQueues, Codex!EveryWordOnce, Starting
<1>4. CASE Codex!Cancel
  BY <1>1, <1>4 DEF Codex!Cancel, Codex!questions, CodexInv, TurnInv, CodexTypes, CodexPlaces,
     CodexQueues, Codex!EveryWordOnce
<1>. QED  BY <1>2, <1>3, <1>4

LEMMA CodexReads == ASSUME CodexInv, Codex!ReadMessage PROVE TurnInv'
<1> DEFINE m == IF pending # <<>> THEN Head(pending) ELSE Head(inbox)
           aside == IF pending # <<>> THEN Tail(pending) ELSE pending
           pipe == IF pending # <<>> THEN inbox ELSE Tail(inbox)
           adds == m.kind = "delta" \/ (m.kind = "item" /\ m.of \notin deltaItems)
           now == IF m.kind = "delta" THEN deltaItems \cup {m.of} ELSE deltaItems
           has == Len(said)
           next == IF adds THEN has + 1 ELSE has
<1>1. /\ stage = "read" /\ (pending # <<>> \/ inbox # <<>>) /\ Codex!map(m)
      /\ IF m.kind \in Codex!Terminal THEN Codex!Ends(Codex!Event(m.kind))
         ELSE /\ stage' = "loop" /\ inbox' = pipe /\ pending' = aside
              /\ UNCHANGED <<due, codex, outcome>>
      /\ UNCHANGED <<item, spoken, provider_events, verdict>>
  BY DEF Codex!ReadMessage, Codex!next_message, Codex!wish, Codex!speech, Codex!questions
<1>2. /\ inbox \in Seq(Words) /\ pending \in Seq(Words) /\ spoken \in Nat /\ said \in Seq(Nat)
      /\ m \in Words /\ aside \in Seq(Words) /\ pipe \in Seq(Words)
  BY <1>1 DEF CodexInv, TurnInv, CodexTypes
<1>3. /\ InFlight(aside, pipe, next, spoken, now, item)
      /\ adds => m.words = <<has + 1>> /\ has + 1 <= spoken
      /\ m.kind \in Codex!Terminal => has = spoken
  <2>1. InFlight(pending, inbox, has, spoken, deltaItems, item) /\ has \in Nat
    BY <1>1, <1>2 DEF CodexInv, TurnInv, CodexQueues
  <2>2. CASE pending # <<>>
    <3>1. m = Head(pending) /\ aside = Tail(pending) /\ pipe = inbox
      BY <2>2
    <3>. HIDE DEF has, m, aside, pipe
    <3>2. InFlight(Tail(pending), inbox, next, spoken, now, item)
      BY <1>2, <2>1, <2>2, <3>1, AsideRead
    <3>3. adds => m.words = <<has + 1>> /\ has + 1 <= spoken
      BY <1>2, <2>1, <2>2, <3>1, AsideRead
    <3>4. m.kind \in Codex!Terminal => has = spoken
      BY <1>2, <2>1, <2>2, <3>1, AsideRead
    <3>. QED  BY <3>1, <3>2, <3>3, <3>4
  <2>3. CASE pending = <<>>
    <3>1. m = Head(inbox) /\ aside = <<>> /\ pipe = Tail(inbox) /\ inbox # <<>>
      BY <1>1, <2>3
    <3>. HIDE DEF has, m, aside, pipe
    <3>. QED  BY <1>2, <2>1, <2>3, <3>1, PipeRead
  <2>. QED  BY <2>2, <2>3
<1>4. EndIn(aside, codex, verdict) /\ EndIn(pipe, codex, verdict)
      /\ (m.kind \in Codex!Terminal => m.kind = verdict)
  <2>1. EndIn(pending, codex, verdict) /\ EndIn(inbox, codex, verdict)
    BY <1>1 DEF CodexInv, TurnInv, CodexQueues
  <2>. QED  BY <1>1, <1>2, <2>1, CodexEnds
<1>5. Len(said) <= spoken /\ \A k \in DOMAIN said : said[k] = k
  BY DEF CodexInv, TurnInv, Codex!EveryWordOnce
<1>. HIDE DEF m, aside, pipe
<1>6. said' = (IF adds THEN said \o m.words ELSE said) /\ deltaItems' = now
  BY <1>1 DEF Codex!map, Codex!heard
<1>7. /\ said' \in Seq(Nat) /\ Len(said') = next /\ next <= spoken
      /\ \A k \in DOMAIN said' : said'[k] = k
  <2>1. CASE adds
    <3>1. said' = said \o <<has + 1>> /\ has \in Nat /\ has + 1 <= spoken
      <4>1. m.words = <<has + 1>> /\ has + 1 <= spoken
        BY <1>3, <2>1
      <4>2. said' = said \o m.words
        BY <1>6, <2>1
      <4>. QED  BY <1>2, <4>1, <4>2
    <3>2. said' = Append(said, has + 1)
      BY <1>2, <3>1
    <3>. QED  BY <1>2, <1>5, <2>1, <3>1, <3>2
  <2>2. CASE ~adds
    BY <1>2, <1>5, <1>6, <2>2
  <2>. QED  BY <2>1, <2>2
<1>8. CASE m.kind \in Codex!Terminal
  <2>1. ~adds
    BY <1>8 DEF Codex!Terminal
  <2>2. Len(said') = spoken /\ m.kind = verdict /\ provider_events = 0 /\ Codex!Ends(Codex!Event(m.kind))
    BY <1>1, <1>3, <1>4, <1>7, <1>8, <2>1 DEF CodexInv, TurnInv, CodexPlaces
  <2>3. /\ Codex!Event(m.kind) = "completed" => verdict = "completed"
        /\ Codex!Event(m.kind) = "cancelled" => verdict = "interrupted"
    BY <1>8, <2>2 DEF Codex!Event, Codex!Terminal
  <2>. QED  BY <1>1, <1>7, <2>2, <2>3, CodexEnded
<1>9. CASE m.kind \notin Codex!Terminal
  <2>1. /\ stage' = "loop" /\ inbox' = pipe /\ pending' = aside
        /\ UNCHANGED <<due, codex, outcome, item, spoken, provider_events, verdict>>
    BY <1>1, <1>9
  <2>2. CodexTypes'
    BY <1>2, <1>7, <2>1 DEF CodexInv, TurnInv, CodexTypes
  <2>3. CodexPlaces'
    BY <1>1, <2>1 DEF CodexInv, TurnInv, CodexPlaces, Starting
  <2>4. CodexQueues'
    BY <1>3, <1>4, <1>6, <1>7, <2>1 DEF CodexQueues
  <2>5. Codex!EveryWordOnce'
    BY <1>1, <1>7, <2>1 DEF CodexInv, TurnInv, CodexPlaces, Codex!EveryWordOnce
  <2>. QED  BY <2>2, <2>3, <2>4, <2>5 DEF TurnInv
<1>. QED  BY <1>8, <1>9

LEMMA AnswersQueued ==
  ASSUME NEW q \in Seq(Words), NEW request, AnsweredOnce(q, request), NEW m \in Words
  PROVE  /\ AnsweredOnce(q, "none")
         /\ ~IsAnswer(m) => AnsweredOnce(Append(q, m), request)
         /\ request # "none" => AnsweredOnce(Append(q, m), "none")
         /\ request # "none" => \A next : AnsweredOnce(q, next)
BY DEF AnsweredOnce

LEMMA AnswersTaken ==
  ASSUME NEW q \in Seq(Words), q # <<>>, NEW request, AnsweredOnce(q, request), NEW next,
         IsAnswer(Head(q)) \/ next = request
  PROVE  AnsweredOnce(Tail(q), next)
<1>1. /\ Head(q) = q[1] /\ 1 \in 1 .. Len(q)
      /\ \A i \in 1 .. Len(Tail(q)) : i + 1 \in 2 .. Len(q) /\ Tail(q)[i] = q[i + 1]
  OBVIOUS
<1>. QED  BY <1>1 DEF AnsweredOnce

LEMMA AnswersKept == ASSUME CodexInv, Codex!Next PROVE AnsweredOnce(inbox', Owed')
<1>1. inbox \in Seq(Words) /\ AnsweredOnce(inbox, Owed)
  BY DEF CodexInv, TurnInv, CodexTypes
<1>2. AnsweredOnce(<<>>, Owed')
  BY DEF AnsweredOnce
<1>3. \A kind \in Kinds : Codex!Note(kind) \in Words /\ Codex!Note(kind).kind = kind
  BY CodexNotes
<1>4. ASSUME NEW kind \in {"result", "missing", "error"}, due \in Codex!Waiting, Codex!Answers(kind),
             stage' = stage
      PROVE  AnsweredOnce(inbox', Owed')
  <2>1. Owed = due /\ due # "none" /\ Owed' = "none" /\ inbox' = Append(inbox, Codex!Note(kind))
    BY <1>4 DEF CodexInv, TurnInv, CodexPlaces, Owed, Codex!Waiting, Codex!Answers, Codex!Sends
  <2>. QED  BY <1>1, <1>3, <2>1, AnswersQueued DEF Kinds
<1>5. ASSUME NEW m \in Words, ~IsAnswer(m), Codex!Sends(m), due' \in {due, "none"}, stage' = stage
      PROVE  AnsweredOnce(inbox', Owed')
  <2>1. Owed' \in {Owed, "none"}
    BY <1>5 DEF Owed
  <2>2. AnsweredOnce(inbox, Owed')
    BY <1>1, <2>1, AnswersQueued, CodexNotes DEF Kinds
  <2>. QED  BY <1>1, <1>5, <2>2, AnswersQueued DEF Codex!Sends
<1>6. CASE Codex!AnswerThread
  BY <1>4, <1>6 DEF Codex!AnswerThread, Codex!Waiting
<1>7. CASE Codex!AnswerTurn
  <2>1. ASSUME due \in Codex!Waiting, due' = "none", stage' = stage,
               inbox' = inbox \o <<Codex!Note("result"), Codex!Note("interrupted")>>
        PROVE  AnsweredOnce(inbox', Owed')
    <3> DEFINE one == Codex!Note("result")
               two == Codex!Note("interrupted")
    <3>1. one \in Words /\ two \in Words /\ ~IsAnswer(two)
      BY <1>3 DEF Kinds, IsAnswer
    <3>2. inbox' = inbox \o <<one, two>>
      BY <2>1
    <3>. HIDE DEF one, two
    <3>3. inbox' = Append(Append(inbox, one), two)
      BY <1>1, <3>1, <3>2
    <3>4. Owed = due /\ due # "none" /\ Owed' = "none"
      BY <2>1 DEF CodexInv, TurnInv, CodexPlaces, Owed, Codex!Waiting
    <3>5. AnsweredOnce(Append(inbox, one), "none") /\ Append(inbox, one) \in Seq(Words)
      BY <1>1, <3>1, <3>4, AnswersQueued
    <3>. QED  BY <3>1, <3>3, <3>4, <3>5, AnswersQueued
  <2>2. CASE UNCHANGED <<stage, due, inbox>>
    BY <1>1, <2>2 DEF Owed
  <2>. QED  BY <1>4, <1>7, <2>1, <2>2 DEF Codex!AnswerTurn, Codex!Waiting
<1>8. CASE Codex!Speak
  <2>1. item \in Items /\ spoken \in Nat
    BY DEF CodexInv, TurnInv, CodexTypes
  <2>2. PICK kind \in {"delta", "item"}, words \in Seq(Nat) :
          Codex!Sends(Codex!Message(kind, item.number, words))
    <3>1. <<spoken + 1>> \in Seq(Nat) /\ item.told \in Seq(Nat)
      BY <2>1 DEF Items
    <3>. QED  BY <1>8, <3>1 DEF Codex!Speak
  <2>3. /\ Codex!Message(kind, item.number, words) \in Words
        /\ ~IsAnswer(Codex!Message(kind, item.number, words))
    BY <2>1 DEF Codex!Message, Words, Kinds, IsAnswer, Items
  <2>. QED  BY <1>5, <1>8, <2>2, <2>3 DEF Codex!Speak
<1>9. ASSUME NEW kind \in {"ask", "stray", "completed", "failed", "end"},
             Codex!Sends(Codex!Note(kind)), due' \in {due, "none"}, stage' = stage
      PROVE  AnsweredOnce(inbox', Owed')
  <2>1. Codex!Note(kind) \in Words /\ ~IsAnswer(Codex!Note(kind))
    BY <1>3 DEF Kinds, IsAnswer
  <2>. QED  BY <1>5, <1>9, <2>1
<1>10. CASE Codex!Ask \/ Codex!Finish \/ Codex!Break
  <2>1. CASE UNCHANGED <<stage, due, inbox>>
    BY <1>1, <2>1 DEF Owed
  <2>. QED  BY <1>9, <1>10, <2>1 DEF Codex!Ask, Codex!Finish, Codex!Break
<1>11. CASE Codex!Cancel \/ Codex!Loop \/ Codex!Poll
  <2>1. inbox' = inbox
    BY <1>11 DEF Codex!Cancel, Codex!Loop, Codex!Poll, Codex!pipes
  <2>2. Owed' = Owed \/ Owed # "none"
    BY <1>11 DEF Codex!Cancel, Codex!Loop, Codex!Poll, Owed, Codex!Waiting
  <2>. QED  BY <1>1, <2>1, <2>2, AnswersQueued, CodexNotes DEF Kinds
<1>12. CASE \E c \in Chat : Codex!stream_turn(c)
  BY <1>2, <1>12 DEF Codex!stream_turn, Codex!Fresh
<1>13. CASE Codex!AnswerRead
  <2>1. inbox # <<>> /\ IsAnswer(Head(inbox))
    BY <1>13 DEF Codex!AnswerRead, IsAnswer
  <2>2. inbox' \in {<<>>, Tail(inbox)}
    BY <1>13 DEF Codex!AnswerRead, Codex!ThreadReady, Codex!Ends, Codex!Waiting
  <2>. QED  BY <1>1, <1>2, <2>1, <2>2, AnswersTaken
<1>14. CASE Codex!Defer \/ Codex!handle_server_request
  <2>1. inbox # <<>> /\ inbox' = Tail(inbox) /\ Owed' = Owed
    BY <1>14 DEF Codex!Defer, Codex!handle_server_request, Owed, Codex!Waiting
  <2>. QED  BY <1>1, <2>1, AnswersTaken
<1>15. CASE Codex!Fail
  BY <1>2, <1>15 DEF Codex!Fail, Codex!Ends
<1>16. CASE Codex!ReadMessage
  <2>1. \/ inbox' = <<>>
        \/ inbox' = inbox /\ Owed' = Owed
        \/ inbox # <<>> /\ inbox' = Tail(inbox) /\ Owed' = Owed
    BY <1>16 DEF Codex!ReadMessage, Codex!next_message, Codex!Ends, Owed, Codex!Waiting
  <2>. QED  BY <1>1, <1>2, <2>1, AnswersTaken
<1>. QED  BY <1>6, <1>7, <1>8, <1>10, <1>11, <1>12, <1>13, <1>14, <1>15, <1>16 DEF Codex!Next

LEMMA CodexKept == ASSUME CodexInv, Codex!Next PROVE CodexInv'
<1>1. TurnInv'
  BY CodexAnswersThread, CodexAnswersTurn, CodexSpeaks, CodexAsks, CodexFinishes, CodexBreaks,
     CodexTurns, CodexAnswerRead, CodexDefers, CodexHandles, CodexFails, CodexLoops, CodexReads
     DEF Codex!Next
<1>2. AnsweredOnce(inbox', Owed')
  BY AnswersKept
<1>. QED  BY <1>1, <1>2 DEF CodexInv

LEMMA CodexStutters == ASSUME CodexInv, UNCHANGED codexVars PROVE CodexInv'
BY DEF codexVars, CodexInv, TurnInv, Owed, CodexTypes, CodexPlaces, CodexQueues, AnsweredOnce,
   Codex!EveryWordOnce, InFlight, EndIn

LEMMA CodexAlone == [WorkbenchNext]_workbenchVars => Codex!Next \/ UNCHANGED codexVars
BY DEF WorkbenchNext, workbenchVars, sessionVars

(* What a chat is given of a turn is what Codex said, in its order, no     *)
(* word twice and none left out, and a turn ends as Codex ended it, for    *)
(* any number of chats, turns and words, however notifications, answers,   *)
(* questions, cancellations and the end of the process are ordered.        *)
(* (codex_provider.py: _pending_messages, _agent_delta_items, the loop of  *)
(* stream_turn.)                                                           *)
THEOREM WordsAreToldOnce == WorkbenchSpec => []EveryWordOnce
<1>1. WorkbenchInit => CodexInv
  BY CodexStarts DEF WorkbenchInit
<1>2. CodexInv /\ [WorkbenchNext]_workbenchVars => CodexInv'
  BY CodexAlone, CodexKept, CodexStutters
<1>3. CodexInv => EveryWordOnce
  BY DEF CodexInv, TurnInv, EveryWordOnce
<1>. QED  BY <1>1, <1>2, <1>3, PTL DEF WorkbenchSpec

-----------------------------------------------------------------------------
(***************************************************************************)
(* The review journals.  Each process has a script; what is true of it is  *)
(* said of the step ahead.  Who is past BEGIN IMMEDIATE has the lock, a    *)
(* migration has made the statements before the one ahead, and a save that *)
(* was looked for and not found is not in the rows while the lock is held. *)
(***************************************************************************)

\* Records with the fields that the journals read.
IsText(t) == t = [words |-> t.words, spaces |-> t.spaces]
IsMark(m) ==
  /\ m = [mark_id |-> m.mark_id, kind |-> m.kind, points |-> m.points, color |-> m.color,
          stroke_width |-> m.stroke_width, text |-> m.text]
  /\ IsText(m.mark_id) /\ IsText(m.color)
IsLabel(l) ==
  /\ l = [measurement_id |-> l.measurement_id, kind |-> l.kind, title |-> l.title,
          quality |-> l.quality, start_mm |-> l.start_mm, end_mm |-> l.end_mm,
          delta_mm |-> l.delta_mm, total_mm |-> l.total_mm, feature_ids |-> l.feature_ids]
  /\ IsText(l.title)
IsContents(c) ==
  IF reviewJournal = "annotations"
  THEN c = [marks |-> c.marks, context |-> c.context] /\ \A i \in DOMAIN c.marks : IsMark(c.marks[i])
  ELSE c = [measurements |-> c.measurements]
         /\ \A i \in DOMAIN c.measurements : IsLabel(c.measurements[i])

LEMMA StrippedText ==
  ASSUME NEW t, IsText(t), Journals!_required_text(t)
  PROVE  Journals!_required_text(Journals!strip(t)) /\ IsText(Journals!strip(t))
BY DEF IsText, Journals!_required_text, Journals!strip, Journals!Text

LEMMA MarkRead ==
  ASSUME NEW m, IsMark(m), Journals!AnnotationMark(m), NEW r, r = Journals!mark_from_mapping(m)
  PROVE  Journals!AnnotationMark(r)
<1>1. r.mark_id = Journals!strip(m.mark_id) /\ r.color = Journals!strip(m.color)
  BY DEF IsMark, Journals!mark_from_mapping
<1>2. r.kind = m.kind /\ r.points = m.points /\ r.stroke_width = m.stroke_width /\ r.text = m.text
  BY DEF IsMark, Journals!mark_from_mapping
<1>3. Journals!_required_text(r.mark_id) /\ Journals!_required_text(r.color)
  BY <1>1, StrippedText DEF IsMark, Journals!AnnotationMark
<1>. QED  BY <1>2, <1>3 DEF Journals!AnnotationMark

LEMMA LabelRead ==
  ASSUME NEW l, IsLabel(l), Journals!MeasurementLabelState(l), NEW r, r = Journals!label_from_mapping(l)
  PROVE  Journals!MeasurementLabelState(r)
<1>1. /\ r.title = Journals!strip(l.title) /\ r.start_mm = l.start_mm /\ r.end_mm = l.end_mm
      /\ r.delta_mm = l.delta_mm /\ r.total_mm = l.total_mm /\ r.feature_ids = l.feature_ids
      /\ r.quality = l.quality /\ r.kind = l.kind
  BY DEF IsLabel, Journals!label_from_mapping
<1>2. Journals!_required_text(r.title)
  BY <1>1, StrippedText DEF IsLabel, Journals!MeasurementLabelState
<1>. QED  BY <1>1, <1>2 DEF Journals!MeasurementLabelState

\* What may be saved can be read.
LEMMA ContentsRead ==
  ASSUME NEW c, IsContents(c), Journals!Valid(c)
  PROVE  Journals!Valid(Journals!_event(c))
<1>1. CASE reviewJournal = "annotations"
  <2> DEFINE r == Journals!_event(c)
  <2>1. /\ r = Journals!_event(c) /\ r.context = c.context /\ DOMAIN r.marks = DOMAIN c.marks
        /\ \A i \in DOMAIN c.marks : r.marks[i] = Journals!mark_from_mapping(c.marks[i])
    BY <1>1 DEF IsContents, Journals!_event
  <2>2. /\ Journals!AnnotationContext(c.context)
        /\ \A i \in DOMAIN c.marks : IsMark(c.marks[i]) /\ Journals!AnnotationMark(c.marks[i])
    BY <1>1 DEF IsContents, Journals!Valid
  <2>. HIDE DEF r
  <2>3. ASSUME NEW i \in DOMAIN r.marks PROVE Journals!AnnotationMark(r.marks[i])
    BY <2>1, <2>2, MarkRead
  <2>. QED  BY <1>1, <2>1, <2>2, <2>3 DEF Journals!Valid
<1>2. CASE reviewJournal # "annotations"
  <2> DEFINE r == Journals!_event(c)
  <2>1. /\ r = Journals!_event(c) /\ DOMAIN r.measurements = DOMAIN c.measurements
        /\ \A i \in DOMAIN c.measurements :
             r.measurements[i] = Journals!label_from_mapping(c.measurements[i])
    BY <1>2 DEF IsContents, Journals!_event
  <2>2. \A i \in DOMAIN c.measurements :
          IsLabel(c.measurements[i]) /\ Journals!MeasurementLabelState(c.measurements[i])
    BY <1>2 DEF IsContents, Journals!Valid
  <2>. HIDE DEF r
  <2>3. ASSUME NEW i \in DOMAIN r.measurements
        PROVE  Journals!MeasurementLabelState(r.measurements[i])
    BY <2>1, <2>2, LabelRead
  <2>. QED  BY <1>2, <2>1, <2>2, <2>3 DEF Journals!Valid
<1>. QED  BY <1>1, <1>2

LEMMA ContentsShape == ASSUME NEW c \in Journals!Contents PROVE IsContents(c)
<1>1. ASSUME NEW m \in Journals!Marked PROVE IsMark(m)
  <2> DEFINE p == Journals!Pen
  <2>1. IsMark(p)
    BY DEF Journals!Pen, Journals!Text, IsMark, IsText
  <2>2. IsText(Journals!Text("red", TRUE))
    BY DEF Journals!Text, IsText
  <2>3. m \in {p, [p EXCEPT !.color = Journals!Text("red", TRUE)], [p EXCEPT !.points = <<>>],
               [p EXCEPT !.kind = "arrow", !.points = <<<<1, 11>>, <<2, 2>>>>],
               [p EXCEPT !.kind = "circle", !.stroke_width = 81],
               [p EXCEPT !.kind = "text", !.points = <<<<1, 1>>>>, !.text = Journals!Blank]}
    BY DEF Journals!Marked
  <2>. HIDE DEF p
  <2>4. CASE m = [p EXCEPT !.color = Journals!Text("red", TRUE)]
    BY <2>1, <2>2, <2>4 DEF IsMark
  <2>5. CASE m = [p EXCEPT !.points = <<>>]
    BY <2>1, <2>5 DEF IsMark
  <2>6. CASE m = [p EXCEPT !.kind = "arrow", !.points = <<<<1, 11>>, <<2, 2>>>>]
    BY <2>1, <2>6 DEF IsMark
  <2>7. CASE m = [p EXCEPT !.kind = "circle", !.stroke_width = 81]
    BY <2>1, <2>7 DEF IsMark
  <2>8. CASE m = [p EXCEPT !.kind = "text", !.points = <<<<1, 1>>>>, !.text = Journals!Blank]
    BY <2>1, <2>8 DEF IsMark
  <2>. QED  BY <2>1, <2>3, <2>4, <2>5, <2>6, <2>7, <2>8
<1>2. ASSUME NEW l \in Journals!Labelled PROVE IsLabel(l)
  BY DEF Journals!Labelled, Journals!Distance, Journals!Text, IsLabel, IsText
<1>3. Journals!Distance \in Journals!Labelled
  BY DEF Journals!Labelled
<1>4. CASE reviewJournal = "annotations"
  <2>1. \/ \E m \in Journals!Marks : c = [marks |-> m, context |-> Journals!Context]
        \/ \E x \in Journals!Contexts : c = [marks |-> <<>>, context |-> x]
    BY <1>4 DEF Journals!Contents
  <2>. QED  BY <1>1, <1>4, <2>1 DEF IsContents, Journals!Marks
<1>5. CASE reviewJournal # "annotations"
  <2>1. \E l \in Journals!Labels : c = [measurements |-> l]
    BY <1>5 DEF Journals!Contents
  <2>. QED  BY <1>2, <1>3, <1>5, <2>1 DEF IsContents, Journals!Labels
<1>. QED  BY <1>4, <1>5

-----------------------------------------------------------------------------
Migrating == {<<"begin", "version">>, <<"version">>}
Stating ==
  {<<"table", "index", "no_update", "no_delete", "user_version">>,
   <<"index", "no_update", "no_delete", "user_version">>,
   <<"no_update", "no_delete", "user_version">>, <<"no_delete", "user_version">>,
   <<"user_version">>}
Saving ==
  {<<"begin", "look", "insert", "commit">>, <<"look", "insert", "commit">>,
   <<"insert", "commit">>, <<"commit">>}
Scripts == {<<>>} \cup Migrating \cup Stating \cup Saving

Ahead(x) == IF x = <<>> THEN "none" ELSE Head(x)
Locked == {"version", "look", "insert", "commit"}
Statements == {"table", "index", "no_update", "no_delete", "user_version"}
\* The statements before one.
Before(statement) ==
  CASE statement = "index" -> {"table"}
    [] statement = "no_update" -> {"table", "index"}
    [] statement = "no_delete" -> {"table", "index", "no_update"}
    [] statement = "user_version" -> {"table", "index", "no_update", "no_delete"}
    [] OTHER -> {}

Saved ==
  [request : {Journals!Text("r", FALSE), Journals!Text("of its own", FALSE)},
   thread : Journals!Threads, contents : {c \in Journals!Contents : Journals!Valid(c)}]

JournalTypes ==
  /\ schema \subseteq Statements /\ locker \subseteq Process /\ opened \subseteq Process
  /\ plan \in [Process -> Scripts] /\ holds \in [Process -> Saved \cup {Journals!NoSave}]
  /\ rows \in Seq(Saved)

\* Who has taken the write lock and what it is for.
JournalLock ==
  \A p \in Process :
    /\ p \in locker <=> Ahead(plan[p]) \in Locked
    /\ p \in locker => locker = {p}

\* A migration has made what comes before the statement it is at.
JournalSchema ==
  /\ "user_version" \in schema => Before("user_version") \subseteq schema
  /\ opened # {} => "user_version" \in schema
  /\ \A p \in Process : Before(Ahead(plan[p])) \subseteq schema

\* What is being saved, and that nobody else has saved it since it was looked for.
JournalSaves ==
  \A p \in Process :
    /\ plan[p] \in Saving => holds[p] \in Saved
    /\ Ahead(plan[p]) \in {"insert", "commit"} => Journals!existing(holds[p].request) = {}

JournalReply ==
  /\ reply.kind # "error"
  /\ reply.kind \in {"created", "existing", "conflict"} => reply.sequence \in DOMAIN rows
  /\ reply.kind \in {"created", "existing"} => rows[reply.sequence] = reply.save
  /\ reply.kind = "conflict" =>
       rows[reply.sequence].request = reply.save.request /\ rows[reply.sequence] # reply.save

JournalFollower ==
  /\ follower.after \in 0 .. Len(rows)
  /\ follower.heard = {<<s, Journals!_event(rows[s].contents)>> :
                         s \in {e \in Journals!_of("t1") : e <= follower.after}}

JournalInv ==
  JournalTypes /\ JournalLock /\ JournalSchema /\ JournalSaves /\ JournalReply /\ JournalFollower

LEMMA ScriptTails ==
  ASSUME NEW x \in Scripts, x # <<>>
  PROVE  /\ Ahead(x) = Head(x)
         /\ \/ Head(x) = "begin" /\ Ahead(Tail(x)) = "version" /\ Tail(x) \in Migrating
            \/ /\ Head(x) = "begin" /\ x \in Saving /\ Tail(x) \in Saving
               /\ Ahead(Tail(x)) = "look"
            \/ Head(x) = "version" /\ Tail(x) = <<>>
            \/ /\ Head(x) = "look" /\ x \in Saving /\ Tail(x) \in Saving
               /\ Ahead(Tail(x)) = "insert"
            \/ /\ Head(x) = "insert" /\ x \in Saving /\ Tail(x) \in Saving
               /\ Ahead(Tail(x)) = "commit"
            \/ Head(x) = "commit" /\ x \in Saving /\ Tail(x) = <<>>
            \/ /\ Tail(x) \in Stating
               /\ \/ Head(x) = "table" /\ Ahead(Tail(x)) = "index"
                  \/ Head(x) = "index" /\ Ahead(Tail(x)) = "no_update"
                  \/ Head(x) = "no_update" /\ Ahead(Tail(x)) = "no_delete"
                  \/ Head(x) = "no_delete" /\ Ahead(Tail(x)) = "user_version"
            \/ Head(x) = "user_version" /\ Tail(x) = <<>>
<1>1. Ahead(x) = Head(x)
  BY DEF Ahead
<1>2. CASE x \in Migrating
  <2>1. CASE x = <<"begin", "version">>
    <3>1. Head(x) = "begin" /\ Tail(x) = <<"version">> /\ Ahead(<<"version">>) = "version"
      BY <2>1 DEF Ahead
    <3>. QED  BY <1>1, <3>1 DEF Migrating
  <2>2. CASE x = <<"version">>
    BY <1>1, <2>2
  <2>. QED  BY <1>2, <2>1, <2>2 DEF Migrating
<1>3. CASE x \in Stating
  <2> DEFINE s2 == <<"index", "no_update", "no_delete", "user_version">>
             s3 == <<"no_update", "no_delete", "user_version">>
             s4 == <<"no_delete", "user_version">>
  <2>1. CASE x = <<"table", "index", "no_update", "no_delete", "user_version">>
    <3>1. Head(x) = "table" /\ Tail(x) = s2 /\ Ahead(s2) = "index"
      BY <2>1 DEF Ahead
    <3>. QED  BY <1>1, <3>1 DEF Stating
  <2>2. CASE x = s2
    <3>1. Head(x) = "index" /\ Tail(x) = s3 /\ Ahead(s3) = "no_update"
      BY <2>2 DEF Ahead
    <3>. QED  BY <1>1, <3>1 DEF Stating
  <2>3. CASE x = s3
    <3>1. Head(x) = "no_update" /\ Tail(x) = s4 /\ Ahead(s4) = "no_delete"
      BY <2>3 DEF Ahead
    <3>. QED  BY <1>1, <3>1 DEF Stating
  <2>4. CASE x = s4
    <3>1. /\ Head(x) = "no_delete" /\ Tail(x) = <<"user_version">>
          /\ Ahead(<<"user_version">>) = "user_version"
      BY <2>4 DEF Ahead
    <3>. QED  BY <1>1, <3>1 DEF Stating
  <2>5. CASE x = <<"user_version">>
    BY <1>1, <2>5
  <2>. QED  BY <1>3, <2>1, <2>2, <2>3, <2>4, <2>5 DEF Stating
<1>4. CASE x \in Saving
  <2> DEFINE s2 == <<"look", "insert", "commit">>
             s3 == <<"insert", "commit">>
  <2>1. CASE x = <<"begin", "look", "insert", "commit">>
    <3>1. Head(x) = "begin" /\ Tail(x) = s2 /\ Ahead(s2) = "look"
      BY <2>1 DEF Ahead
    <3>. QED  BY <1>1, <1>4, <3>1 DEF Saving
  <2>2. CASE x = s2
    <3>1. Head(x) = "look" /\ Tail(x) = s3 /\ Ahead(s3) = "insert"
      BY <2>2 DEF Ahead
    <3>. QED  BY <1>1, <1>4, <3>1 DEF Saving
  <2>3. CASE x = s3
    <3>1. Head(x) = "insert" /\ Tail(x) = <<"commit">> /\ Ahead(<<"commit">>) = "commit"
      BY <2>3 DEF Ahead
    <3>. QED  BY <1>1, <1>4, <3>1 DEF Saving
  <2>4. CASE x = <<"commit">>
    BY <1>1, <1>4, <2>4
  <2>. QED  BY <1>4, <2>1, <2>2, <2>3, <2>4 DEF Saving
<1>. QED  BY <1>2, <1>3, <1>4 DEF Scripts

LEMMA ScriptsBegin ==
  /\ Journals!_migrate \in Migrating /\ Ahead(Journals!_migrate) = "begin"
  /\ Journals!statements \in Stating /\ Ahead(Journals!statements) = "table"
  /\ Journals!save_snapshot \in Saving /\ Ahead(Journals!save_snapshot) = "begin"
  /\ Ahead(<<>>) = "none" /\ <<>> \notin Saving
  /\ Migrating \cup Stating \cup Saving \cup {<<>>} = Scripts
BY DEF Journals!_migrate, Journals!statements, Journals!save_snapshot, Ahead, Migrating, Stating,
   Saving, Scripts

LEMMA StatementNames ==
  /\ DOMAIN Journals!statements = 1 .. 5 /\ Len(Journals!statements) = 5
  /\ Journals!statements[1] = "table" /\ Journals!statements[2] = "index"
  /\ Journals!statements[3] = "no_update" /\ Journals!statements[4] = "no_delete"
  /\ Journals!statements[5] = "user_version"
  /\ \A i \in 1 .. 5 : Journals!statements[i] \in Statements
BY DEF Journals!statements, Statements

LEMMA SavedStays ==
  ASSUME reviewJournal' = reviewJournal
  PROVE  Saved' = Saved /\ \A c : Journals!_event(c)' = Journals!_event(c)
BY DEF Saved, Journals!Contents, Journals!Valid, Journals!_event

\* Scripts of distinct heads.
LEMMA ScriptKinds ==
  ASSUME NEW x \in Scripts
  PROVE  /\ x = <<>> <=> Ahead(x) = "none"
         /\ x \in Saving => Ahead(x) \in {"begin", "look", "insert", "commit"}
BY DEF Scripts, Migrating, Stating, Saving, Ahead

LEMMA JournalStarts == ASSUME Journals!Init PROVE JournalInv
<1>1. JournalTypes
  BY DEF Journals!Init, JournalTypes, Scripts
<1>2. JournalLock /\ JournalSchema /\ JournalSaves
  BY ScriptsBegin DEF Journals!Init, JournalLock, JournalSchema, JournalSaves, Locked, Before
<1>3. JournalReply
  BY DEF Journals!Init, Journals!NoReply, JournalReply
<1>4. JournalFollower
  BY DEF Journals!Init, Journals!NoFollower, Journals!_of, JournalFollower
<1>. QED  BY <1>1, <1>2, <1>3, <1>4 DEF JournalInv

LEMMA JournalRowsStay ==
  ASSUME JournalInv, UNCHANGED <<reviewJournal, rows>>
  PROVE  /\ Saved' = Saved
         /\ \A r : Journals!existing(r)' = Journals!existing(r)
         /\ follower' = follower => JournalFollower'
         /\ reply' = reply => JournalReply'
         /\ reply' = Journals!NoReply => JournalReply'
<1>1. Saved' = Saved
  BY SavedStays
<1>2. \A r : Journals!existing(r)' = Journals!existing(r)
  BY DEF Journals!existing
<1>3. ASSUME follower' = follower PROVE JournalFollower'
  <2>1. \A c : Journals!_event(c)' = Journals!_event(c)
    BY SavedStays
  <2>2. Journals!_of("t1")' = Journals!_of("t1")
    BY DEF Journals!_of
  <2>3. \A s : Journals!_event(rows[s].contents)' = Journals!_event(rows[s].contents)
    BY DEF Journals!_event
  <2>. QED  BY <1>3, <2>2, <2>3 DEF JournalInv, JournalFollower
<1>4. (reply' = reply => JournalReply') /\ (reply' = Journals!NoReply => JournalReply')
  BY DEF JournalInv, JournalReply, Journals!NoReply
<1>. QED  BY <1>1, <1>2, <1>3, <1>4

\* A process that goes on to x, and takes, keeps or gives up the lock.
LEMMA ScriptGoesOn ==
  ASSUME JournalInv, NEW p \in Process, NEW x \in Scripts, plan' = [plan EXCEPT ![p] = x],
         UNCHANGED <<reviewJournal, rows>>, opened' \subseteq Process,
         opened' # {} => "user_version" \in schema',
         holds' \in [Process -> Saved \cup {Journals!NoSave}],
         \A q \in Process \ {p} : holds'[q] = holds[q],
         schema \subseteq schema', schema' \subseteq Statements,
         "user_version" \in schema' => Before("user_version") \subseteq schema',
         Before(Ahead(x)) \subseteq schema',
         x \in Saving => holds'[p] \in Saved,
         Ahead(x) \in {"insert", "commit"} => Journals!existing(holds'[p].request) = {},
         \/ locker = {} /\ locker' = {p} /\ Ahead(x) \in Locked
         \/ locker' = locker /\ (Ahead(x) \in Locked <=> p \in locker)
         \/ locker' = locker \ {p} /\ Ahead(x) \notin Locked
  PROVE  JournalTypes' /\ JournalLock' /\ JournalSchema' /\ JournalSaves'
<1>1. plan'[p] = x /\ \A q \in Process \ {p} : plan'[q] = plan[q]
  BY DEF JournalInv, JournalTypes
<1>2. Saved' = Saved /\ \A r : Journals!existing(r)' = Journals!existing(r)
  BY JournalRowsStay
<1>3. JournalTypes'
  BY <1>2, SavedStays DEF JournalInv, JournalTypes
<1>4. JournalLock'
  BY <1>1 DEF JournalInv, JournalLock, JournalTypes
<1>5. JournalSchema'
  <2>1. \A q \in Process : Before(Ahead(plan'[q])) \subseteq schema'
    BY <1>1 DEF JournalInv, JournalSchema
  <2>. QED  BY <2>1 DEF JournalInv, JournalSchema
<1>6. JournalSaves'
  <2>1. ASSUME NEW q \in Process
        PROVE  /\ plan'[q] \in Saving => holds'[q] \in Saved
               /\ Ahead(plan'[q]) \in {"insert", "commit"} =>
                    Journals!existing(holds'[q].request) = {}
    BY <1>1 DEF JournalInv, JournalSaves
  <2>2. \A r : Journals!existing(r)' = Journals!existing(r)
    BY <1>2
  <2>3. \A q \in Process : Journals!existing(holds[q].request)' = Journals!existing(holds'[q].request)
    BY DEF Journals!existing
  <2>. QED  BY <1>2, <2>1, <2>3 DEF JournalSaves
<1>. QED  BY <1>3, <1>4, <1>5, <1>6

LEMMA JournalBegins == ASSUME JournalInv, NEW p \in Process, Journals!begin(p) PROVE JournalInv'
<1>1. /\ plan[p] \in Scripts /\ plan[p] # <<>> /\ Head(plan[p]) = "begin"
      /\ plan' = [plan EXCEPT ![p] = Tail(plan[p])] /\ locker = {} /\ locker' = {p}
      /\ UNCHANGED <<holds, reviewJournal, schema, rows, opened, reply, follower>>
  BY DEF Journals!begin, Journals!Takes, Journals!Goes, Journals!clients, JournalInv, JournalTypes
<1>2. /\ Tail(plan[p]) \in Scripts /\ Ahead(Tail(plan[p])) \in {"version", "look"}
      /\ Tail(plan[p]) \in Saving => plan[p] \in Saving
  BY <1>1, ScriptTails, ScriptKinds, ScriptsBegin
<1> DEFINE x == Tail(plan[p])
<1>. HIDE DEF x
<1>3. Before(Ahead(x)) = {} /\ Ahead(x) \in Locked
  BY <1>2 DEF Before, Locked, x
<1>4. JournalTypes' /\ JournalLock' /\ JournalSchema' /\ JournalSaves'
  <2>1. /\ x \in Scripts /\ plan' = [plan EXCEPT ![p] = x] /\ Ahead(x) \notin {"insert", "commit"}
        /\ x \in Saving => holds'[p] \in Saved
    BY <1>1, <1>2 DEF x, JournalInv, JournalSaves
  <2>2. /\ "user_version" \in schema => Before("user_version") \subseteq schema
        /\ schema \subseteq Statements /\ holds' \in [Process -> Saved \cup {Journals!NoSave}]
        /\ \A q \in Process \ {p} : holds'[q] = holds[q]
        /\ opened' \subseteq Process
        /\ opened' # {} => "user_version" \in schema'
    BY <1>1 DEF JournalInv, JournalSchema, JournalTypes
  <2>3. /\ UNCHANGED <<reviewJournal, rows>> /\ schema' = schema
        /\ schema \subseteq schema' /\ Before(Ahead(x)) \subseteq schema'
    BY <1>1, <1>3
  <2>4. locker = {} /\ locker' = {p} /\ Ahead(x) \in Locked
    BY <1>1, <1>3
  <2>. QED  BY <2>1, <2>2, <2>3, <2>4, ScriptGoesOn
<1>. QED  BY <1>1, <1>4, JournalRowsStay DEF JournalInv

LEMMA ScriptEnds ==
  ASSUME JournalInv, NEW p \in Process, Journals!Ends(p),
         UNCHANGED <<reviewJournal, rows>>, opened' \subseteq Process,
         opened' # {} => "user_version" \in schema',
         schema \subseteq schema', schema' \subseteq Statements,
         "user_version" \in schema' => Before("user_version") \subseteq schema'
  PROVE  JournalTypes' /\ JournalLock' /\ JournalSchema' /\ JournalSaves'
<1>1. /\ plan' = [plan EXCEPT ![p] = <<>>] /\ holds' = [holds EXCEPT ![p] = Journals!NoSave]
      /\ locker' = locker \ {p}
  BY DEF Journals!Ends
<1>2. /\ holds' \in [Process -> Saved \cup {Journals!NoSave}]
      /\ \A q \in Process \ {p} : holds'[q] = holds[q]
  BY <1>1 DEF JournalInv, JournalTypes
<1>3. /\ <<>> \in Scripts /\ <<>> \notin Saving /\ Ahead(<<>>) \notin {"insert", "commit"}
      /\ Ahead(<<>>) \notin Locked /\ Before(Ahead(<<>>)) \subseteq schema'
  BY ScriptsBegin DEF Locked, Before
<1>. QED  BY <1>1, <1>2, <1>3, ScriptGoesOn

\* The schema and the stores that are open stay.
LEMMA SchemaStays ==
  ASSUME JournalInv, schema' = schema, opened' \subseteq opened
  PROVE  /\ opened' \subseteq Process /\ (opened' # {} => "user_version" \in schema')
         /\ schema \subseteq schema' /\ schema' \subseteq Statements
         /\ "user_version" \in schema' => Before("user_version") \subseteq schema'
BY DEF JournalInv, JournalTypes, JournalSchema

LEMMA JournalStops == ASSUME JournalInv, NEW p \in Process, Journals!Stop(p) PROVE JournalInv'
<1>1. /\ Journals!Ends(p) /\ opened' \subseteq opened
      /\ UNCHANGED <<reviewJournal, schema, rows, follower>> /\ reply' = Journals!NoReply
  BY DEF Journals!Stop
<1>2. JournalTypes' /\ JournalLock' /\ JournalSchema' /\ JournalSaves'
  BY <1>1, SchemaStays, ScriptEnds
<1>. QED  BY <1>1, <1>2, JournalRowsStay DEF JournalInv

LEMMA JournalOpens == ASSUME JournalInv, NEW p \in Process, Journals!Open(p) PROVE JournalInv'
<1> DEFINE x == Journals!_migrate
<1>1. /\ plan[p] = <<>> /\ plan' = [plan EXCEPT ![p] = x] /\ reply' = Journals!NoReply
      /\ UNCHANGED <<holds, reviewJournal, schema, locker, rows, opened, follower>>
  BY DEF Journals!Open, Journals!Becomes, Journals!database
<1>2. /\ x \in Scripts /\ x \notin Saving /\ Ahead(x) = "begin"
  BY ScriptsBegin DEF Migrating, Saving, Scripts, Journals!_migrate
<1>. HIDE DEF x
<1>3. /\ Ahead(x) \notin Locked /\ Before(Ahead(x)) \subseteq schema'
      /\ Ahead(x) \notin {"insert", "commit"}
  BY <1>2 DEF Locked, Before
<1>4. /\ holds' \in [Process -> Saved \cup {Journals!NoSave}] /\ p \notin locker
      /\ \A q \in Process \ {p} : holds'[q] = holds[q]
  BY <1>1, ScriptsBegin DEF JournalInv, JournalTypes, JournalLock, Locked
<1>5. JournalTypes' /\ JournalLock' /\ JournalSchema' /\ JournalSaves'
  BY <1>1, <1>2, <1>3, <1>4, SchemaStays, ScriptGoesOn
<1>. QED  BY <1>1, <1>5, JournalRowsStay DEF JournalInv

LEMMA JournalVersions == ASSUME JournalInv, NEW p \in Process, Journals!version(p) PROVE JournalInv'
<1>1. /\ UNCHANGED <<reviewJournal, schema, rows, reply, follower>>
      /\ plan[p] # <<>> /\ Head(plan[p]) = "version"
      /\ IF "user_version" \in schema THEN Journals!Ends(p) /\ opened' = opened \cup {p}
         ELSE Journals!Becomes(p, Journals!statements) /\ locker' = {} /\ UNCHANGED opened
  BY DEF Journals!version, Journals!Takes, Journals!clients
<1>2. CASE "user_version" \in schema
  <2>1. /\ opened' \subseteq Process /\ (opened' # {} => "user_version" \in schema')
        /\ schema \subseteq schema' /\ schema' \subseteq Statements
        /\ "user_version" \in schema' => Before("user_version") \subseteq schema'
    BY <1>1, <1>2 DEF JournalInv, JournalTypes, JournalSchema
  <2>2. JournalTypes' /\ JournalLock' /\ JournalSchema' /\ JournalSaves'
    BY <1>1, <1>2, <2>1, ScriptEnds
  <2>. QED  BY <1>1, <2>2, JournalRowsStay DEF JournalInv
<1>3. CASE "user_version" \notin schema
  <2> DEFINE x == Journals!statements
  <2>1. /\ plan' = [plan EXCEPT ![p] = x] /\ UNCHANGED <<opened, holds>> /\ locker' = {}
    BY <1>1, <1>3 DEF Journals!Becomes
  <2>2. /\ x \in Scripts /\ Ahead(x) = "table" /\ x \notin Saving
    BY ScriptsBegin, ScriptKinds
  <2>. HIDE DEF x
  <2>3. /\ Ahead(x) \notin Locked /\ Before(Ahead(x)) \subseteq schema'
        /\ Ahead(x) \notin {"insert", "commit"}
    BY <2>2 DEF Locked, Before
  <2>4. /\ holds' \in [Process -> Saved \cup {Journals!NoSave}]
        /\ \A q \in Process \ {p} : holds'[q] = holds[q]
    BY <2>1 DEF JournalInv, JournalTypes
  <2>5. locker' = locker \ {p}
    <3>1. p \in locker
      BY <1>1 DEF JournalInv, JournalLock, Ahead, Locked
    <3>. QED  BY <2>1, <3>1 DEF JournalInv, JournalLock
  <2>6. JournalTypes' /\ JournalLock' /\ JournalSchema' /\ JournalSaves'
    BY <1>1, <2>1, <2>2, <2>3, <2>4, <2>5, SchemaStays, ScriptGoesOn
  <2>. QED  BY <1>1, <2>6, JournalRowsStay DEF JournalInv
<1>. QED  BY <1>2, <1>3

LEMMA JournalExecutes ==
  ASSUME JournalInv, NEW p \in Process, Journals!executescript(p) PROVE JournalInv'
<1>1. PICK i \in 1 .. 5 :
        LET statement == Journals!statements[i]
            fails == statement \in schema \ {"user_version"}
        IN /\ plan[p] # <<>> /\ Head(plan[p]) = statement
           /\ locker = {} /\ schema' = schema \cup {statement}
           /\ IF fails \/ i = 5 THEN Journals!Ends(p) ELSE Journals!Goes(p) /\ UNCHANGED locker
           /\ opened' = IF i = 5 THEN opened \cup {p} ELSE opened
  BY StatementNames DEF Journals!executescript, Journals!Takes
<1>2. UNCHANGED <<reviewJournal, rows, reply, follower>>
  BY DEF Journals!executescript, Journals!clients
<1> DEFINE statement == Journals!statements[i]
           x == Tail(plan[p])
<1>3. /\ statement \in Statements /\ (statement = "user_version" <=> i = 5)
      /\ plan[p] \in Scripts /\ Ahead(plan[p]) = statement
      /\ Before(statement) \subseteq schema
  BY <1>1, StatementNames, ScriptTails DEF JournalInv, JournalTypes, JournalSchema
<1>. HIDE DEF statement
<1>4. /\ opened' \subseteq Process /\ (opened' # {} => "user_version" \in schema')
      /\ schema \subseteq schema' /\ schema' \subseteq Statements
      /\ "user_version" \in schema' => Before("user_version") \subseteq schema'
  BY <1>1, <1>3 DEF JournalInv, JournalTypes, JournalSchema, statement
<1>5. CASE Journals!Ends(p)
  <2>1. JournalTypes' /\ JournalLock' /\ JournalSchema' /\ JournalSaves'
    BY <1>2, <1>4, <1>5, ScriptEnds
  <2>. QED  BY <1>2, <2>1, JournalRowsStay DEF JournalInv
<1>6. CASE Journals!Goes(p) /\ UNCHANGED locker /\ i # 5
  <2>1. /\ plan' = [plan EXCEPT ![p] = x] /\ holds' = holds /\ locker = {} /\ locker' = {}
    BY <1>1, <1>6 DEF Journals!Goes
  <2>2. /\ x \in Stating
        /\ \/ statement = "table" /\ Ahead(x) = "index"
           \/ statement = "index" /\ Ahead(x) = "no_update"
           \/ statement = "no_update" /\ Ahead(x) = "no_delete"
           \/ statement = "no_delete" /\ Ahead(x) = "user_version"
    <3>1. Head(plan[p]) = statement /\ plan[p] # <<>> /\ statement # "user_version"
      BY <1>1, <1>3, <1>6 DEF statement
    <3>. HIDE DEF x
    <3>2. statement \notin {"begin", "version", "look", "insert", "commit"}
      BY <1>3 DEF Statements
    <3>. QED  BY <1>3, <3>1, <3>2, ScriptTails DEF x
  <2>. HIDE DEF x
  <2>3. Before(Ahead(x)) = Before(statement) \cup {statement}
    BY <2>2 DEF Before
  <2>4. /\ x \in Scripts /\ x \notin Saving /\ Ahead(x) \notin {"insert", "commit"}
        /\ Ahead(x) \notin Locked /\ Before(Ahead(x)) \subseteq schema'
    <3>1. x \in Scripts
      BY <2>2, ScriptsBegin
    <3>. QED  BY <1>1, <1>3, <2>2, <2>3, <3>1, ScriptKinds DEF Locked, statement
  <2>5. /\ holds' \in [Process -> Saved \cup {Journals!NoSave}]
        /\ \A q \in Process \ {p} : holds'[q] = holds[q]
    BY <2>1 DEF JournalInv, JournalTypes
  <2>6. JournalTypes' /\ JournalLock' /\ JournalSchema' /\ JournalSaves'
    BY <1>2, <1>4, <2>1, <2>4, <2>5, ScriptGoesOn
  <2>. QED  BY <1>2, <2>6, JournalRowsStay DEF JournalInv
<1>. QED  BY <1>1, <1>5, <1>6

\* What is asked for and not refused at once may be saved.
LEMMA AskedIsSaved ==
  ASSUME NEW wish \in Journals!Asked, Journals!Valid(wish.contents),
         Journals!_validate_thread_id(wish.thread), wish.request # Journals!Blank
  PROVE  [wish EXCEPT !.request = Journals!_request_id(@)] \in Saved
<1> DEFINE r == wish.request
<1>1. /\ r \in Journals!Requests /\ wish.thread \in Journals!Threads
      /\ wish.contents \in {c \in Journals!Contents : Journals!Valid(c)}
  BY DEF Journals!Asked, Journals!_validate_thread_id
<1>2. Journals!_request_id(r) \in {Journals!Text("r", FALSE), Journals!Text("of its own", FALSE)}
  <2>1. \A spaces \in BOOLEAN : Journals!strip(Journals!Text("r", spaces)) = Journals!Text("r", FALSE)
    BY DEF Journals!strip, Journals!Text
  <2>2. r = Journals!NoRequest \/ \E spaces \in BOOLEAN : r = Journals!Text("r", spaces)
    BY <1>1 DEF Journals!Requests
  <2>. QED  BY <2>1, <2>2 DEF Journals!_request_id
<1>. QED  BY <1>1, <1>2 DEF Saved, Journals!Asked

LEMMA JournalSaving == ASSUME JournalInv, NEW p \in Process, Journals!Save(p) PROVE JournalInv'
<1> DEFINE x == Journals!save_snapshot
<1>1. /\ plan[p] = <<>> /\ UNCHANGED <<reviewJournal, schema, locker, rows, opened, follower>>
      /\ \E wish \in Journals!Asked :
           \/ /\ Journals!Valid(wish.contents) /\ Journals!_validate_thread_id(wish.thread)
              /\ wish.request # Journals!Blank
              /\ plan' = [plan EXCEPT ![p] = x]
              /\ holds' = [holds EXCEPT ![p] = [wish EXCEPT !.request = Journals!_request_id(@)]]
              /\ reply' = Journals!NoReply
           \/ reply'.kind = "refused" /\ UNCHANGED <<plan, holds>>
  BY DEF Journals!Save, Journals!Replies, Journals!database
<1>2. CASE reply'.kind = "refused" /\ UNCHANGED <<plan, holds>>
  <2>1. Saved' = Saved /\ (\A r : Journals!existing(r)' = Journals!existing(r)) /\ JournalFollower'
    BY <1>1, JournalRowsStay
  <2>2. JournalTypes' /\ JournalLock' /\ JournalSchema'
    BY <1>1, <1>2, <2>1, SavedStays DEF JournalInv, JournalTypes, JournalLock, JournalSchema
  <2>3. JournalSaves'
    <3>1. \A q \in Process : Journals!existing(holds[q].request)' = Journals!existing(holds[q].request)
      BY <1>1, <1>2 DEF Journals!existing
    <3>. QED  BY <1>2, <2>1, <3>1 DEF JournalInv, JournalSaves
  <2>4. JournalReply'
    BY <1>2 DEF JournalReply
  <2>. QED  BY <2>1, <2>2, <2>3, <2>4 DEF JournalInv
<1>3. ASSUME NEW save \in Saved, plan' = [plan EXCEPT ![p] = x], holds' = [holds EXCEPT ![p] = save],
             reply' = Journals!NoReply
      PROVE  JournalInv'
  <2>1. x \in Saving /\ x \in Scripts /\ Ahead(x) = "begin"
    BY ScriptsBegin
  <2>. HIDE DEF x
  <2>2. /\ Ahead(x) \notin Locked /\ Before(Ahead(x)) \subseteq schema'
        /\ Ahead(x) \notin {"insert", "commit"}
    BY <2>1 DEF Locked, Before
  <2>3. /\ holds' \in [Process -> Saved \cup {Journals!NoSave}] /\ p \notin locker
        /\ \A q \in Process \ {p} : holds'[q] = holds[q]
        /\ holds'[p] \in Saved
    BY <1>1, <1>3, ScriptsBegin DEF JournalInv, JournalTypes, JournalLock, Locked
  <2>4. JournalTypes' /\ JournalLock' /\ JournalSchema' /\ JournalSaves'
    BY <1>1, <1>3, <2>1, <2>2, <2>3, SchemaStays, ScriptGoesOn
  <2>. QED  BY <1>1, <1>3, <2>4, JournalRowsStay DEF JournalInv
<1>. QED  BY <1>1, <1>2, <1>3, AskedIsSaved

\* A process that has the write lock, and goes on with the save it works on.
LEMMA SaveGoesOn ==
  ASSUME JournalInv, NEW p \in Process, plan[p] \in Saving, Ahead(plan[p]) \in {"look", "insert"},
         Journals!Goes(p), Journals!existing(holds[p].request) = {},
         UNCHANGED <<reviewJournal, schema, locker, rows, opened>>
  PROVE  JournalTypes' /\ JournalLock' /\ JournalSchema' /\ JournalSaves'
<1> DEFINE x == Tail(plan[p])
<1>1. plan' = [plan EXCEPT ![p] = x] /\ holds' = holds
  BY DEF Journals!Goes
<1>2. x \in Saving /\ Ahead(x) \in {"insert", "commit"} /\ x \in Scripts
  <2>1. plan[p] \in Scripts /\ plan[p] # <<>>
    BY ScriptsBegin
  <2>2. Head(plan[p]) \in {"look", "insert"}
    BY <2>1, ScriptTails
  <2>. HIDE DEF x
  <2>. QED  BY <2>1, <2>2, ScriptTails, ScriptsBegin DEF x
<1>. HIDE DEF x
<1>3. Ahead(x) \in Locked /\ Before(Ahead(x)) \subseteq schema'
  BY <1>2 DEF Locked, Before
<1>4. /\ holds' \in [Process -> Saved \cup {Journals!NoSave}] /\ p \in locker
      /\ \A q \in Process \ {p} : holds'[q] = holds[q]
      /\ holds'[p] \in Saved /\ holds'[p].request = holds[p].request
  BY <1>1 DEF JournalInv, JournalTypes, JournalLock, JournalSaves, Locked
<1>. QED  BY <1>1, <1>2, <1>3, <1>4, SchemaStays, ScriptGoesOn

LEMMA JournalLooks == ASSUME JournalInv, NEW p \in Process, Journals!look(p) PROVE JournalInv'
<1> DEFINE save == holds[p]
           found == Journals!existing(save.request)
<1>1. /\ plan[p] # <<>> /\ Head(plan[p]) = "look"
      /\ UNCHANGED <<reviewJournal, schema, rows, opened, follower>>
      /\ IF found = {} THEN Journals!Goes(p) /\ UNCHANGED <<locker, reply>>
         ELSE \E s \in found :
                /\ Journals!Replies(IF rows[s] = save THEN "existing" ELSE "conflict", save, s)
                /\ Journals!Ends(p)
  BY DEF Journals!look, Journals!Takes
<1>2. plan[p] \in Saving /\ Ahead(plan[p]) = "look"
  BY <1>1, ScriptTails DEF JournalInv, JournalTypes
<1>3. CASE found = {}
  <2>1. JournalTypes' /\ JournalLock' /\ JournalSchema' /\ JournalSaves'
    BY <1>1, <1>2, <1>3, SaveGoesOn
  <2>. QED  BY <1>1, <1>3, <2>1, JournalRowsStay DEF JournalInv
<1>4. CASE found # {}
  <2>1. PICK s \in found :
          reply' = [kind |-> IF rows[s] = save THEN "existing" ELSE "conflict",
                    save |-> save, sequence |-> s]
    BY <1>1, <1>4 DEF Journals!Replies
  <2>2. JournalTypes' /\ JournalLock' /\ JournalSchema' /\ JournalSaves'
    BY <1>1, <1>4, SchemaStays, ScriptEnds
  <2>3. s \in DOMAIN rows /\ rows[s].request = save.request
    BY DEF Journals!existing
  <2>4. JournalReply'
    BY <1>1, <2>1, <2>3 DEF JournalReply
  <2>. QED  BY <1>1, <2>2, <2>4, JournalRowsStay DEF JournalInv
<1>. QED  BY <1>3, <1>4

LEMMA JournalInserts == ASSUME JournalInv, NEW p \in Process, Journals!insert(p) PROVE JournalInv'
<1>1. /\ plan[p] # <<>> /\ Head(plan[p]) = "insert"
      /\ UNCHANGED <<reviewJournal, schema, rows, opened, follower>>
  BY DEF Journals!insert, Journals!Takes
<1>2. plan[p] \in Saving /\ Ahead(plan[p]) = "insert"
  BY <1>1, ScriptTails DEF JournalInv, JournalTypes
<1>3. Journals!existing(holds[p].request) = {}
  BY <1>2 DEF JournalInv, JournalSaves
<1>4. \/ reply'.kind = "refused" /\ Journals!Ends(p)
      \/ Journals!Goes(p) /\ UNCHANGED <<locker, reply>>
  BY <1>3 DEF Journals!insert, Journals!Replies
<1>5. CASE reply'.kind = "refused" /\ Journals!Ends(p)
  <2>1. JournalTypes' /\ JournalLock' /\ JournalSchema' /\ JournalSaves'
    BY <1>1, <1>5, SchemaStays, ScriptEnds
  <2>2. JournalReply'
    BY <1>5 DEF JournalReply
  <2>. QED  BY <1>1, <2>1, <2>2, JournalRowsStay DEF JournalInv
<1>6. CASE Journals!Goes(p) /\ UNCHANGED <<locker, reply>>
  <2>1. JournalTypes' /\ JournalLock' /\ JournalSchema' /\ JournalSaves'
    BY <1>1, <1>2, <1>3, <1>6, SaveGoesOn
  <2>. QED  BY <1>1, <1>6, <2>1, JournalRowsStay DEF JournalInv
<1>. QED  BY <1>4, <1>5, <1>6

LEMMA JournalCommits == ASSUME JournalInv, NEW p \in Process, Journals!commit(p) PROVE JournalInv'
<1> DEFINE save == holds[p]
<1>1. /\ plan[p] # <<>> /\ Head(plan[p]) = "commit" /\ Journals!Ends(p)
      /\ rows' = Append(rows, save)
      /\ reply' = [kind |-> "created", save |-> save, sequence |-> Len(rows) + 1]
      /\ UNCHANGED <<reviewJournal, schema, opened, follower>>
  BY DEF Journals!commit, Journals!Takes, Journals!Replies
<1>2. /\ plan' = [plan EXCEPT ![p] = <<>>] /\ holds' = [holds EXCEPT ![p] = Journals!NoSave]
      /\ locker' = locker \ {p} /\ Saved' = Saved
  BY <1>1, SavedStays DEF Journals!Ends
<1>3. plan[p] \in Saving /\ Ahead(plan[p]) = "commit" /\ p \in locker /\ save \in Saved
  <2>1. plan[p] \in Saving /\ Ahead(plan[p]) = "commit"
    BY <1>1, ScriptTails DEF JournalInv, JournalTypes
  <2>. QED  BY <2>1 DEF JournalInv, JournalSaves, JournalLock, Locked
<1>. HIDE DEF save
<1>4. /\ rows \in Seq(Saved) /\ Len(rows') = Len(rows) + 1 /\ rows'[Len(rows) + 1] = save
      /\ \A s \in DOMAIN rows : s \in DOMAIN rows' /\ rows'[s] = rows[s] /\ s <= Len(rows)
      /\ rows' \in Seq(Saved) /\ DOMAIN rows' = DOMAIN rows \cup {Len(rows) + 1}
      /\ Len(rows) \in Nat /\ Len(rows) + 1 \notin DOMAIN rows
  BY <1>1, <1>3 DEF JournalInv, JournalTypes
<1>5. JournalTypes'
  BY <1>1, <1>2, <1>4 DEF JournalInv, JournalTypes, Scripts
<1>6. JournalLock' /\ JournalSchema'
  <2>1. plan'[p] = <<>> /\ \A q \in Process \ {p} : plan'[q] = plan[q]
    BY <1>2 DEF JournalInv, JournalTypes
  <2>2. Ahead(<<>>) = "none" /\ Ahead(<<>>) \notin Locked /\ Before("none") = {}
    BY ScriptsBegin DEF Locked, Before
  <2>. QED  BY <1>1, <1>2, <2>1, <2>2 DEF JournalInv, JournalTypes, JournalLock, JournalSchema
<1>7. JournalSaves'
  <2>1. ASSUME NEW q \in Process
        PROVE  /\ plan'[q] \in Saving => holds'[q] \in Saved
               /\ Ahead(plan'[q]) \notin {"insert", "commit"}
    <3>1. CASE q = p
      <4>1. plan'[q] = <<>>
        BY <1>2, <3>1 DEF JournalInv, JournalTypes
      <4>. QED  BY <4>1, ScriptsBegin
    <3>2. CASE q # p
      <4>1. plan'[q] = plan[q] /\ holds'[q] = holds[q] /\ q \notin locker
        BY <1>2, <1>3, <3>2 DEF JournalInv, JournalTypes, JournalLock
      <4>. QED  BY <4>1 DEF JournalInv, JournalSaves, JournalLock, Locked
    <3>. QED  BY <3>1, <3>2
  <2>. QED  BY <1>2, <2>1 DEF JournalSaves
<1>8. JournalReply'
  BY <1>1, <1>4 DEF JournalReply
<1>9. JournalFollower'
  <2>1. \A c : Journals!_event(c)' = Journals!_event(c)
    BY <1>1, SavedStays
  <2>2. {e \in Journals!_of("t1")' : e <= follower.after} = {e \in Journals!_of("t1") : e <= follower.after}
    BY <1>4 DEF Journals!_of, JournalInv, JournalFollower
  <2>3. \A s \in DOMAIN rows : Journals!_event(rows[s].contents)' = Journals!_event(rows[s].contents)
    BY <1>1, <1>4 DEF Journals!_event
  <2>4. Journals!_of("t1") \subseteq DOMAIN rows
    BY DEF Journals!_of
  <2>. QED  BY <1>1, <1>4, <2>2, <2>3, <2>4 DEF JournalInv, JournalFollower
<1>. QED  BY <1>5, <1>6, <1>7, <1>8, <1>9 DEF JournalInv

\* What a client hears of at once is the first of what comes after its cursor.
LEMMA JournalReads == ASSUME JournalInv, Journals!events PROVE JournalInv'
<1> DEFINE of == Journals!_of("t1")
           after == {s \in of : s > follower.after}
           Heard(S) == {<<s, Journals!_event(rows[s].contents)>> : s \in S}
<1>0. /\ reply' = Journals!NoReply
      /\ UNCHANGED <<reviewJournal, schema, locker, rows, opened, plan, holds>>
  BY DEF Journals!events, Journals!database
<1>1. PICK last \in after :
        follower' = [after |-> last,
                     heard |-> follower.heard \cup Heard({e \in after : e <= last})]
  BY DEF Journals!events
<1>2. /\ of \subseteq 1 .. Len(rows) /\ Len(rows) \in Nat
      /\ follower.after \in 0 .. Len(rows) /\ of' = of
      /\ follower.heard = Heard({e \in of : e <= follower.after})
  BY <1>0 DEF Journals!_of, JournalInv, JournalTypes, JournalFollower
<1>3. \A s : Journals!_event(rows[s].contents)' = Journals!_event(rows[s].contents)
  BY <1>0 DEF Journals!_event
<1>. HIDE DEF of
<1>4. {e \in of : e <= last} = {e \in of : e <= follower.after} \cup {e \in after : e <= last}
  BY <1>2
<1>5. follower'.heard = Heard({e \in of : e <= last}) /\ follower'.after = last
  BY <1>1, <1>2, <1>4
<1>6. JournalFollower'
  <2>1. follower'.after \in 0 .. Len(rows')
    BY <1>0, <1>2, <1>5
  <2>2. Journals!_of("t1")' = of
    BY <1>2 DEF of
  <2>. QED  BY <1>3, <1>5, <2>1, <2>2 DEF JournalFollower
<1>7. JournalTypes' /\ JournalLock' /\ JournalSchema' /\ JournalSaves'
  <2>1. Saved' = Saved
    BY <1>0, SavedStays
  <2>2. \A q \in Process : Journals!existing(holds[q].request)' = Journals!existing(holds[q].request)
    BY <1>0 DEF Journals!existing
  <2>. QED  BY <1>0, <2>1, <2>2 DEF JournalInv, JournalTypes, JournalLock, JournalSchema, JournalSaves
<1>. QED  BY <1>0, <1>6, <1>7, JournalRowsStay DEF JournalInv

LEMMA JournalAnswersLatest == ASSUME JournalInv, Journals!latest_snapshot PROVE JournalInv'
<1>1. /\ UNCHANGED <<reviewJournal, schema, locker, rows, opened, plan, holds, follower>>
      /\ reply'.kind \in {"nothing", "latest"}
  BY DEF Journals!latest_snapshot, Journals!Replies, Journals!database
<1>2. JournalTypes' /\ JournalLock' /\ JournalSchema' /\ JournalSaves'
  <2>1. Saved' = Saved
    BY <1>1, SavedStays
  <2>2. \A q \in Process : Journals!existing(holds[q].request)' = Journals!existing(holds[q].request)
    BY <1>1 DEF Journals!existing
  <2>. QED  BY <1>1, <2>1, <2>2 DEF JournalInv, JournalTypes, JournalLock, JournalSchema, JournalSaves
<1>3. JournalReply'
  BY <1>1 DEF JournalReply
<1>. QED  BY <1>1, <1>2, <1>3, JournalRowsStay DEF JournalInv

LEMMA JournalStutters == ASSUME JournalInv, UNCHANGED journalVars PROVE JournalInv'
<1>1. UNCHANGED <<reviewJournal, schema, locker, rows, opened, plan, holds, reply, follower>>
  BY DEF journalVars
<1>2. JournalTypes' /\ JournalLock' /\ JournalSchema' /\ JournalSaves'
  <2>1. Saved' = Saved
    BY <1>1, SavedStays
  <2>2. \A q \in Process : Journals!existing(holds[q].request)' = Journals!existing(holds[q].request)
    BY <1>1 DEF Journals!existing
  <2>. QED  BY <1>1, <2>1, <2>2 DEF JournalInv, JournalTypes, JournalLock, JournalSchema, JournalSaves
<1>. QED  BY <1>1, <1>2, JournalRowsStay DEF JournalInv

LEMMA JournalKept == ASSUME JournalInv, Journals!Next PROVE JournalInv'
BY JournalBegins, JournalStops, JournalOpens, JournalVersions, JournalExecutes, JournalSaving,
   JournalLooks, JournalInserts, JournalCommits, JournalReads, JournalAnswersLatest
   DEF Journals!Next

LEMMA JournalAlone == [WorkbenchNext]_workbenchVars => Journals!Next \/ UNCHANGED journalVars
BY DEF WorkbenchNext, workbenchVars, fileVars

(* A save of a review journal is answered with the one row of its request, *)
(* a conflict names another save of it, an open store has its whole        *)
(* schema, a follower has heard every row of its thread up to its cursor,  *)
(* and every row can be read, for any number of processes that open,       *)
(* migrate, save and stop in any order.  (annotations/journal.py and       *)
(* saved_measurements/journal.py: save_snapshot, _migrate, events.)        *)
THEOREM JournalsTellAll == WorkbenchSpec => []JournalTellsAll
<1>1. WorkbenchInit => JournalInv
  BY JournalStarts DEF WorkbenchInit
<1>2. JournalInv /\ [WorkbenchNext]_workbenchVars => JournalInv'
  BY JournalAlone, JournalKept, JournalStutters
<1>3. JournalInv => JournalTellsAll
  <2>1. ASSUME JournalInv PROVE Journals!JournalTellsAll
    <3>1. opened # {} =>
            {Journals!statements[i] : i \in DOMAIN Journals!statements} \subseteq schema
      BY <2>1, StatementNames DEF JournalInv, JournalSchema, Statements, Before
    <3>2. ASSUME NEW s \in DOMAIN rows PROVE Journals!Valid(Journals!_event(rows[s].contents))
      <4>1. rows[s] \in Saved
        BY <2>1 DEF JournalInv, JournalTypes
      <4>. QED  BY <4>1, ContentsShape, ContentsRead DEF Saved
    <3>. QED  BY <2>1, <3>1, <3>2 DEF JournalInv, JournalReply, JournalFollower,
                 Journals!JournalTellsAll
  <2>. QED  BY <2>1 DEF JournalTellsAll
<1>. QED  BY <1>1, <1>2, <1>3, PTL DEF WorkbenchSpec

-----------------------------------------------------------------------------
(* Drafts: the steps of a request, and what is left of them.               *)

DraftName == {"newTx", "newDraft", "edit", "export", "check", "openDraft", "closeDraft", "openTx", "closeTx",
              "record", "writeReview", "writeManifest", "forgetDraft", "removeDraft", "forgetTx", "removeTx",
              "convert", "describe"}
DraftOp == {"begin", "create", "add_feature", "add_louver_pattern", "mirror_features", "set_panel_thickness",
            "measure", "preview", "accept", "discard", "export", "display"}
DraftStep == {x \in DraftName \X DraftOp : x[1] = "edit" => x[2] \in Drafts!Edits}
DraftSteps == Seq(DraftStep)
DiscardName == {"forgetDraft", "removeDraft", "forgetTx", "removeTx"}

Has(s, name) == \E i \in 1 .. Len(s) : s[i][1] = name
HasStep(s, x) == \E i \in 1 .. Len(s) : s[i] = x
Discards(s) == \A i \in 1 .. Len(s) : s[i][1] \in DiscardName

\* The step that a step comes right after.
AfterStep(s) ==
  \A i \in 2 .. Len(s) :
    /\ s[i][1] = "closeDraft" => s[i - 1][1] = "openDraft"
    /\ s[i][1] = "closeTx" => s[i - 1][1] = "openTx"
    /\ s[i][1] = "record" => s[i - 1][1] \in {"closeDraft", "writeReview"}
    /\ s[i] = <<"record", "accept">> => s[i - 1][1] = "writeReview"
    /\ s[i][1] = "writeReview" => s[i - 1][1] = "closeDraft"
    /\ s[i][1] = "removeDraft" => s[i - 1][1] = "forgetDraft"
    /\ s[i][1] = "removeTx" => s[i - 1][1] = "forgetTx"
    /\ s[i][1] = "describe" => s[i - 1][1] = "convert"
    /\ s[i][1] # "newTx"
\* The steps that a step comes before, or after.
BeforeStep(s) ==
  \A i \in 1 .. Len(s) :
    /\ s[i][1] = "writeReview" => i + 1 \in 1 .. Len(s) /\ s[i + 1][1] = "record"
    /\ s[i] = <<"record", "accept">> =>
         /\ i + 1 \in 1 .. Len(s) /\ s[i + 1][1] = "writeManifest"
         /\ \A j \in 1 .. Len(s) : j > i => s[j][1] # "record"
    /\ s[i][1] = "newDraft" => \A j \in 1 .. Len(s) : j < i => s[j][1] \in {"newTx", "openTx", "closeTx"}
    /\ s[i] = <<"record", "create">> => \A j \in 1 .. Len(s) : j < i => s[j][1] # "edit"
DraftScript(s) ==
  /\ AfterStep(s) /\ BeforeStep(s)
  /\ s # <<>> /\ s[1][1] = "newTx" /\ Has(s, "record") => HasStep(s, <<"record", "create">>)
  /\ Discards(s) \/ \A i \in 1 .. Len(s) : s[i][1] \notin DiscardName

-----------------------------------------------------------------------------
(* What a draft and its transaction say of each other.                     *)

DraftRec == [kind : {"draft"}, features : Seq(Drafts!Face)]
TxRec == [kind : {"tx"}, open : BOOLEAN, draft : BOOLEAN, recorded : Nat, operations : Seq(DraftOp),
          exported : BOOLEAN]
CallRec == [kind : {"call"}, token : Token, face : Drafts!Face, grew : Nat,
            data : DraftRec \cup TxRec \cup {Drafts!Absent}]
NoFile == {Drafts!Absent, Drafts!Torn, Drafts!Removed}
Rec(tx) == IF tx \in TxRec THEN tx.recorded ELSE 0

DraftTyped ==
  /\ draftOf \in [Host -> [Token -> DraftRec \cup {Drafts!Absent}]]
  /\ txOf \in [Host -> [Token -> TxRec \cup {Drafts!Absent}]]
  /\ draftFile \in [Token -> DraftRec \cup NoFile] /\ txFile \in [Token -> TxRec \cup NoFile]
  /\ stepFile \in [Token -> [features : Seq(Drafts!Face), export : Nat]]
  /\ review \in [Token -> [features : Seq(Drafts!Face), complete : BOOLEAN]]
  /\ mesh \in [Token -> Seq(Drafts!Face)] /\ meshOf \in [Token -> Nat]
  /\ todo \in [Client -> DraftSteps] /\ call \in [Client -> CallRec \cup {Drafts!Absent}]

TxFits(tx) == tx \in TxRec => /\ ~tx.draft => tx.recorded = 0
                              /\ ~tx.open => tx.exported
\* Of the copies in memory, D and X, and those in the files, DF and XF.
TokenFits(D, X, DF, XF, rv, ms, mo, st) ==
  /\ D \in DraftRec => Rec(X) <= Len(D.features) /\ Rec(XF) <= Len(D.features) /\ DF # Drafts!Removed
  /\ DF \in DraftRec => Rec(X) <= Len(DF.features) /\ Rec(XF) <= Len(DF.features)
  /\ TxFits(X) /\ TxFits(XF)
  /\ X \in TxRec /\ XF \in TxRec => /\ XF.draft => X.draft
                                    /\ X.open => XF.open
  /\ XF \in TxRec /\ ~XF.open => rv.complete /\ XF.recorded <= Len(rv.features)
  /\ X \in TxRec /\ ~X.open => X.recorded <= Len(rv.features)
  /\ DF # Drafts!Removed /\ mo = st.export => ms = st.features
  /\ mo <= st.export
Closed(X, rv) == X \in TxRec /\ ~X.open => rv.complete
\* What the next step x of a request relies on.
HeadFits(x, cl, D, X, DF, XF, rv, ms, st) ==
  /\ x[1] = "newTx" => XF \notin TxRec
  /\ x[1] = "closeDraft" => D \in DraftRec /\ cl.data = D
  /\ x[1] = "closeTx" => X \in TxRec /\ cl.data = X
  /\ x[1] \in {"record", "writeReview"} => (DF \in DraftRec => Rec(X) + cl.grew <= Len(DF.features))
  /\ x = <<"record", "accept">> => Rec(X) + cl.grew <= Len(rv.features)
  /\ x[1] = "removeDraft" => D \notin DraftRec
  /\ x[1] = "removeTx" => X \notin TxRec
  /\ x[1] = "describe" => ms = st.features
\* Of the token of a request with the steps s left.
CallFits(s, cl, D, X, DF, XF, rv, ms, st) ==
  /\ DraftScript(s)
  /\ D \in DraftRec => Rec(X) + cl.grew <= Len(D.features)
  /\ Has(s, "record") /\ s[1][1] # "newTx" =>
       X \in TxRec /\ X.open /\ (HasStep(s, <<"record", "create">>) \/ X.draft)
  /\ HasStep(s, <<"record", "create">>) \/ Has(s, "newDraft") => cl.grew = 0
  /\ Has(s, "newDraft") => Rec(X) = 0 /\ Rec(XF) = 0
  /\ ~Discards(s) => DF # Drafts!Removed
  /\ HeadFits(s[1], cl, D, X, DF, XF, rv, ms, st)
  /\ Closed(X, rv) \/ s[1][1] = "writeManifest"

DraftInv ==
  /\ DraftTyped
  /\ \A t \in Token :
       TokenFits(draftOf["viewer"][t], txOf["viewer"][t], draftFile[t], txFile[t], review[t], mesh[t], meshOf[t],
                 stepFile[t])
  /\ \A c \in Client : todo[c] # <<>> => call[c] \in CallRec
  /\ \A c \in Client : todo[c] # <<>> =>
       LET t == call[c].token IN
       CallFits(todo[c], call[c], draftOf["viewer"][t], txOf["viewer"][t], draftFile[t], txFile[t], review[t],
                mesh[t], stepFile[t])
  /\ \A t \in Token : (\A c \in Client : todo[c] = <<>> \/ call[c].token # t) => Closed(txOf["viewer"][t], review[t])

-----------------------------------------------------------------------------
(* The scripts of requests are scripts of this kind.                       *)

LEMMA OneStep ==
  ASSUME NEW n \in DraftName, NEW o \in DraftOp, n = "edit" => o \in Drafts!Edits
  PROVE  /\ Drafts!Steps(<<n>>, o) \in DraftSteps /\ Len(Drafts!Steps(<<n>>, o)) = 1
         /\ Drafts!Steps(<<n>>, o)[1] = <<n, o>>
BY DEF Drafts!Steps, DraftSteps, DraftStep

LEMMA TwoSteps ==
  ASSUME NEW n \in DraftName \ {"edit"}, NEW m \in DraftName \ {"edit"}, NEW o \in DraftOp
  PROVE  LET s == Drafts!Steps(<<n, m>>, o)
         IN  s \in DraftSteps /\ Len(s) = 2 /\ s[1] = <<n, o>> /\ s[2] = <<m, o>>
BY DEF Drafts!Steps, DraftSteps, DraftStep

LEMMA ThreeSteps ==
  ASSUME NEW n \in DraftName \ {"edit"}, NEW m \in DraftName \ {"edit"}, NEW k \in DraftName \ {"edit"},
         NEW o \in DraftOp
  PROVE  LET s == Drafts!Steps(<<n, m, k>>, o)
         IN  s \in DraftSteps /\ Len(s) = 3 /\ s[1] = <<n, o>> /\ s[2] = <<m, o>> /\ s[3] = <<k, o>>
BY DEF Drafts!Steps, DraftSteps, DraftStep

\* The elements of what is put together.
LEMMA Joined ==
  ASSUME NEW a \in DraftSteps, NEW b \in DraftSteps
  PROVE  /\ a \o b \in DraftSteps /\ Len(a \o b) = Len(a) + Len(b)
         /\ \A i \in 1 .. Len(a) : (a \o b)[i] = a[i]
         /\ \A i \in 1 .. Len(b) : (a \o b)[Len(a) + i] = b[i]
         /\ \A i \in 1 .. Len(a \o b) : i > Len(a) => i - Len(a) \in 1 .. Len(b) /\ (a \o b)[i] = b[i - Len(a)]
<1>1. /\ a \o b \in DraftSteps /\ Len(a \o b) = Len(a) + Len(b)
      /\ \A i \in 1 .. Len(a) + Len(b) : (a \o b)[i] = IF i <= Len(a) THEN a[i] ELSE b[i - Len(a)]
  BY ConcatProperties DEF DraftSteps
<1>2. Len(a) \in Nat /\ Len(b) \in Nat
  BY DEF DraftSteps
<1>. HIDE DEF DraftSteps
<1>3. \A i \in 1 .. Len(a) : (a \o b)[i] = a[i]
  BY <1>1, <1>2
<1>4. \A i \in 1 .. Len(b) : (a \o b)[Len(a) + i] = b[i]
  <2>1. ASSUME NEW i \in 1 .. Len(b)
        PROVE  (a \o b)[Len(a) + i] = b[i]
    <3>1. Len(a) + i \in 1 .. Len(a) + Len(b) /\ ~(Len(a) + i <= Len(a)) /\ (Len(a) + i) - Len(a) = i
      BY <1>2
    <3>. QED  BY <1>1, <3>1
  <2>. QED  BY <2>1
<1>5. \A i \in 1 .. Len(a \o b) : i > Len(a) => i - Len(a) \in 1 .. Len(b) /\ (a \o b)[i] = b[i - Len(a)]
  BY <1>1, <1>2
<1>. QED  BY <1>1, <1>3, <1>4, <1>5

Fresh(s) ==
  s[1][1] \notin {"closeDraft", "closeTx", "record", "writeReview", "removeDraft", "removeTx", "describe",
                  "writeManifest", "newTx"}
NoDiscard(s) == \A i \in 1 .. Len(s) : s[i][1] \notin DiscardName
Plain(s) ==
  /\ s \in DraftSteps /\ s # <<>> /\ DraftScript(s) /\ Fresh(s) /\ NoDiscard(s)
  /\ ~Has(s, "newDraft") /\ ~HasStep(s, <<"record", "create">>) /\ ~HasStep(s, <<"record", "accept">>)
\* A script that something plain may follow.
Opening(s) ==
  /\ s \in DraftSteps /\ s # <<>> /\ DraftScript(s) /\ NoDiscard(s) /\ ~HasStep(s, <<"record", "accept">>)
  /\ HasStep(s, <<"record", "create">>)

LEMMA NotEmpty ==
  ASSUME NEW s \in DraftSteps
  PROVE  /\ Len(s) \in Nat /\ (s = <<>> <=> Len(s) = 0) /\ (s # <<>> => 1 \in 1 .. Len(s))
         /\ \A i \in 1 .. Len(s) : s[i] \in DraftName \X DraftOp
BY EmptySeq DEF DraftSteps, DraftStep

LEMMA PlainFollows ==
  ASSUME NEW a, NEW b, Plain(b), a \in DraftSteps, a # <<>>, DraftScript(a), NoDiscard(a),
         ~HasStep(a, <<"record", "accept">>),
         a[1][1] = "newTx" => HasStep(a, <<"record", "create">>)
  PROVE  /\ a \o b \in DraftSteps /\ a \o b # <<>> /\ DraftScript(a \o b) /\ NoDiscard(a \o b)
         /\ ~HasStep(a \o b, <<"record", "accept">>) /\ (a \o b)[1] = a[1]
         /\ HasStep(a \o b, <<"record", "create">>) <=> HasStep(a, <<"record", "create">>)
         /\ Has(a \o b, "newDraft") <=> Has(a, "newDraft")
<1> DEFINE s == a \o b
           n == Len(a)
<1>0. b \in DraftSteps /\ b # <<>>
  BY DEF Plain
<1>1. /\ s \in DraftSteps /\ Len(s) = n + Len(b)
      /\ \A i \in 1 .. n : s[i] = a[i]
      /\ \A i \in 1 .. Len(b) : s[n + i] = b[i]
      /\ \A i \in 1 .. Len(s) : i > n => i - n \in 1 .. Len(b) /\ s[i] = b[i - n]
  BY <1>0, Joined
<1>2. n \in Nat /\ n >= 1 /\ Len(b) \in Nat /\ Len(b) >= 1 /\ 1 \in 1 .. n
  BY <1>0, NotEmpty
<1>. HIDE DEF s, n
<1>3. s # <<>> /\ s[1] = a[1]
  BY <1>1, <1>2, NotEmpty
<1>4. \A i \in 1 .. Len(s) : i \in 1 .. n \/ (i > n /\ i - n \in 1 .. Len(b))
  BY <1>1, <1>2
<1>5. NoDiscard(s)
  BY <1>1, <1>4 DEF NoDiscard, Plain, n
<1>6. ~HasStep(s, <<"record", "accept">>)
  BY <1>1, <1>4 DEF HasStep, Plain, n
<1>7. HasStep(s, <<"record", "create">>) <=> HasStep(a, <<"record", "create">>)
  <2>1. ASSUME NEW i \in 1 .. Len(a), a[i] = <<"record", "create">>
        PROVE  HasStep(s, <<"record", "create">>)
    <3>1. i \in 1 .. Len(s) /\ s[i] = a[i]
      BY <1>1, <1>2 DEF n
    <3>. QED  BY <2>1, <3>1 DEF HasStep
  <2>2. ASSUME NEW i \in 1 .. Len(s), s[i] = <<"record", "create">>
        PROVE  HasStep(a, <<"record", "create">>)
    <3>1. CASE i \in 1 .. n
      BY <1>1, <2>2, <3>1 DEF HasStep, n
    <3>2. CASE i > n
      BY <1>1, <2>2, <3>2 DEF HasStep, Plain
    <3>. QED  BY <1>4, <3>1, <3>2
  <2>. QED  BY <2>1, <2>2 DEF HasStep
<1>8. Has(s, "newDraft") <=> Has(a, "newDraft")
  <2>1. ASSUME NEW i \in 1 .. Len(a), a[i][1] = "newDraft"
        PROVE  Has(s, "newDraft")
    <3>1. i \in 1 .. Len(s) /\ s[i] = a[i]
      BY <1>1, <1>2 DEF n
    <3>. QED  BY <2>1, <3>1 DEF Has
  <2>2. ASSUME NEW i \in 1 .. Len(s), s[i][1] = "newDraft"
        PROVE  Has(a, "newDraft")
    BY <1>1, <1>4, <2>2 DEF Has, Plain, n
  <2>. QED  BY <2>1, <2>2 DEF Has
<1>9. AfterStep(s)
  <2> DEFINE ok(x, y) == /\ x[1] = "closeDraft" => y[1] = "openDraft"
                         /\ x[1] = "closeTx" => y[1] = "openTx"
                         /\ x[1] = "record" => y[1] \in {"closeDraft", "writeReview"}
                         /\ x = <<"record", "accept">> => y[1] = "writeReview"
                         /\ x[1] = "writeReview" => y[1] = "closeDraft"
                         /\ x[1] = "removeDraft" => y[1] = "forgetDraft"
                         /\ x[1] = "removeTx" => y[1] = "forgetTx"
                         /\ x[1] = "describe" => y[1] = "convert"
                         /\ x[1] # "newTx"
  <2>1. ASSUME NEW i \in 2 .. Len(s)
        PROVE  ok(s[i], s[i - 1])
    <3>1. CASE i <= n
      <4>1. i \in 2 .. Len(a) /\ s[i] = a[i] /\ s[i - 1] = a[i - 1]
        BY <1>1, <1>2, <3>1 DEF n
      <4>2. ok(a[i], a[i - 1])
        BY <4>1 DEF DraftScript, AfterStep
      <4>. HIDE DEF ok
      <4>. QED  BY <4>1, <4>2
    <3>2. CASE i = n + 1
      <4>1. s[i] = b[1]
        BY <1>1, <1>2, <3>2
      <4>. QED  BY <4>1 DEF Plain, Fresh
    <3>3. CASE i > n + 1
      <4>1. i - n \in 2 .. Len(b) /\ s[i] = b[i - n] /\ s[i - 1] = b[(i - n) - 1]
        <5>1. i - n \in 2 .. Len(b) /\ s[i] = b[i - n] /\ (i - n) - 1 \in 1 .. Len(b) /\ n + ((i - n) - 1) = i - 1
          BY <1>1, <1>2, <3>3
        <5>. QED  BY <1>1, <5>1
      <4>2. ok(b[i - n], b[(i - n) - 1])
        BY <4>1 DEF Plain, DraftScript, AfterStep
      <4>. HIDE DEF ok
      <4>. QED  BY <4>1, <4>2
    <3>. QED  BY <1>2, <3>1, <3>2, <3>3
  <2>. QED  BY <2>1 DEF AfterStep
<1>10. BeforeStep(s)
  <2>1. ASSUME NEW i \in 1 .. Len(s), s[i][1] = "writeReview"
        PROVE  i + 1 \in 1 .. Len(s) /\ s[i + 1][1] = "record"
    <3>1. CASE i \in 1 .. n
      <4>1. i + 1 \in 1 .. Len(a) /\ a[i + 1][1] = "record"
        BY <1>1, <2>1, <3>1 DEF DraftScript, BeforeStep, n
      <4>. QED  BY <1>1, <1>2, <4>1 DEF n
    <3>2. CASE i > n
      <4>1. i - n \in 1 .. Len(b) /\ b[i - n][1] = "writeReview"
        BY <1>1, <2>1, <3>2
      <4>2. (i - n) + 1 \in 1 .. Len(b) /\ b[(i - n) + 1][1] = "record"
        BY <4>1 DEF Plain, DraftScript, BeforeStep
      <4>0. Len(s) = n + Len(b) /\ Len(b) \in Nat
        BY <1>1, <1>2 DEF n
      <4>3. n + ((i - n) + 1) = i + 1 /\ i + 1 \in 1 .. Len(s)
        BY <1>2, <4>0, <4>2
      <4>. QED  BY <1>1, <4>2, <4>3
    <3>. QED  BY <1>4, <3>1, <3>2
  <2>2. ASSUME NEW i \in 1 .. Len(s), s[i][1] = "newDraft", NEW j \in 1 .. Len(s), j < i
        PROVE  s[j][1] \in {"newTx", "openTx", "closeTx"}
    <3>1. i \in 1 .. n
      BY <1>1, <1>4, <2>2 DEF Plain, Has
    <3>2. j \in 1 .. n
      BY <1>2, <2>2, <3>1
    <3>. QED  BY <1>1, <2>2, <3>1, <3>2 DEF DraftScript, BeforeStep, n
  <2>3. ASSUME NEW i \in 1 .. Len(s), s[i] = <<"record", "create">>, NEW j \in 1 .. Len(s), j < i
        PROVE  s[j][1] # "edit"
    <3>1. i \in 1 .. n
      BY <1>1, <1>4, <2>3 DEF Plain, HasStep
    <3>2. j \in 1 .. n
      BY <1>2, <2>3, <3>1
    <3>. QED  BY <1>1, <2>3, <3>1, <3>2 DEF DraftScript, BeforeStep, n
  <2>. QED  BY <1>6, <2>1, <2>2, <2>3 DEF BeforeStep, HasStep
<1>11. s[1][1] = "newTx" => HasStep(s, <<"record", "create">>)
  BY <1>3, <1>7
<1>. HIDE DEF s
<1>12. DraftScript(s)
  BY <1>5, <1>9, <1>10, <1>11 DEF DraftScript, NoDiscard
<1>. QED  BY <1>1, <1>3, <1>5, <1>6, <1>7, <1>8, <1>12 DEF s

LEMMA PlainJoins ==
  ASSUME NEW a, NEW b, Plain(a), Plain(b)
  PROVE  Plain(a \o b)
<1>1. a \in DraftSteps /\ a # <<>> /\ DraftScript(a) /\ NoDiscard(a) /\ ~HasStep(a, <<"record", "accept">>)
      /\ a[1][1] # "newTx"
  BY DEF Plain, Fresh
<1>. QED  BY <1>1, PlainFollows DEF Plain, Fresh

LEMMA OpeningJoins ==
  ASSUME NEW a, NEW b, Opening(a), Plain(b)
  PROVE  Opening(a \o b) /\ (a \o b)[1] = a[1] /\ (Has(a \o b, "newDraft") <=> Has(a, "newDraft"))
BY PlainFollows DEF Opening

\* Six steps: a draft is changed or exported and written, and so is its transaction.
SixSteps(s, n, o) ==
  /\ s \in DraftSteps /\ Len(s) = 6
  /\ s[1] = <<n, o>> /\ s[2] = <<"openDraft", o>> /\ s[3] = <<"closeDraft", o>>
  /\ s[4] = <<"record", o>> /\ s[5] = <<"openTx", o>> /\ s[6] = <<"closeTx", o>>

LEMMA SixInAll ==
  ASSUME NEW n \in DraftName, NEW o \in DraftOp, n = "edit" => o \in Drafts!Edits
  PROVE  SixSteps((Drafts!Steps(<<n>>, o) \o Drafts!_write_state(o))
                    \o (Drafts!Steps(<<"record">>, o) \o Drafts!_write_transaction_state(o)), n, o)
<1> DEFINE a == Drafts!Steps(<<n>>, o)
           b == Drafts!Steps(<<"openDraft", "closeDraft">>, o)
           c == Drafts!Steps(<<"record">>, o)
           d == Drafts!Steps(<<"openTx", "closeTx">>, o)
<1>1. a \in DraftSteps /\ Len(a) = 1 /\ a[1] = <<n, o>>
  BY OneStep
<1>2. c \in DraftSteps /\ Len(c) = 1 /\ c[1] = <<"record", o>>
  <2>1. "record" \in DraftName
    BY DEF DraftName
  <2>. QED  BY <2>1, OneStep
<1>3. b \in DraftSteps /\ Len(b) = 2 /\ b[1] = <<"openDraft", o>> /\ b[2] = <<"closeDraft", o>>
  <2>1. "openDraft" \in DraftName \ {"edit"} /\ "closeDraft" \in DraftName \ {"edit"}
    BY DEF DraftName
  <2>. QED  BY <2>1, TwoSteps
<1>4. d \in DraftSteps /\ Len(d) = 2 /\ d[1] = <<"openTx", o>> /\ d[2] = <<"closeTx", o>>
  <2>1. "openTx" \in DraftName \ {"edit"} /\ "closeTx" \in DraftName \ {"edit"}
    BY DEF DraftName
  <2>. QED  BY <2>1, TwoSteps
<1>5. b = Drafts!_write_state(o) /\ d = Drafts!_write_transaction_state(o)
  BY DEF Drafts!_write_state, Drafts!_write_transaction_state
<1>. HIDE DEF a, b, c, d
<1>6. a \o b \in DraftSteps /\ Len(a \o b) = 3 /\ (a \o b)[1] = a[1] /\ (a \o b)[2] = b[1] /\ (a \o b)[3] = b[2]
  <2>1. /\ a \o b \in DraftSteps /\ Len(a \o b) = Len(a) + Len(b)
        /\ \A i \in 1 .. Len(a) : (a \o b)[i] = a[i]
        /\ \A i \in 1 .. Len(b) : (a \o b)[Len(a) + i] = b[i]
    BY <1>1, <1>3, Joined
  <2>. QED  BY <1>1, <1>3, <2>1
<1>7. c \o d \in DraftSteps /\ Len(c \o d) = 3 /\ (c \o d)[1] = c[1] /\ (c \o d)[2] = d[1] /\ (c \o d)[3] = d[2]
  <2>1. /\ c \o d \in DraftSteps /\ Len(c \o d) = Len(c) + Len(d)
        /\ \A i \in 1 .. Len(c) : (c \o d)[i] = c[i]
        /\ \A i \in 1 .. Len(d) : (c \o d)[Len(c) + i] = d[i]
    BY <1>2, <1>4, Joined
  <2>. QED  BY <1>2, <1>4, <2>1
<1>8. LET x == a \o b  y == c \o d IN
      /\ x \o y \in DraftSteps /\ Len(x \o y) = 6 /\ (x \o y)[1] = x[1] /\ (x \o y)[2] = x[2] /\ (x \o y)[3] = x[3]
      /\ (x \o y)[4] = y[1] /\ (x \o y)[5] = y[2] /\ (x \o y)[6] = y[3]
  <2> DEFINE x == a \o b
             y == c \o d
  <2>1. x \in DraftSteps /\ Len(x) = 3 /\ y \in DraftSteps /\ Len(y) = 3
    BY <1>6, <1>7
  <2>. HIDE DEF x, y
  <2>2. /\ x \o y \in DraftSteps /\ Len(x \o y) = Len(x) + Len(y)
        /\ \A i \in 1 .. Len(x) : (x \o y)[i] = x[i]
        /\ \A i \in 1 .. Len(y) : (x \o y)[Len(x) + i] = y[i]
    BY <2>1, Joined
  <2>3. /\ x \o y \in DraftSteps /\ Len(x \o y) = 6 /\ (x \o y)[1] = x[1] /\ (x \o y)[2] = x[2] /\ (x \o y)[3] = x[3]
        /\ (x \o y)[4] = y[1] /\ (x \o y)[5] = y[2] /\ (x \o y)[6] = y[3]
    BY <2>1, <2>2
  <2>. QED  BY <2>3 DEF x, y
<1>9. SixSteps((a \o b) \o (c \o d), n, o)
  BY <1>1, <1>2, <1>3, <1>4, <1>6, <1>7, <1>8 DEF SixSteps
<1>. QED  BY <1>5, <1>9 DEF a, c

LEMMA SixIsScript ==
  ASSUME NEW s, NEW n, NEW o, SixSteps(s, n, o), n \in {"newDraft", "edit", "export"}, o # "accept",
         n = "newDraft" <=> o = "create"
  PROVE  /\ s # <<>> /\ DraftScript(s) /\ NoDiscard(s) /\ Fresh(s) /\ ~HasStep(s, <<"record", "accept">>)
         /\ n = "newDraft" => Opening(s) /\ Has(s, "newDraft") /\ s[1][1] = "newDraft"
         /\ n # "newDraft" => Plain(s)
<1>1. /\ s \in DraftSteps /\ Len(s) = 6
      /\ s[1] = <<n, o>> /\ s[2] = <<"openDraft", o>> /\ s[3] = <<"closeDraft", o>>
      /\ s[4] = <<"record", o>> /\ s[5] = <<"openTx", o>> /\ s[6] = <<"closeTx", o>>
  BY DEF SixSteps
<1>2. /\ s[1][1] = n /\ s[2][1] = "openDraft" /\ s[3][1] = "closeDraft" /\ s[4][1] = "record"
      /\ s[5][1] = "openTx" /\ s[6][1] = "closeTx"
      /\ s[4][2] = o
  BY <1>1
<1>3. \A i \in 1 .. Len(s) : i = 1 \/ i = 2 \/ i = 3 \/ i = 4 \/ i = 5 \/ i = 6
  BY <1>1
<1>4. s # <<>> /\ 1 \in 1 .. Len(s) /\ 4 \in 1 .. Len(s)
  BY <1>1, NotEmpty
<1>5. NoDiscard(s) /\ Fresh(s)
  BY <1>2, <1>3 DEF NoDiscard, DiscardName, Fresh
<1>6. ~HasStep(s, <<"record", "accept">>)
  BY <1>2, <1>3 DEF HasStep
<1>7. AfterStep(s)
  <2>1. ASSUME NEW i \in 2 .. Len(s)
        PROVE  /\ s[i][1] = "closeDraft" => s[i - 1][1] = "openDraft"
               /\ s[i][1] = "closeTx" => s[i - 1][1] = "openTx"
               /\ s[i][1] = "record" => s[i - 1][1] \in {"closeDraft", "writeReview"}
               /\ s[i][1] \notin {"writeReview", "removeDraft", "removeTx", "describe", "newTx"}
    <3>1. i = 2 \/ i = 3 \/ i = 4 \/ i = 5 \/ i = 6
      BY <1>1
    <3>. QED  BY <1>2, <3>1
  <2>2. \A i \in 2 .. Len(s) : s[i] # <<"record", "accept">>
    BY <1>6, <1>1 DEF HasStep
  <2>. QED  BY <2>1, <2>2 DEF AfterStep
<1>8. BeforeStep(s)
  <2>1. ASSUME NEW i \in 1 .. Len(s)
        PROVE  /\ s[i][1] # "writeReview" /\ s[i] # <<"record", "accept">>
               /\ s[i][1] = "newDraft" => i = 1
               /\ s[i] = <<"record", "create">> => n # "edit"
    <3>1. i = 1 \/ i = 2 \/ i = 3 \/ i = 4 \/ i = 5 \/ i = 6
      BY <1>3
    <3>2. s[i][1] # "writeReview" /\ (s[i][1] = "newDraft" => i = 1)
      BY <1>2, <3>1
    <3>3. s[i] = <<"record", "create">> => i = 4
      BY <1>2, <3>1
    <3>. QED  BY <1>1, <1>6, <3>2, <3>3 DEF HasStep
  <2>2. \A j \in 1 .. Len(s) : s[j][1] = "edit" => n = "edit"
    BY <1>2, <1>3
  <2>3. \A j \in 1 .. Len(s) : ~(j < 1)
    BY <1>1
  <2>. QED  BY <2>1, <2>2, <2>3 DEF BeforeStep
<1>9. DraftScript(s)
  BY <1>2, <1>5, <1>7, <1>8 DEF DraftScript, NoDiscard
<1>10. n = "newDraft" => HasStep(s, <<"record", "create">>) /\ Has(s, "newDraft")
  BY <1>1, <1>2, <1>4 DEF HasStep, Has
<1>11. n # "newDraft" => ~HasStep(s, <<"record", "create">>) /\ ~Has(s, "newDraft")
  <2>1. ASSUME n # "newDraft", NEW i \in 1 .. Len(s)
        PROVE  s[i] # <<"record", "create">> /\ s[i][1] # "newDraft"
    <3>1. i = 1 \/ i = 2 \/ i = 3 \/ i = 4 \/ i = 5 \/ i = 6
      BY <1>3
    <3>2. s[i][1] # "newDraft" /\ (s[i] = <<"record", "create">> => i = 4)
      BY <1>2, <2>1, <3>1
    <3>. QED  BY <1>1, <2>1, <3>2
  <2>. QED  BY <2>1 DEF HasStep, Has
<1>. QED  BY <1>1, <1>2, <1>4, <1>5, <1>6, <1>9, <1>10, <1>11 DEF Opening, Plain

\* Scripts of at most three plain steps.
LEMMA FewPlainSteps ==
  ASSUME NEW s \in DraftSteps, s # <<>>,
         \A i \in 1 .. Len(s) :
           s[i][1] \notin DiscardName \cup {"record", "closeTx", "writeReview", "newTx", "newDraft"},
         \A i \in 2 .. Len(s) : /\ s[i][1] = "closeDraft" => s[i - 1][1] = "openDraft"
                                /\ s[i][1] = "describe" => s[i - 1][1] = "convert",
         s[1][1] \notin {"closeDraft", "describe", "writeManifest"}
  PROVE  Plain(s)
<1>1. 1 \in 1 .. Len(s) /\ \A i \in 2 .. Len(s) : i \in 1 .. Len(s)
  BY NotEmpty
<1>2. NoDiscard(s) /\ Fresh(s)
  BY <1>1 DEF NoDiscard, Fresh, DiscardName
<1>3. ~Has(s, "newDraft") /\ ~Has(s, "record") /\ ~HasStep(s, <<"record", "create">>)
      /\ ~HasStep(s, <<"record", "accept">>)
  BY DEF Has, HasStep
<1>4. AfterStep(s)
  <2>1. ASSUME NEW i \in 2 .. Len(s)
        PROVE  s[i][1] \notin DiscardName \cup {"record", "closeTx", "writeReview", "newTx", "newDraft"}
    BY <1>1
  <2>. QED  BY <2>1 DEF AfterStep, DiscardName
<1>5. BeforeStep(s)
  BY DEF BeforeStep
<1>6. DraftScript(s)
  BY <1>2, <1>3, <1>4, <1>5 DEF DraftScript, NoDiscard
<1>. QED  BY <1>2, <1>3, <1>6 DEF Plain

LEMMA BeginSteps ==
  LET s == Drafts!begin_transaction IN
  /\ s \in DraftSteps /\ Len(s) = 3
  /\ s[1] = <<"newTx", "begin">> /\ s[2] = <<"openTx", "begin">> /\ s[3] = <<"closeTx", "begin">>
<1> DEFINE a == Drafts!Steps(<<"newTx">>, "begin")
           b == Drafts!Steps(<<"openTx", "closeTx">>, "begin")
<1>1. "newTx" \in DraftName /\ "openTx" \in DraftName /\ "closeTx" \in DraftName /\ "begin" \in DraftOp
  BY DEF DraftName, DraftOp
<1>2. a \in DraftSteps /\ Len(a) = 1 /\ a[1] = <<"newTx", "begin">>
  BY <1>1, OneStep
<1>3. b \in DraftSteps /\ Len(b) = 2 /\ b[1] = <<"openTx", "begin">> /\ b[2] = <<"closeTx", "begin">>
  BY <1>1, TwoSteps
<1>4. Drafts!begin_transaction = a \o b
  BY DEF Drafts!begin_transaction, Drafts!_write_transaction_state
<1>. HIDE DEF a, b
<1>5. /\ a \o b \in DraftSteps /\ Len(a \o b) = Len(a) + Len(b)
      /\ \A i \in 1 .. Len(a) : (a \o b)[i] = a[i]
      /\ \A i \in 1 .. Len(b) : (a \o b)[Len(a) + i] = b[i]
  BY <1>2, <1>3, Joined
<1>. QED  BY <1>2, <1>3, <1>4, <1>5

\* A script without a part that is made, a review or anything to discard.
LEMMA ScriptOf ==
  ASSUME NEW s \in DraftSteps, s # <<>>, NoDiscard(s), AfterStep(s), BeforeStep(s),
         s[1][1] = "newTx" /\ Has(s, "record") => HasStep(s, <<"record", "create">>)
  PROVE  DraftScript(s)
BY DEF DraftScript, NoDiscard

LEMMA BeginIsScript ==
  LET s == Drafts!begin_transaction IN
  s # <<>> /\ DraftScript(s) /\ NoDiscard(s) /\ ~Has(s, "record") /\ ~Has(s, "newDraft")
<1> DEFINE s == Drafts!begin_transaction
<1>1. /\ s \in DraftSteps /\ Len(s) = 3
      /\ s[1][1] = "newTx" /\ s[2][1] = "openTx" /\ s[3][1] = "closeTx"
  BY BeginSteps
<1>. HIDE DEF s
<1>2. \A i \in 1 .. Len(s) : i = 1 \/ i = 2 \/ i = 3
  BY <1>1
<1>3. s # <<>> /\ 1 \in 1 .. Len(s)
  BY <1>1, NotEmpty
<1>4. NoDiscard(s) /\ ~Has(s, "record") /\ ~Has(s, "newDraft")
  BY <1>1, <1>2 DEF NoDiscard, DiscardName, Has
<1>5. \A i \in 1 .. Len(s) : s[i][1] \in {"newTx", "openTx", "closeTx"}
  BY <1>1, <1>2
<1>6. AfterStep(s)
  <2>1. ASSUME NEW i \in 2 .. Len(s)
        PROVE  s[i][1] # "newTx" /\ (s[i][1] = "closeTx" => s[i - 1][1] = "openTx") /\ s[i][1] \in {"openTx", "closeTx"}
    <3>1. i = 2 \/ i = 3
      BY <1>1
    <3>. QED  BY <1>1, <3>1
  <2>. QED  BY <2>1 DEF AfterStep
<1>7. BeforeStep(s)
  BY <1>5 DEF BeforeStep
<1>8. DraftScript(s)
  BY <1>1, <1>3, <1>4, <1>6, <1>7, ScriptOf
<1>. QED  BY <1>3, <1>4, <1>8 DEF s

\* A panel command begins a transaction and makes a part in it.
LEMMA BeginCreates ==
  ASSUME NEW b, SixSteps(b, "newDraft", "create")
  PROVE  LET s == Drafts!begin_transaction \o b IN Opening(s) /\ s[1] = <<"newTx", "begin">>
<1> DEFINE a == Drafts!begin_transaction
           s == a \o b
<1>1. /\ a \in DraftSteps /\ Len(a) = 3
      /\ a[1] = <<"newTx", "begin">> /\ a[2] = <<"openTx", "begin">> /\ a[3] = <<"closeTx", "begin">>
  BY BeginSteps
<1>2. /\ b \in DraftSteps /\ Len(b) = 6
      /\ b[1] = <<"newDraft", "create">> /\ b[2] = <<"openDraft", "create">> /\ b[3] = <<"closeDraft", "create">>
      /\ b[4] = <<"record", "create">> /\ b[5] = <<"openTx", "create">> /\ b[6] = <<"closeTx", "create">>
  BY DEF SixSteps
<1>. HIDE DEF a
<1>3. /\ s \in DraftSteps /\ Len(s) = Len(a) + Len(b)
      /\ \A i \in 1 .. Len(a) : s[i] = a[i]
      /\ \A i \in 1 .. Len(b) : s[Len(a) + i] = b[i]
  BY <1>1, <1>2, Joined
<1>. HIDE DEF s
<1>4. /\ Len(s) = 9 /\ s[1] = <<"newTx", "begin">> /\ s[2] = <<"openTx", "begin">> /\ s[3] = <<"closeTx", "begin">>
      /\ s[4] = <<"newDraft", "create">> /\ s[5] = <<"openDraft", "create">> /\ s[6] = <<"closeDraft", "create">>
      /\ s[7] = <<"record", "create">> /\ s[8] = <<"openTx", "create">> /\ s[9] = <<"closeTx", "create">>
  <2>1. /\ s[1] = a[1] /\ s[2] = a[2] /\ s[3] = a[3]
    BY <1>1, <1>3
  <2>2. /\ s[3 + 1] = b[1] /\ s[3 + 2] = b[2] /\ s[3 + 3] = b[3]
        /\ s[3 + 4] = b[4] /\ s[3 + 5] = b[5] /\ s[3 + 6] = b[6]
    BY <1>1, <1>2, <1>3
  <2>. QED  BY <1>1, <1>2, <1>3, <2>1, <2>2
<1>5. /\ s[1][1] = "newTx" /\ s[2][1] = "openTx" /\ s[3][1] = "closeTx"
      /\ s[4][1] = "newDraft" /\ s[5][1] = "openDraft" /\ s[6][1] = "closeDraft"
      /\ s[7][1] = "record" /\ s[8][1] = "openTx" /\ s[9][1] = "closeTx" /\ s[7][2] = "create"
  BY <1>4
<1>6. \A i \in 1 .. Len(s) : i = 1 \/ i = 2 \/ i = 3 \/ i = 4 \/ i = 5 \/ i = 6 \/ i = 7 \/ i = 8 \/ i = 9
  BY <1>4
<1>7. s # <<>> /\ 7 \in 1 .. Len(s)
  <2>1. s \in DraftSteps /\ Len(s) = 9
    BY <1>3, <1>4
  <2>2. s # <<>>
    BY <2>1, NotEmpty
  <2>. QED  BY <2>1, <2>2
<1>8. NoDiscard(s)
  BY <1>5, <1>6 DEF NoDiscard, DiscardName
<1>9. HasStep(s, <<"record", "create">>)
  BY <1>4, <1>7 DEF HasStep
<1>10. ~HasStep(s, <<"record", "accept">>)
  BY <1>5, <1>6 DEF HasStep
<1>11. AfterStep(s)
  <2>1. ASSUME NEW i \in 2 .. Len(s)
        PROVE  /\ s[i][1] = "closeDraft" => s[i - 1][1] = "openDraft"
               /\ s[i][1] = "closeTx" => s[i - 1][1] = "openTx"
               /\ s[i][1] = "record" => s[i - 1][1] \in {"closeDraft", "writeReview"}
               /\ s[i][1] \notin {"writeReview", "removeDraft", "removeTx", "describe", "newTx"}
    <3>1. i = 2 \/ i = 3 \/ i = 4 \/ i = 5 \/ i = 6 \/ i = 7 \/ i = 8 \/ i = 9
      BY <1>4
    <3>2. CASE i \in {2, 3, 4}
      BY <1>5, <3>2
    <3>3. CASE i \in {5, 6}
      BY <1>5, <3>3
    <3>4. CASE i \in {7}
      BY <1>5, <3>4
    <3>5. CASE i \in {8, 9}
      BY <1>5, <3>5
    <3>. QED  BY <3>1, <3>2, <3>3, <3>4, <3>5
  <2>2. \A i \in 2 .. Len(s) : s[i] # <<"record", "accept">>
    BY <1>4, <1>10 DEF HasStep
  <2>. QED  BY <2>1, <2>2 DEF AfterStep
<1>12. BeforeStep(s)
  <2>1. ASSUME NEW i \in 1 .. Len(s)
        PROVE  s[i][1] \notin {"writeReview", "edit"} /\ (s[i][1] = "newDraft" => i = 4)
    BY <1>5, <1>6
  <2>2. \A j \in 1 .. Len(s) : j < 4 => s[j][1] \in {"newTx", "openTx", "closeTx"}
    BY <1>5, <1>6
  <2>. QED  BY <1>10, <2>1, <2>2 DEF BeforeStep, HasStep
<1>13. DraftScript(s)
  BY <1>3, <1>7, <1>8, <1>9, <1>11, <1>12, ScriptOf
<1>. QED  BY <1>3, <1>4, <1>7, <1>8, <1>9, <1>10, <1>13 DEF Opening, s, a

\* Acceptance exports, writes the review, and records it before the manifest.
EightSteps(s) ==
  /\ s \in DraftSteps /\ Len(s) = 8
  /\ s[1] = <<"export", "accept">> /\ s[2] = <<"openDraft", "accept">> /\ s[3] = <<"closeDraft", "accept">>
  /\ s[4] = <<"writeReview", "accept">> /\ s[5] = <<"record", "accept">> /\ s[6] = <<"writeManifest", "accept">>
  /\ s[7] = <<"openTx", "accept">> /\ s[8] = <<"closeTx", "accept">>

LEMMA AcceptSteps == EightSteps(Drafts!accept_transaction)
<1> DEFINE a == Drafts!Steps(<<"export">>, "accept")
           b == Drafts!Steps(<<"openDraft", "closeDraft">>, "accept")
           c == Drafts!Steps(<<"writeReview", "record", "writeManifest">>, "accept")
           d == Drafts!Steps(<<"openTx", "closeTx">>, "accept")
<1>1. /\ "export" \in DraftName /\ "openDraft" \in DraftName /\ "closeDraft" \in DraftName /\ "openTx" \in DraftName
      /\ "closeTx" \in DraftName /\ "record" \in DraftName /\ "writeReview" \in DraftName
      /\ "writeManifest" \in DraftName /\ "accept" \in DraftOp
  BY DEF DraftName, DraftOp
<1>2. a \in DraftSteps /\ Len(a) = 1 /\ a[1] = <<"export", "accept">>
  BY <1>1, OneStep
<1>3. b \in DraftSteps /\ Len(b) = 2 /\ b[1] = <<"openDraft", "accept">> /\ b[2] = <<"closeDraft", "accept">>
  BY <1>1, TwoSteps
<1>4. c \in DraftSteps /\ Len(c) = 3 /\ c[1] = <<"writeReview", "accept">> /\ c[2] = <<"record", "accept">>
      /\ c[3] = <<"writeManifest", "accept">>
  BY <1>1, ThreeSteps
<1>5. d \in DraftSteps /\ Len(d) = 2 /\ d[1] = <<"openTx", "accept">> /\ d[2] = <<"closeTx", "accept">>
  BY <1>1, TwoSteps
<1>6. Drafts!accept_transaction = ((a \o b) \o c) \o d
  BY DEF Drafts!accept_transaction, Drafts!export_draft_step, Drafts!_write_state, Drafts!_write_transaction_state
<1>. HIDE DEF a, b, c, d
<1> DEFINE x == a \o b
           y == x \o c
           z == y \o d
<1>7. x \in DraftSteps /\ Len(x) = 3 /\ x[1] = a[1] /\ x[2] = b[1] /\ x[3] = b[2]
  <2>1. /\ x \in DraftSteps /\ Len(x) = Len(a) + Len(b)
        /\ \A i \in 1 .. Len(a) : x[i] = a[i]
        /\ \A i \in 1 .. Len(b) : x[Len(a) + i] = b[i]
    BY <1>2, <1>3, Joined
  <2>. QED  BY <1>2, <1>3, <2>1
<1>. HIDE DEF x
<1>8. y \in DraftSteps /\ Len(y) = 6 /\ (\A i \in 1 .. 3 : y[i] = x[i]) /\ y[4] = c[1] /\ y[5] = c[2] /\ y[6] = c[3]
  <2>1. /\ y \in DraftSteps /\ Len(y) = Len(x) + Len(c)
        /\ \A i \in 1 .. Len(x) : y[i] = x[i]
        /\ \A i \in 1 .. Len(c) : y[Len(x) + i] = c[i]
    BY <1>4, <1>7, Joined
  <2>. QED  BY <1>4, <1>7, <2>1
<1>. HIDE DEF y
<1>9. z \in DraftSteps /\ Len(z) = 8 /\ (\A i \in 1 .. 6 : z[i] = y[i]) /\ z[7] = d[1] /\ z[8] = d[2]
  <2>1. /\ z \in DraftSteps /\ Len(z) = Len(y) + Len(d)
        /\ \A i \in 1 .. Len(y) : z[i] = y[i]
        /\ \A i \in 1 .. Len(d) : z[Len(y) + i] = d[i]
    BY <1>5, <1>8, Joined
  <2>. QED  BY <1>5, <1>8, <2>1
<1>. HIDE DEF z
<1>10. EightSteps(z)
  <2>1. z[1] = a[1] /\ z[2] = b[1] /\ z[3] = b[2] /\ z[4] = c[1] /\ z[5] = c[2] /\ z[6] = c[3]
    BY <1>7, <1>8, <1>9
  <2>. QED  BY <1>2, <1>3, <1>4, <1>5, <1>9, <2>1 DEF EightSteps
<1>. QED  BY <1>6, <1>10 DEF x, y, z

LEMMA AcceptIsScript ==
  ASSUME NEW s, EightSteps(s)
  PROVE  s # <<>> /\ DraftScript(s) /\ NoDiscard(s) /\ ~Has(s, "newDraft")
<1>1. /\ s \in DraftSteps /\ Len(s) = 8
      /\ s[1][1] = "export" /\ s[2][1] = "openDraft" /\ s[3][1] = "closeDraft"
      /\ s[4][1] = "writeReview" /\ s[5][1] = "record" /\ s[6][1] = "writeManifest"
      /\ s[7][1] = "openTx" /\ s[8][1] = "closeTx" /\ s[5][2] = "accept"
  BY DEF EightSteps
<1>2. \A i \in 1 .. Len(s) : i = 1 \/ i = 2 \/ i = 3 \/ i = 4 \/ i = 5 \/ i = 6 \/ i = 7 \/ i = 8
  BY <1>1
<1>3. s # <<>>
  BY <1>1, NotEmpty
<1>4. NoDiscard(s) /\ ~Has(s, "newDraft")
  BY <1>1, <1>2 DEF NoDiscard, DiscardName, Has
<1>5. AfterStep(s)
  <2>1. ASSUME NEW i \in 2 .. Len(s)
        PROVE  /\ s[i][1] = "closeDraft" => s[i - 1][1] = "openDraft"
               /\ s[i][1] = "closeTx" => s[i - 1][1] = "openTx"
               /\ s[i][1] = "record" => s[i - 1][1] = "writeReview"
               /\ s[i][1] = "writeReview" => s[i - 1][1] = "closeDraft"
               /\ s[i][1] \notin {"removeDraft", "removeTx", "describe", "newTx"}
    <3>1. i = 2 \/ i = 3 \/ i = 4 \/ i = 5 \/ i = 6 \/ i = 7 \/ i = 8
      BY <1>1
    <3>. QED  BY <1>1, <3>1
  <2>2. \A i \in 2 .. Len(s) : s[i] = <<"record", "accept">> => s[i][1] = "record"
    OBVIOUS
  <2>. QED  BY <2>1, <2>2 DEF AfterStep
<1>6. BeforeStep(s)
  <2>1. ASSUME NEW i \in 1 .. Len(s)
        PROVE  /\ s[i][1] = "writeReview" => i + 1 \in 1 .. Len(s) /\ s[i + 1][1] = "record"
               /\ s[i][1] = "record" => i = 5
               /\ s[i][1] # "newDraft"
    BY <1>1, <1>2
  <2>2. 5 + 1 \in 1 .. Len(s) /\ s[5 + 1][1] = "writeManifest" /\ s[5] # <<"record", "create">>
    BY <1>1
  <2>3. ASSUME NEW i \in 1 .. Len(s), s[i] = <<"record", "accept">> \/ s[i] = <<"record", "create">>
        PROVE  i = 5
    <3>1. s[i][1] = "record"
      BY <2>3
    <3>. QED  BY <2>1, <3>1
  <2>4. ASSUME NEW j \in 1 .. Len(s), j > 5
        PROVE  s[j][1] # "record"
    <3>1. j # 5
      BY <1>1, <2>4
    <3>. QED  BY <2>1, <3>1
  <2>. QED  BY <2>1, <2>2, <2>3, <2>4 DEF BeforeStep
<1>7. DraftScript(s)
  BY <1>1, <1>3, <1>4, <1>5, <1>6, ScriptOf
<1>. QED  BY <1>3, <1>4, <1>7

\* Three steps: a draft is changed or exported, and written.
ThreeOf(s, n, o) ==
  /\ s \in DraftSteps /\ Len(s) = 3
  /\ s[1] = <<n, o>> /\ s[2] = <<"openDraft", o>> /\ s[3] = <<"closeDraft", o>>

LEMMA ThreeInAll ==
  ASSUME NEW n \in DraftName, NEW o \in DraftOp, n = "edit" => o \in Drafts!Edits
  PROVE  ThreeOf(Drafts!Steps(<<n>>, o) \o Drafts!_write_state(o), n, o)
<1> DEFINE a == Drafts!Steps(<<n>>, o)
           b == Drafts!Steps(<<"openDraft", "closeDraft">>, o)
<1>1. a \in DraftSteps /\ Len(a) = 1 /\ a[1] = <<n, o>>
  BY OneStep
<1>2. b \in DraftSteps /\ Len(b) = 2 /\ b[1] = <<"openDraft", o>> /\ b[2] = <<"closeDraft", o>>
  <2>1. "openDraft" \in DraftName \ {"edit"} /\ "closeDraft" \in DraftName \ {"edit"}
    BY DEF DraftName
  <2>. QED  BY <2>1, TwoSteps
<1>3. b = Drafts!_write_state(o)
  BY DEF Drafts!_write_state
<1>. HIDE DEF a, b
<1>4. /\ a \o b \in DraftSteps /\ Len(a \o b) = Len(a) + Len(b)
      /\ \A i \in 1 .. Len(a) : (a \o b)[i] = a[i]
      /\ \A i \in 1 .. Len(b) : (a \o b)[Len(a) + i] = b[i]
  BY <1>1, <1>2, Joined
<1>5. Len(a \o b) = 3 /\ (a \o b)[1] = a[1] /\ (a \o b)[2] = b[1] /\ (a \o b)[3] = b[2]
  BY <1>1, <1>2, <1>4
<1>6. ThreeOf(a \o b, n, o)
  BY <1>1, <1>2, <1>4, <1>5 DEF ThreeOf
<1>. QED  BY <1>3, <1>6 DEF a

LEMMA ThreeIsScript ==
  ASSUME NEW s, NEW n, NEW o, ThreeOf(s, n, o), n \in {"newDraft", "edit", "export"}
  PROVE  /\ s # <<>> /\ DraftScript(s) /\ s[1][1] = n /\ ~Has(s, "record") /\ ~HasStep(s, <<"record", "create">>)
         /\ n # "newDraft" => ~Has(s, "newDraft")
<1>1. /\ s \in DraftSteps /\ Len(s) = 3
      /\ s[1][1] = n /\ s[2][1] = "openDraft" /\ s[3][1] = "closeDraft"
  BY DEF ThreeOf
<1>2. \A i \in 1 .. Len(s) : i = 1 \/ i = 2 \/ i = 3
  BY <1>1
<1>3. s # <<>>
  BY <1>1, NotEmpty
<1>4. \A i \in 1 .. Len(s) : s[i][1] \in {n, "openDraft", "closeDraft"}
  BY <1>1, <1>2
<1>5. NoDiscard(s) /\ ~Has(s, "record")
  BY <1>4 DEF NoDiscard, DiscardName, Has
<1>6. n # "newDraft" => ~Has(s, "newDraft")
  BY <1>4 DEF Has
<1>7. ~HasStep(s, <<"record", "create">>)
  BY <1>5 DEF Has, HasStep
<1>8. AfterStep(s)
  <2>1. ASSUME NEW i \in 2 .. Len(s)
        PROVE  s[i][1] \in {"openDraft", "closeDraft"} /\ (s[i][1] = "closeDraft" => s[i - 1][1] = "openDraft")
    <3>1. i = 2 \/ i = 3
      BY <1>1
    <3>. QED  BY <1>1, <3>1
  <2>. QED  BY <2>1 DEF AfterStep
<1>9. BeforeStep(s)
  <2>1. ASSUME NEW i \in 1 .. Len(s)
        PROVE  s[i][1] \notin {"writeReview", "record"} /\ (s[i][1] = "newDraft" => i = 1)
    BY <1>1, <1>2
  <2>2. \A j \in 1 .. Len(s) : ~(j < 1)
    BY <1>1
  <2>. QED  BY <2>1, <2>2 DEF BeforeStep
<1>10. DraftScript(s)
  BY <1>1, <1>3, <1>5, <1>8, <1>9, ScriptOf
<1>. QED  BY <1>1, <1>3, <1>5, <1>6, <1>7, <1>10

\* Scripts that discard.
LEMMA DiscardSteps ==
  LET s == Drafts!discard("discard") IN
  /\ s \in DraftSteps /\ Len(s) = 2
  /\ s[1] = <<"forgetDraft", "discard">> /\ s[2] = <<"removeDraft", "discard">>
<1>1. "forgetDraft" \in DraftName \ {"edit"} /\ "removeDraft" \in DraftName \ {"edit"} /\ "discard" \in DraftOp
  BY DEF DraftName, DraftOp
<1>. QED  BY <1>1, TwoSteps DEF Drafts!discard

LEMMA ForgetSteps ==
  LET s == Drafts!Steps(<<"forgetTx", "removeTx">>, "discard") IN
  /\ s \in DraftSteps /\ Len(s) = 2 /\ s[1] = <<"forgetTx", "discard">> /\ s[2] = <<"removeTx", "discard">>
<1>1. "forgetTx" \in DraftName \ {"edit"} /\ "removeTx" \in DraftName \ {"edit"} /\ "discard" \in DraftOp
  BY DEF DraftName, DraftOp
<1>. QED  BY <1>1, TwoSteps

LEMMA DiscardsAreScripts ==
  ASSUME NEW s \in DraftSteps, s # <<>>, s[1][1] \in {"forgetDraft", "forgetTx"},
         \A i \in 1 .. Len(s) : s[i][1] \in DiscardName,
         \A i \in 2 .. Len(s) : /\ s[i][1] = "removeDraft" => s[i - 1][1] = "forgetDraft"
                                /\ s[i][1] = "removeTx" => s[i - 1][1] = "forgetTx"
  PROVE  DraftScript(s) /\ Discards(s) /\ ~Has(s, "record") /\ ~Has(s, "newDraft")
<1>1. Discards(s) /\ ~Has(s, "record") /\ ~Has(s, "newDraft")
  BY DEF Discards, Has, DiscardName
<1>2. AfterStep(s)
  <2>1. \A i \in 2 .. Len(s) : i \in 1 .. Len(s)
    BY NotEmpty
  <2>2. ASSUME NEW i \in 2 .. Len(s)
        PROVE  s[i][1] \in DiscardName
    BY <2>1
  <2>. QED  BY <2>2 DEF AfterStep, DiscardName
<1>3. BeforeStep(s)
  BY DEF BeforeStep, DiscardName
<1>. QED  BY <1>1, <1>2, <1>3 DEF DraftScript

LEMMA DraftIsDiscarded ==
  LET s == Drafts!discard("discard") IN
  s # <<>> /\ s[1][1] = "forgetDraft" /\ DraftScript(s) /\ Discards(s) /\ ~Has(s, "record") /\ ~Has(s, "newDraft")
<1> DEFINE s == Drafts!discard("discard")
<1>1. s \in DraftSteps /\ Len(s) = 2 /\ s[1][1] = "forgetDraft" /\ s[2][1] = "removeDraft"
  BY DiscardSteps
<1>. HIDE DEF s
<1>2. s # <<>>
  BY <1>1, NotEmpty
<1>3. \A i \in 1 .. Len(s) : s[i][1] \in DiscardName
  <2>1. \A i \in 1 .. Len(s) : i = 1 \/ i = 2
    BY <1>1
  <2>. QED  BY <1>1, <2>1 DEF DiscardName
<1>4. ASSUME NEW i \in 2 .. Len(s)
      PROVE  /\ s[i][1] = "removeDraft" => s[i - 1][1] = "forgetDraft"
             /\ s[i][1] = "removeTx" => s[i - 1][1] = "forgetTx"
  <2>1. i = 2
    BY <1>1
  <2>. QED  BY <1>1, <2>1
<1>5. DraftScript(s) /\ Discards(s) /\ ~Has(s, "record") /\ ~Has(s, "newDraft")
  BY <1>1, <1>2, <1>3, <1>4, DiscardsAreScripts
<1>. QED  BY <1>1, <1>2, <1>5 DEF s

LEMMA TransactionIsDiscarded ==
  ASSUME NEW x \in TxRec
  PROVE  LET s == Drafts!discard_transaction(x) IN
         /\ s \in DraftSteps /\ s # <<>> /\ s[1][1] \in {"forgetDraft", "forgetTx"} /\ DraftScript(s) /\ Discards(s)
         /\ ~Has(s, "record") /\ ~Has(s, "newDraft")
<1> DEFINE a == Drafts!discard("discard")
           b == Drafts!Steps(<<"forgetTx", "removeTx">>, "discard")
           s == IF x.draft THEN a \o b ELSE b
<1>1. a \in DraftSteps /\ Len(a) = 2 /\ a[1][1] = "forgetDraft" /\ a[2][1] = "removeDraft"
  BY DiscardSteps
<1>2. b \in DraftSteps /\ Len(b) = 2 /\ b[1][1] = "forgetTx" /\ b[2][1] = "removeTx"
  BY ForgetSteps
<1>3. Drafts!discard_transaction(x) = s
  <2>1. <<>> \o b = b
    BY <1>2, ConcatEmptySeq DEF DraftSteps
  <2>. QED  BY <2>1 DEF Drafts!discard_transaction
<1>. HIDE DEF a, b
<1>4. CASE x.draft
  <2>1. /\ s \in DraftSteps /\ Len(s) = Len(a) + Len(b)
        /\ \A i \in 1 .. Len(a) : s[i] = a[i]
        /\ \A i \in 1 .. Len(b) : s[Len(a) + i] = b[i]
    BY <1>1, <1>2, <1>4, Joined
  <2>. HIDE DEF s
  <2>2. /\ Len(s) = 4 /\ s[1][1] = "forgetDraft" /\ s[2][1] = "removeDraft"
        /\ s[2 + 1][1] = "forgetTx" /\ s[2 + 2][1] = "removeTx"
    BY <1>1, <1>2, <2>1
  <2>3. s # <<>>
    BY <2>1, <2>2, NotEmpty
  <2>4. \A i \in 1 .. Len(s) : s[i][1] \in DiscardName
    <3>1. \A i \in 1 .. Len(s) : i = 1 \/ i = 2 \/ i = 3 \/ i = 4
      BY <2>2
    <3>. QED  BY <2>2, <3>1 DEF DiscardName
  <2>5. ASSUME NEW i \in 2 .. Len(s)
        PROVE  /\ s[i][1] = "removeDraft" => s[i - 1][1] = "forgetDraft"
               /\ s[i][1] = "removeTx" => s[i - 1][1] = "forgetTx"
    <3>1. i = 2 \/ i = 3 \/ i = 4
      BY <2>2
    <3>. QED  BY <2>2, <3>1
  <2>6. s[1][1] \in {"forgetDraft", "forgetTx"}
    BY <2>2
  <2>7. DraftScript(s) /\ Discards(s) /\ ~Has(s, "record") /\ ~Has(s, "newDraft")
    BY <2>1, <2>3, <2>4, <2>5, <2>6, DiscardsAreScripts
  <2>. QED  BY <1>3, <2>1, <2>3, <2>6, <2>7
<1>5. CASE ~x.draft
  <2>1. s = b
    BY <1>5
  <2>. HIDE DEF s
  <2>2. s \in DraftSteps /\ Len(s) = 2 /\ s[1][1] = "forgetTx" /\ s[2][1] = "removeTx"
    BY <1>2, <2>1
  <2>3. s # <<>>
    BY <2>2, NotEmpty
  <2>4. \A i \in 1 .. Len(s) : s[i][1] \in DiscardName
    <3>1. \A i \in 1 .. Len(s) : i = 1 \/ i = 2
      BY <2>2
    <3>. QED  BY <2>2, <3>1 DEF DiscardName
  <2>5. ASSUME NEW i \in 2 .. Len(s)
        PROVE  /\ s[i][1] = "removeDraft" => s[i - 1][1] = "forgetDraft"
               /\ s[i][1] = "removeTx" => s[i - 1][1] = "forgetTx"
    <3>1. i = 2
      BY <2>2
    <3>. QED  BY <2>2, <3>1
  <2>6. s[1][1] \in {"forgetDraft", "forgetTx"}
    BY <2>2
  <2>7. DraftScript(s) /\ Discards(s) /\ ~Has(s, "record") /\ ~Has(s, "newDraft")
    BY <2>2, <2>3, <2>4, <2>5, <2>6, DiscardsAreScripts
  <2>. QED  BY <1>3, <2>2, <2>3, <2>6, <2>7
<1>. QED  BY <1>4, <1>5

\* The pieces that a script is put together from.
LEMMA EditsAreOps ==
  /\ Drafts!Edits \subseteq DraftOp
  /\ "create" \notin Drafts!Edits /\ "accept" \notin Drafts!Edits
BY DEF Drafts!Edits, Drafts!AddFeature, Drafts!Patterns, DraftOp

LEMMA EditSteps ==
  ASSUME NEW o \in Drafts!Edits
  PROVE  SixSteps(Drafts!transaction_edit(o), "edit", o)
<1>1. "edit" \in DraftName /\ o \in DraftOp
  BY EditsAreOps DEF DraftName
<1>. QED  BY <1>1, SixInAll DEF Drafts!transaction_edit, Drafts!edit_part, Drafts!_record_transaction_operation

LEMMA CreateSteps == SixSteps(Drafts!transaction_create, "newDraft", "create")
<1>1. "newDraft" \in DraftName /\ "create" \in DraftOp
  BY DEF DraftName, DraftOp
<1>. QED  BY <1>1, SixInAll DEF Drafts!transaction_create, Drafts!create_part, Drafts!_record_transaction_operation

LEMMA PreviewSteps == SixSteps(Drafts!transaction_preview, "export", "preview")
<1>1. "export" \in DraftName /\ "preview" \in DraftOp
  BY DEF DraftName, DraftOp
<1>. QED  BY <1>1, SixInAll DEF Drafts!transaction_preview, Drafts!export_draft_step,
                               Drafts!_record_transaction_operation

LEMMA EditIsPlain ==
  ASSUME NEW o \in Drafts!Edits
  PROVE  Plain(Drafts!transaction_edit(o)) /\ Drafts!transaction_edit(o)[1][1] = "edit"
<1>1. SixSteps(Drafts!transaction_edit(o), "edit", o) /\ o # "create" /\ o # "accept"
  BY EditSteps, EditsAreOps
<1>2. Plain(Drafts!transaction_edit(o))
  BY <1>1, SixIsScript
<1>. QED  BY <1>1, <1>2 DEF SixSteps

LEMMA PreviewIsPlain == Plain(Drafts!transaction_preview) /\ Drafts!transaction_preview[1][1] = "export"
<1>1. Plain(Drafts!transaction_preview)
  BY PreviewSteps, SixIsScript
<1>. QED  BY <1>1, PreviewSteps DEF SixSteps

LEMMA CheckIsPlain ==
  ASSUME NEW o \in DraftOp
  PROVE  Plain(Drafts!Steps(<<"check">>, o)) /\ Drafts!Steps(<<"check">>, o)[1][1] = "check"
<1> DEFINE s == Drafts!Steps(<<"check">>, o)
<1>1. "check" \in DraftName
  BY DEF DraftName
<1>2. s \in DraftSteps /\ Len(s) = 1 /\ s[1][1] = "check"
  BY <1>1, OneStep
<1>. HIDE DEF s
<1>3. s # <<>>
  BY <1>2, NotEmpty
<1>4. \A i \in 1 .. Len(s) : s[i][1] = "check"
  BY <1>2
<1>5. \A i \in 2 .. Len(s) : FALSE
  BY <1>2
<1>6. Plain(s)
  BY <1>2, <1>3, <1>4, <1>5, FewPlainSteps DEF DiscardName
<1>. QED  BY <1>2, <1>6 DEF s

LEMMA DisplayIsPlain ==
  LET s == Drafts!Steps(<<"convert", "describe">>, "display") IN
  Plain(s) /\ s[1][1] = "convert" /\ ~Has(s, "record")
<1> DEFINE s == Drafts!Steps(<<"convert", "describe">>, "display")
<1>1. "convert" \in DraftName \ {"edit"} /\ "describe" \in DraftName \ {"edit"} /\ "display" \in DraftOp
  BY DEF DraftName, DraftOp
<1>2. s \in DraftSteps /\ Len(s) = 2 /\ s[1][1] = "convert" /\ s[2][1] = "describe"
  BY <1>1, TwoSteps
<1>. HIDE DEF s
<1>3. s # <<>>
  BY <1>2, NotEmpty
<1>4. \A i \in 1 .. Len(s) : s[i][1] \in {"convert", "describe"}
  <2>1. \A i \in 1 .. Len(s) : i = 1 \/ i = 2
    BY <1>2
  <2>. QED  BY <1>2, <2>1
<1>5. \A i \in 2 .. Len(s) : i = 2
  BY <1>2
<1>6. Plain(s)
  BY <1>2, <1>3, <1>4, <1>5, FewPlainSteps DEF DiscardName
<1>. QED  BY <1>2, <1>4, <1>6 DEF s, Has

LEMMA PlainBegins ==
  ASSUME NEW a, NEW b, Plain(a), Plain(b)
  PROVE  Plain(a \o b) /\ (a \o b)[1] = a[1]
<1>1. a \in DraftSteps /\ a # <<>> /\ b \in DraftSteps
  BY DEF Plain
<1>2. 1 \in 1 .. Len(a)
  BY <1>1, NotEmpty
<1>. QED  BY <1>1, <1>2, PlainJoins, Joined

LEMMA AgainIsPlain ==
  ASSUME NEW o \in Drafts!Edits
  PROVE  Plain(Drafts!again(o)) /\ Drafts!again(o)[1][1] = "check"
<1>1. o \in DraftOp
  BY EditsAreOps
<1>. QED  BY <1>1, CheckIsPlain, EditIsPlain, PlainBegins DEF Drafts!again

LEMMA WallsScript ==
  LET s == Drafts!draft_transaction_from_annotated_walls IN Plain(s) /\ s[1][1] = "check"
<1> DEFINE a == Drafts!again("add_feature")
           k == Drafts!Steps(<<"check">>, "preview")
           p == Drafts!transaction_preview
           d == Drafts!Steps(<<"convert", "describe">>, "display")
<1>1. Plain(a) /\ a[1][1] = "check"
  <2>1. "add_feature" \in Drafts!Edits
    BY DEF Drafts!Edits, Drafts!AddFeature
  <2>. QED  BY <2>1, AgainIsPlain
<1>2. Plain(k) /\ Plain(p) /\ Plain(d)
  <2>1. "preview" \in DraftOp
    BY DEF DraftOp
  <2>. QED  BY <2>1, CheckIsPlain, PreviewIsPlain, DisplayIsPlain
<1>3. Drafts!draft_transaction_from_annotated_walls = (((a \o a) \o k) \o p) \o d
  BY DEF Drafts!draft_transaction_from_annotated_walls
<1>. HIDE DEF a, k, p, d
<1>4. Plain(a \o a) /\ (a \o a)[1] = a[1]
  BY <1>1, PlainBegins
<1>5. Plain((a \o a) \o k) /\ ((a \o a) \o k)[1] = a[1]
  BY <1>2, <1>4, PlainBegins
<1>6. Plain(((a \o a) \o k) \o p) /\ (((a \o a) \o k) \o p)[1] = a[1]
  BY <1>2, <1>5, PlainBegins
<1>7. Plain((((a \o a) \o k) \o p) \o d) /\ ((((a \o a) \o k) \o p) \o d)[1] = a[1]
  BY <1>2, <1>6, PlainBegins
<1>. QED  BY <1>1, <1>3, <1>7

LEMMA PanelScript ==
  ASSUME NEW x
  PROVE  LET s == Drafts!draft_transaction_from_panel_command(x) IN
         /\ Drafts!Readable(x) => Plain(s) /\ s[1][1] = "check"
         /\ ~Drafts!Readable(x) => Opening(s) /\ s[1][1] = "newTx"
<1> DEFINE b == Drafts!begin_transaction \o Drafts!transaction_create
           a == Drafts!again("add_feature")
           m == Drafts!again("mirror_features")
           k == Drafts!Steps(<<"check">>, "preview")
           p == Drafts!transaction_preview
           d == Drafts!Steps(<<"convert", "describe">>, "display")
<1>1. Plain(a) /\ a[1][1] = "check" /\ Plain(m)
  <2>1. "add_feature" \in Drafts!Edits /\ "mirror_features" \in Drafts!Edits
    BY DEF Drafts!Edits, Drafts!AddFeature, Drafts!Patterns
  <2>. QED  BY <2>1, AgainIsPlain
<1>2. Plain(k) /\ Plain(p) /\ Plain(d)
  <2>1. "preview" \in DraftOp
    BY DEF DraftOp
  <2>. QED  BY <2>1, CheckIsPlain, PreviewIsPlain, DisplayIsPlain
<1>3. Opening(b) /\ b[1][1] = "newTx"
  <2>1. Opening(b) /\ b[1] = <<"newTx", "begin">>
    BY CreateSteps, BeginCreates
  <2>. QED  BY <2>1
<1> DEFINE start == IF Drafts!Readable(x) THEN <<>> ELSE b
<1>4. Drafts!draft_transaction_from_panel_command(x) = ((((start \o a) \o m) \o k) \o p) \o d
  BY DEF Drafts!draft_transaction_from_panel_command
<1>. HIDE DEF a, m, k, p, d, b
<1>5. CASE Drafts!Readable(x)
  <2>1. start \o a = a
    <3>1. a \in Seq(DraftStep)
      BY <1>1 DEF Plain, DraftSteps
    <3>2. <<>> \o a = a
      BY <3>1, ConcatEmptySeq
    <3>. QED  BY <1>5, <3>2
  <2>. HIDE DEF start
  <2>2. Plain(a \o m) /\ (a \o m)[1] = a[1]
    BY <1>1, PlainBegins
  <2>3. Plain((a \o m) \o k) /\ ((a \o m) \o k)[1] = a[1]
    BY <1>2, <2>2, PlainBegins
  <2>4. Plain(((a \o m) \o k) \o p) /\ (((a \o m) \o k) \o p)[1] = a[1]
    BY <1>2, <2>3, PlainBegins
  <2>5. Plain((((a \o m) \o k) \o p) \o d) /\ ((((a \o m) \o k) \o p) \o d)[1] = a[1]
    BY <1>2, <2>4, PlainBegins
  <2>. QED  BY <1>1, <1>4, <1>5, <2>1, <2>5
<1>6. CASE ~Drafts!Readable(x)
  <2>1. start = b
    BY <1>6
  <2>. HIDE DEF start
  <2>2. Opening(b \o a) /\ (b \o a)[1] = b[1]
    BY <1>1, <1>3, OpeningJoins
  <2>3. Opening((b \o a) \o m) /\ ((b \o a) \o m)[1] = b[1]
    BY <1>1, <2>2, OpeningJoins
  <2>4. Opening(((b \o a) \o m) \o k) /\ (((b \o a) \o m) \o k)[1] = b[1]
    BY <1>2, <2>3, OpeningJoins
  <2>5. Opening((((b \o a) \o m) \o k) \o p) /\ ((((b \o a) \o m) \o k) \o p)[1] = b[1]
    BY <1>2, <2>4, OpeningJoins
  <2>6. Opening(((((b \o a) \o m) \o k) \o p) \o d) /\ (((((b \o a) \o m) \o k) \o p) \o d)[1] = b[1]
    BY <1>2, <2>5, OpeningJoins
  <2>. QED  BY <1>3, <1>4, <1>6, <2>1, <2>6
<1>. QED  BY <1>5, <1>6

LEMMA DisplayScript ==
  ASSUME NEW x \in TxRec
  PROVE  LET s == Drafts!_prepare_draft_preview_model(x) IN
         /\ Plain(s) /\ s[1][1] \in {"export", "convert"}
         /\ Has(s, "record") => ~x.exported \/ x.open
<1> DEFINE p == Drafts!transaction_preview
           d == Drafts!Steps(<<"convert", "describe">>, "display")
           stale == x.open /\ x.operations # <<>> /\ x.operations[Len(x.operations)] # "preview"
<1>1. Plain(p) /\ p[1][1] = "export" /\ Plain(d) /\ d[1][1] = "convert" /\ ~Has(d, "record")
  BY PreviewIsPlain, DisplayIsPlain
<1>2. Drafts!_prepare_draft_preview_model(x) = (IF ~x.exported \/ stale THEN p ELSE <<>>) \o d
  BY DEF Drafts!_prepare_draft_preview_model
<1>. HIDE DEF p, d
<1>3. CASE ~x.exported \/ stale
  BY <1>1, <1>2, <1>3, PlainBegins
<1>4. CASE ~(~x.exported \/ stale)
  <2>1. d \in Seq(DraftStep)
    BY <1>1 DEF Plain, DraftSteps
  <2>2. <<>> \o d = d
    BY <2>1, ConcatEmptySeq
  <2>. HIDE DEF stale
  <2>. QED  BY <1>1, <1>2, <1>4, <2>2
<1>. QED  BY <1>3, <1>4

\* What is known of the script of a request.
FirstName == {"newTx", "newDraft", "edit", "export", "check", "forgetDraft", "forgetTx", "convert"}

LEMMA DirectScripts ==
  ASSUME NEW o \in Drafts!DirectTools
  PROVE  LET s == Drafts!DirectScript(o) IN
         /\ s \in DraftSteps /\ s # <<>> /\ DraftScript(s) /\ s[1][1] \in FirstName \ {"newTx"}
         /\ ~Has(s, "record") /\ (Has(s, "newDraft") => o = "create") /\ (o = "discard" => Discards(s))
<1>1. o = "create" \/ o = "export" \/ o = "discard" \/ o \in Drafts!Edits
  BY DEF Drafts!DirectTools, Drafts!Releases
<1>2. "create" \notin Drafts!Edits /\ "export" \notin Drafts!Edits /\ "discard" \notin Drafts!Edits
  BY DEF Drafts!Edits, Drafts!AddFeature, Drafts!Patterns
<1>3. CASE o = "create"
  <2> DEFINE s == Drafts!create_part("create")
  <2>1. "newDraft" \in DraftName /\ "create" \in DraftOp
    BY DEF DraftName, DraftOp
  <2>2. ThreeOf(s, "newDraft", "create")
    BY <2>1, ThreeInAll DEF Drafts!create_part
  <2>. HIDE DEF s
  <2>3. s # <<>> /\ DraftScript(s) /\ s[1][1] = "newDraft" /\ ~Has(s, "record")
    BY <2>2, ThreeIsScript
  <2>4. Drafts!DirectScript(o) = s
    BY <1>2, <1>3 DEF Drafts!DirectScript, s
  <2>. QED  BY <1>3, <2>2, <2>3, <2>4 DEF ThreeOf, FirstName
<1>4. CASE o = "export"
  <2> DEFINE s == Drafts!export_draft_step("export")
  <2>1. "export" \in DraftName /\ "export" \in DraftOp
    BY DEF DraftName, DraftOp
  <2>2. ThreeOf(s, "export", "export")
    BY <2>1, ThreeInAll DEF Drafts!export_draft_step
  <2>. HIDE DEF s
  <2>3. s # <<>> /\ DraftScript(s) /\ s[1][1] = "export" /\ ~Has(s, "record") /\ ~Has(s, "newDraft")
    BY <2>2, ThreeIsScript
  <2>4. Drafts!DirectScript(o) = s
    BY <1>2, <1>4 DEF Drafts!DirectScript, s
  <2>. QED  BY <1>4, <2>2, <2>3, <2>4 DEF ThreeOf, FirstName
<1>5. CASE o = "discard"
  <2>1. Drafts!DirectScript(o) = Drafts!discard("discard")
    BY <1>2, <1>5 DEF Drafts!DirectScript
  <2>. QED  BY <1>5, <2>1, DiscardSteps, DraftIsDiscarded DEF FirstName
<1>6. CASE o \in Drafts!Edits
  <2> DEFINE s == Drafts!edit_part(o)
  <2>1. "edit" \in DraftName /\ o \in DraftOp
    BY <1>6, EditsAreOps DEF DraftName
  <2>2. ThreeOf(s, "edit", o)
    BY <1>6, <2>1, ThreeInAll DEF Drafts!edit_part
  <2>. HIDE DEF s
  <2>3. s # <<>> /\ DraftScript(s) /\ s[1][1] = "edit" /\ ~Has(s, "record") /\ ~Has(s, "newDraft")
    BY <2>2, ThreeIsScript
  <2>4. o # "create" /\ o # "export" /\ o # "discard"
    BY <1>2, <1>6
  <2>5. Drafts!DirectScript(o) = s
    BY <1>6, <2>4 DEF Drafts!DirectScript, s
  <2>. QED  BY <2>2, <2>3, <2>4, <2>5 DEF ThreeOf, FirstName
<1>. QED  BY <1>1, <1>3, <1>4, <1>5, <1>6

Asked(s, o, x) ==
  /\ s \in DraftSteps /\ s # <<>> /\ DraftScript(s) /\ s[1][1] \in FirstName
  /\ o = "discard" => Discards(s)
  /\ s[1][1] = "newTx" => o = "begin" \/ (o = "panel_command" /\ ~Drafts!Readable(x))
  /\ o \in {"begin", "discard"} => ~Has(s, "record")
  /\ o = "create" => HasStep(s, <<"record", "create">>)
  /\ o = "display" /\ Has(s, "record") => ~x.exported \/ x.open
  /\ o = "panel_command" /\ ~Drafts!Readable(x) => s[1][1] = "newTx"
  /\ Has(s, "newDraft") => o = "create" \/ (o = "panel_command" /\ ~Drafts!Readable(x))

LEMMA PlainIsAsked ==
  ASSUME NEW s, NEW o, NEW x, Plain(s), s[1][1] \in FirstName, o \notin {"begin", "create", "discard"},
         o = "display" /\ Has(s, "record") => ~x.exported \/ x.open,
         o = "panel_command" => Drafts!Readable(x)
  PROVE  Asked(s, o, x)
BY DEF Asked, Plain, Fresh

LEMMA TransactionScripts ==
  ASSUME NEW o \in Drafts!TransactionTools \cup Drafts!ViewerTools, NEW x, o # "measure",
         o \in {"display", "discard"} => x \in TxRec
  PROVE  Asked(Drafts!TransactionScript(o, x), o, x)
<1> DEFINE s == Drafts!TransactionScript(o, x)
<1>1. \/ o \in {"begin", "create", "preview", "accept", "discard", "display", "panel_command", "annotated_walls"}
      \/ o \in Drafts!Edits
  BY DEF Drafts!TransactionTools, Drafts!ViewerTools, Drafts!Reviews
<1>2. \A e \in Drafts!Edits : e \notin {"begin", "create", "measure", "preview", "accept", "discard", "display",
                                        "panel_command", "annotated_walls"}
  BY DEF Drafts!Edits, Drafts!AddFeature, Drafts!Patterns
<1>3. CASE o = "begin"
  <2>1. s = Drafts!begin_transaction
    BY <1>2, <1>3 DEF Drafts!TransactionScript
  <2>. HIDE DEF s
  <2>2. s \in DraftSteps /\ s[1][1] = "newTx"
    BY <2>1, BeginSteps
  <2>3. s # <<>> /\ DraftScript(s) /\ ~Has(s, "record") /\ ~Has(s, "newDraft")
    BY <2>1, BeginIsScript
  <2>. QED  BY <1>3, <2>2, <2>3 DEF Asked, FirstName, s
<1>4. CASE o = "create"
  <2>1. s = Drafts!transaction_create
    BY <1>2, <1>4 DEF Drafts!TransactionScript
  <2>. HIDE DEF s
  <2>2. SixSteps(s, "newDraft", "create")
    BY <2>1, CreateSteps
  <2>3. Opening(s) /\ s[1][1] = "newDraft"
    BY <2>2, SixIsScript
  <2>. QED  BY <1>4, <2>3 DEF Asked, FirstName, s, Opening
<1>5. CASE o = "preview"
  <2>1. s = Drafts!transaction_preview
    BY <1>2, <1>5 DEF Drafts!TransactionScript
  <2>. HIDE DEF s
  <2>2. Plain(s) /\ s[1][1] \in FirstName
    BY <2>1, PreviewIsPlain DEF FirstName
  <2>. QED  BY <1>5, <2>2, PlainIsAsked DEF s
<1>6. CASE o = "accept"
  <2>1. s = Drafts!accept_transaction
    BY <1>2, <1>6 DEF Drafts!TransactionScript
  <2>. HIDE DEF s
  <2>2. EightSteps(s)
    BY <2>1, AcceptSteps
  <2>3. s # <<>> /\ DraftScript(s) /\ ~Has(s, "newDraft")
    BY <2>2, AcceptIsScript
  <2>4. s \in DraftSteps /\ s[1][1] = "export"
    BY <2>2 DEF EightSteps
  <2>. QED  BY <1>6, <2>3, <2>4 DEF Asked, FirstName, s
<1>7. CASE o = "discard"
  <2>1. s = Drafts!discard_transaction(x)
    BY <1>2, <1>7 DEF Drafts!TransactionScript
  <2>. HIDE DEF s
  <2>2. /\ s \in DraftSteps /\ s # <<>> /\ s[1][1] \in {"forgetDraft", "forgetTx"} /\ DraftScript(s) /\ Discards(s)
        /\ ~Has(s, "record") /\ ~Has(s, "newDraft")
    BY <1>7, <2>1, TransactionIsDiscarded
  <2>. QED  BY <1>7, <2>2 DEF Asked, FirstName, s
<1>8. CASE o = "display"
  <2>1. s = Drafts!_prepare_draft_preview_model(x)
    BY <1>2, <1>8 DEF Drafts!TransactionScript
  <2>. HIDE DEF s
  <2>2. Plain(s) /\ s[1][1] \in {"export", "convert"} /\ (Has(s, "record") => ~x.exported \/ x.open)
    BY <1>8, <2>1, DisplayScript
  <2>3. s[1][1] \in FirstName
    BY <2>2 DEF FirstName
  <2>. QED  BY <1>8, <2>2, <2>3, PlainIsAsked DEF s
<1>9. CASE o = "panel_command"
  <2>1. s = Drafts!draft_transaction_from_panel_command(x)
    BY <1>2, <1>9 DEF Drafts!TransactionScript
  <2>. HIDE DEF s
  <2>2. /\ Drafts!Readable(x) => Plain(s) /\ s[1][1] = "check"
        /\ ~Drafts!Readable(x) => Opening(s) /\ s[1][1] = "newTx"
    BY <2>1, PanelScript
  <2>3. CASE Drafts!Readable(x)
    <3>1. s[1][1] \in FirstName
      BY <2>2, <2>3 DEF FirstName
    <3>. QED  BY <1>9, <2>2, <2>3, <3>1, PlainIsAsked DEF s
  <2>4. CASE ~Drafts!Readable(x)
    BY <1>9, <2>2, <2>4 DEF Asked, FirstName, s, Opening
  <2>. QED  BY <2>3, <2>4
<1>10. CASE o = "annotated_walls"
  <2>1. s = Drafts!draft_transaction_from_annotated_walls
    BY <1>2, <1>10 DEF Drafts!TransactionScript
  <2>. HIDE DEF s
  <2>2. Plain(s) /\ s[1][1] \in FirstName
    BY <2>1, WallsScript DEF FirstName
  <2>. QED  BY <1>10, <2>2, PlainIsAsked DEF s
<1>11. CASE o \in Drafts!Edits
  <2>1. o \notin {"begin", "create", "measure", "preview", "accept", "discard", "display", "panel_command",
                  "annotated_walls"}
    BY <1>2, <1>11
  <2>2. s = Drafts!transaction_edit(o)
    BY <1>11, <2>1 DEF Drafts!TransactionScript
  <2>. HIDE DEF s
  <2>3. Plain(s) /\ s[1][1] \in FirstName
    BY <1>11, <2>2, EditIsPlain DEF FirstName
  <2>. QED  BY <2>1, <2>3, PlainIsAsked DEF s
<1>. QED  BY <1>1, <1>3, <1>4, <1>5, <1>6, <1>7, <1>8, <1>9, <1>10, <1>11

\* What a script says of the rest of it.
LEMMA RestOfScript ==
  ASSUME NEW s \in DraftSteps, s # <<>>, DraftScript(s)
  PROVE  /\ Tail(s) \in DraftSteps /\ Len(Tail(s)) = Len(s) - 1 /\ (Tail(s) = <<>> <=> Len(s) = 1)
         /\ Len(s) \in Nat /\ Len(s) >= 1
         /\ \A i \in 1 .. Len(s) - 1 : Tail(s)[i] = s[i + 1]
         /\ Head(s) = s[1] /\ s[1] \in DraftStep
         /\ Tail(s) # <<>> => DraftScript(Tail(s)) /\ 2 \in 1 .. Len(s) /\ Tail(s)[1] = s[2]
         /\ Discards(s) => Discards(Tail(s))
         /\ \A x : HasStep(Tail(s), x) => HasStep(s, x)
         /\ \A n : Has(Tail(s), n) => Has(s, n)
         /\ \A x : HasStep(s, x) => s[1] = x \/ HasStep(Tail(s), x)
         /\ Has(s, s[1][1])
<1> DEFINE z == Tail(s)
<1>1. s \in Seq(DraftStep)
  BY DEF DraftSteps
<1>2. Len(s) \in Nat /\ Len(s) >= 1 /\ 1 \in 1 .. Len(s)
  BY NotEmpty
<1>3. /\ z \in Seq(DraftStep) /\ Len(z) = Len(s) - 1 /\ \A i \in 1 .. Len(s) - 1 : z[i] = s[i + 1]
  BY <1>1, HeadTailProperties
<1>4. z \in DraftSteps /\ Head(s) = s[1] /\ s[1] \in DraftStep
  BY <1>1, <1>2, <1>3 DEF DraftSteps
<1>. HIDE DEF z
<1>5. z = <<>> <=> Len(s) = 1
  <2>1. z = <<>> <=> Len(z) = 0
    BY <1>4, NotEmpty
  <2>. QED  BY <1>2, <1>3, <2>1
<1>6. \A i \in 1 .. Len(z) : i + 1 \in 1 .. Len(s) /\ z[i] = s[i + 1]
  BY <1>2, <1>3
<1>7. Discards(s) => Discards(z)
  BY <1>6 DEF Discards
<1>8. (\A x : HasStep(z, x) => HasStep(s, x)) /\ (\A n : Has(z, n) => Has(s, n))
  BY <1>6 DEF HasStep, Has
<1>9. ASSUME NEW x, HasStep(s, x)
      PROVE  s[1] = x \/ HasStep(z, x)
  <2>1. PICK i \in 1 .. Len(s) : s[i] = x
    BY <1>9 DEF HasStep
  <2>2. CASE i # 1
    <3>1. i - 1 \in 1 .. Len(z) /\ (i - 1) + 1 = i
      BY <1>2, <1>3, <2>1, <2>2
    <3>2. z[i - 1] = s[i]
      BY <1>6, <3>1
    <3>. QED  BY <2>1, <3>1, <3>2 DEF HasStep
  <2>. QED  BY <2>1, <2>2
<1>10. Has(s, s[1][1])
  BY <1>2 DEF Has
<1>11. ASSUME z # <<>>
       PROVE  DraftScript(z) /\ 2 \in 1 .. Len(s) /\ z[1] = s[2]
  <2>1. Len(s) >= 2
    <3>1. Len(s) # 1
      BY <1>5, <1>11
    <3>2. \A n \in Nat : n >= 1 /\ n # 1 => n >= 2
      OBVIOUS
    <3>3. Len(s) \in Nat /\ Len(s) >= 1
      BY <1>2
    <3>. QED  BY <3>1, <3>2, <3>3
  <2>2. 2 \in 1 .. Len(s) /\ z[1] = s[2] /\ 2 \in 2 .. Len(s)
    BY <1>2, <1>3, <2>1
  <2>3. AfterStep(z)
    <3>1. ASSUME NEW i \in 2 .. Len(z)
          PROVE  i + 1 \in 2 .. Len(s) /\ z[i] = s[i + 1] /\ z[i - 1] = s[(i + 1) - 1]
      <4>1. i + 1 \in 2 .. Len(s) /\ i \in 1 .. Len(s) - 1 /\ i - 1 \in 1 .. Len(s) - 1 /\ (i - 1) + 1 = (i + 1) - 1
        BY <1>2, <1>3
      <4>. QED  BY <1>3, <4>1
    <3>2. AfterStep(s)
      BY DEF DraftScript
    <3>3. ASSUME NEW i \in 2 .. Len(z)
          PROVE  /\ z[i][1] = "closeDraft" => z[i - 1][1] = "openDraft"
                 /\ z[i][1] = "closeTx" => z[i - 1][1] = "openTx"
                 /\ z[i][1] = "record" => z[i - 1][1] \in {"closeDraft", "writeReview"}
                 /\ z[i] = <<"record", "accept">> => z[i - 1][1] = "writeReview"
                 /\ z[i][1] = "writeReview" => z[i - 1][1] = "closeDraft"
                 /\ z[i][1] = "removeDraft" => z[i - 1][1] = "forgetDraft"
                 /\ z[i][1] = "removeTx" => z[i - 1][1] = "forgetTx"
                 /\ z[i][1] = "describe" => z[i - 1][1] = "convert"
                 /\ z[i][1] # "newTx"
      BY <3>1, <3>2 DEF AfterStep
    <3>. QED  BY <3>3 DEF AfterStep
  <2>4. BeforeStep(z)
    <3>1. BeforeStep(s)
      BY DEF DraftScript
    <3>2. ASSUME NEW i \in 1 .. Len(z), z[i][1] = "writeReview"
          PROVE  i + 1 \in 1 .. Len(z) /\ z[i + 1][1] = "record"
      <4>1. (i + 1) + 1 \in 1 .. Len(s) /\ s[(i + 1) + 1][1] = "record"
        BY <1>6, <3>1, <3>2 DEF BeforeStep
      <4>2. i + 1 \in 1 .. Len(z)
        BY <1>2, <1>3, <4>1
      <4>. QED  BY <1>6, <4>1, <4>2
    <3>3. ASSUME NEW i \in 1 .. Len(z), z[i] = <<"record", "accept">>
          PROVE  /\ i + 1 \in 1 .. Len(z) /\ z[i + 1][1] = "writeManifest"
                 /\ \A j \in 1 .. Len(z) : j > i => z[j][1] # "record"
      <4>1. /\ (i + 1) + 1 \in 1 .. Len(s) /\ s[(i + 1) + 1][1] = "writeManifest"
            /\ \A j \in 1 .. Len(s) : j > i + 1 => s[j][1] # "record"
        BY <1>6, <3>1, <3>3 DEF BeforeStep
      <4>2. i + 1 \in 1 .. Len(z)
        BY <1>2, <1>3, <4>1
      <4>3. ASSUME NEW j \in 1 .. Len(z), j > i
            PROVE  z[j][1] # "record"
        <5>1. j + 1 \in 1 .. Len(s) /\ j + 1 > i + 1 /\ z[j] = s[j + 1]
          BY <1>6, <4>3
        <5>. QED  BY <4>1, <5>1
      <4>. QED  BY <1>6, <4>1, <4>2, <4>3
    <3>4. ASSUME NEW i \in 1 .. Len(z), NEW j \in 1 .. Len(z), j < i
          PROVE  /\ z[i][1] = "newDraft" => z[j][1] \in {"newTx", "openTx", "closeTx"}
                 /\ z[i] = <<"record", "create">> => z[j][1] # "edit"
      <4>1. i + 1 \in 1 .. Len(s) /\ j + 1 \in 1 .. Len(s) /\ j + 1 < i + 1 /\ z[i] = s[i + 1] /\ z[j] = s[j + 1]
        BY <1>6, <3>4
      <4>. QED  BY <3>1, <4>1 DEF BeforeStep
    <3>. QED  BY <3>2, <3>3, <3>4 DEF BeforeStep
  <2>5. z[1][1] # "newTx"
    BY <2>2 DEF DraftScript, AfterStep
  <2>6. Discards(z) \/ \A i \in 1 .. Len(z) : z[i][1] \notin DiscardName
    BY <1>6, <1>7 DEF DraftScript
  <2>. QED  BY <2>2, <2>3, <2>4, <2>5, <2>6 DEF DraftScript
<1>. QED  BY <1>2, <1>3, <1>4, <1>5, <1>7, <1>8, <1>9, <1>10, <1>11 DEF z

\* The step after the first one, if there is one, and what the first one says of the rest.
LEMMA NextStep ==
  ASSUME NEW s \in DraftSteps, s # <<>>, DraftScript(s)
  PROVE  /\ Tail(s) # <<>> =>
              LET next == Tail(s)[1] IN
              /\ next[1] = "closeDraft" => s[1][1] = "openDraft"
              /\ next[1] = "closeTx" => s[1][1] = "openTx"
              /\ next[1] = "record" => s[1][1] \in {"closeDraft", "writeReview"}
              /\ next = <<"record", "accept">> => s[1][1] = "writeReview"
              /\ next[1] = "writeReview" => s[1][1] = "closeDraft"
              /\ next[1] = "removeDraft" => s[1][1] = "forgetDraft"
              /\ next[1] = "removeTx" => s[1][1] = "forgetTx"
              /\ next[1] = "describe" => s[1][1] = "convert"
              /\ next[1] # "newTx"
         /\ s[1][1] = "writeReview" => Tail(s) # <<>> /\ Tail(s)[1][1] = "record"
         /\ s[1] = <<"record", "accept">> =>
              Tail(s) # <<>> /\ Tail(s)[1][1] = "writeManifest" /\ ~Has(Tail(s), "record")
         /\ Has(Tail(s), "newDraft") => s[1][1] \in {"newTx", "openTx", "closeTx"}
         /\ HasStep(Tail(s), <<"record", "create">>) => s[1][1] # "edit"
         /\ s[1][1] \in DiscardName => Discards(s) /\ ~Has(Tail(s), "record") /\ ~Has(Tail(s), "newDraft")
         /\ s[1][1] \notin DiscardName => ~Discards(s)
         /\ s[1][1] = "newTx" /\ Has(s, "record") => HasStep(s, <<"record", "create">>)
         /\ s[1][1] = "edit" => s[1][2] \in Drafts!Edits
         /\ s[1][1] \in DraftName /\ s[1][2] \in DraftOp /\ s[1] = <<s[1][1], s[1][2]>>
<1> DEFINE z == Tail(s)
<1>1. /\ z \in DraftSteps /\ Len(z) = Len(s) - 1 /\ (z = <<>> <=> Len(s) = 1)
      /\ Len(s) \in Nat /\ Len(s) >= 1
      /\ \A i \in 1 .. Len(s) - 1 : z[i] = s[i + 1]
      /\ s[1] \in DraftStep
      /\ z # <<>> => DraftScript(z) /\ 2 \in 1 .. Len(s) /\ z[1] = s[2]
  BY RestOfScript
<1>. HIDE DEF z
<1>2. AfterStep(s) /\ BeforeStep(s)
  BY DEF DraftScript
<1>3. 1 \in 1 .. Len(s)
  BY <1>1
<1>4. \A i \in 1 .. Len(z) : i + 1 \in 1 .. Len(s) /\ z[i] = s[i + 1] /\ 1 < i + 1
  BY <1>1
<1>5. ASSUME z # <<>>
      PROVE  /\ z[1][1] = "closeDraft" => s[1][1] = "openDraft"
             /\ z[1][1] = "closeTx" => s[1][1] = "openTx"
             /\ z[1][1] = "record" => s[1][1] \in {"closeDraft", "writeReview"}
             /\ z[1] = <<"record", "accept">> => s[1][1] = "writeReview"
             /\ z[1][1] = "writeReview" => s[1][1] = "closeDraft"
             /\ z[1][1] = "removeDraft" => s[1][1] = "forgetDraft"
             /\ z[1][1] = "removeTx" => s[1][1] = "forgetTx"
             /\ z[1][1] = "describe" => s[1][1] = "convert"
             /\ z[1][1] # "newTx"
  <2>1. 2 \in 2 .. Len(s) /\ z[1] = s[2] /\ 2 - 1 = 1
    BY <1>1, <1>5
  <2>. QED  BY <1>2, <2>1 DEF AfterStep
<1>6. ASSUME s[1][1] = "writeReview"
      PROVE  z # <<>> /\ z[1][1] = "record"
  <2>1. 1 + 1 \in 1 .. Len(s) /\ s[1 + 1][1] = "record"
    BY <1>2, <1>3, <1>6 DEF BeforeStep
  <2>2. Len(s) # 1
    BY <1>1, <2>1
  <2>3. z # <<>>
    BY <1>1, <2>2
  <2>. QED  BY <1>1, <2>1, <2>3
<1>7. ASSUME s[1] = <<"record", "accept">>
      PROVE  z # <<>> /\ z[1][1] = "writeManifest" /\ ~Has(z, "record")
  <2>1. /\ 1 + 1 \in 1 .. Len(s) /\ s[1 + 1][1] = "writeManifest"
        /\ \A j \in 1 .. Len(s) : j > 1 => s[j][1] # "record"
    BY <1>2, <1>3, <1>7 DEF BeforeStep
  <2>2. Len(s) # 1
    BY <1>1, <2>1
  <2>3. z # <<>>
    BY <1>1, <2>2
  <2>4. ASSUME NEW i \in 1 .. Len(z)
        PROVE  z[i][1] # "record"
    <3>1. i + 1 \in 1 .. Len(s) /\ i + 1 > 1 /\ z[i] = s[i + 1]
      BY <1>4
    <3>. QED  BY <2>1, <3>1
  <2>. QED  BY <1>1, <2>1, <2>3, <2>4 DEF Has
<1>8. ASSUME Has(z, "newDraft")
      PROVE  s[1][1] \in {"newTx", "openTx", "closeTx"}
  <2>1. PICK i \in 1 .. Len(z) : z[i][1] = "newDraft"
    BY <1>8 DEF Has
  <2>2. i + 1 \in 1 .. Len(s) /\ s[i + 1][1] = "newDraft" /\ 1 < i + 1
    BY <1>4, <2>1
  <2>. QED  BY <1>2, <1>3, <2>2 DEF BeforeStep
<1>9. ASSUME HasStep(z, <<"record", "create">>)
      PROVE  s[1][1] # "edit"
  <2>1. PICK i \in 1 .. Len(z) : z[i] = <<"record", "create">>
    BY <1>9 DEF HasStep
  <2>2. i + 1 \in 1 .. Len(s) /\ s[i + 1] = <<"record", "create">> /\ 1 < i + 1
    BY <1>4, <2>1
  <2>. QED  BY <1>2, <1>3, <2>2 DEF BeforeStep
<1>10. ASSUME s[1][1] \in DiscardName
       PROVE  Discards(s) /\ ~Has(z, "record") /\ ~Has(z, "newDraft")
  <2>1. Discards(s)
    BY <1>3, <1>10 DEF DraftScript
  <2>2. \A i \in 1 .. Len(z) : z[i][1] \in DiscardName
    BY <1>4, <2>1 DEF Discards
  <2>. QED  BY <2>1, <2>2 DEF Has, DiscardName
<1>11. s[1][1] \notin DiscardName => ~Discards(s)
  BY <1>3 DEF Discards
<1>12. s[1][1] = "newTx" /\ Has(s, "record") => HasStep(s, <<"record", "create">>)
  BY DEF DraftScript
<1>13. /\ s[1][1] = "edit" => s[1][2] \in Drafts!Edits
       /\ s[1][1] \in DraftName /\ s[1][2] \in DraftOp /\ s[1] = <<s[1][1], s[1][2]>>
  BY <1>1 DEF DraftStep
<1>. QED  BY <1>5, <1>6, <1>7, <1>8, <1>9, <1>10, <1>11, <1>12, <1>13 DEF z

-----------------------------------------------------------------------------
(* Drafts: what each step makes of a draft and its transaction.            *)

DraftValues(D, X, DF, XF, rv, ms, mo, st) ==
  /\ D \in DraftRec \cup {Drafts!Absent} /\ X \in TxRec \cup {Drafts!Absent}
  /\ DF \in DraftRec \cup NoFile /\ XF \in TxRec \cup NoFile
  /\ rv \in [features : Seq(Drafts!Face), complete : BOOLEAN] /\ ms \in Seq(Drafts!Face) /\ mo \in Nat
  /\ st \in [features : Seq(Drafts!Face), export : Nat]

DraftReady(s, cl, D, X, DF, XF, rv, ms, mo, st) ==
  /\ s \in DraftSteps /\ s # <<>> /\ cl \in CallRec
  /\ DraftValues(D, X, DF, XF, rv, ms, mo, st)
  /\ TokenFits(D, X, DF, XF, rv, ms, mo, st)
  /\ CallFits(s, cl, D, X, DF, XF, rv, ms, st)
DraftDone(z, cl, D, X, DF, XF, rv, ms, mo, st) ==
  /\ DraftValues(D, X, DF, XF, rv, ms, mo, st)
  /\ TokenFits(D, X, DF, XF, rv, ms, mo, st)
  /\ z # <<>> => cl \in CallRec /\ CallFits(z, cl, D, X, DF, XF, rv, ms, st)
  /\ z = <<>> => Closed(X, rv)

LEMMA DraftKinds ==
  /\ \A x \in DraftRec : x.kind = "draft" /\ x.features \in Seq(Drafts!Face) /\ Len(x.features) \in Nat
  /\ \A x \in TxRec : x.kind = "tx" /\ x.recorded \in Nat
  /\ \A x \in NoFile : x.kind \notin {"draft", "tx"} /\ x \notin DraftRec /\ x \notin TxRec
  /\ Drafts!Absent \in NoFile /\ Drafts!Torn \in NoFile /\ Drafts!Removed \in NoFile
  /\ Drafts!Torn # Drafts!Removed /\ Drafts!Absent # Drafts!Removed
  /\ \A x \in DraftRec : x \notin TxRec
  /\ Drafts!NewDraft \in DraftRec /\ Len(Drafts!NewDraft.features) = 0
  /\ Drafts!NewTx \in TxRec /\ Drafts!NewTx.recorded = 0 /\ Drafts!NewTx.open /\ ~Drafts!NewTx.draft
  /\ \A x : Rec(x) \in Nat /\ (x \notin TxRec => Rec(x) = 0) /\ (x \in TxRec => Rec(x) = x.recorded)
<1>1. \A x \in DraftRec : x.kind = "draft" /\ x.features \in Seq(Drafts!Face) /\ Len(x.features) \in Nat
  BY DEF DraftRec
<1>2. \A x \in TxRec : x.kind = "tx" /\ x.recorded \in Nat
  BY DEF TxRec
<1>3. Drafts!Absent.kind = "absent" /\ Drafts!Torn.kind = "torn" /\ Drafts!Removed.kind = "removed"
  BY DEF Drafts!Absent, Drafts!Torn, Drafts!Removed
<1>4. \A x \in NoFile : x.kind \notin {"draft", "tx"} /\ x \notin DraftRec /\ x \notin TxRec
  BY <1>1, <1>2, <1>3 DEF NoFile
<1>5. Drafts!Absent \in NoFile /\ Drafts!Torn \in NoFile /\ Drafts!Removed \in NoFile
  BY DEF NoFile
<1>6. Drafts!Torn # Drafts!Removed /\ Drafts!Absent # Drafts!Removed
  BY <1>3
<1>7. \A x \in DraftRec : x \notin TxRec
  BY <1>1, <1>2
<1>8. Drafts!NewDraft \in DraftRec /\ Len(Drafts!NewDraft.features) = 0
  BY DEF DraftRec, Drafts!NewDraft
<1>9. Drafts!NewTx \in TxRec /\ Drafts!NewTx.recorded = 0 /\ Drafts!NewTx.open /\ ~Drafts!NewTx.draft
  BY DEF TxRec, Drafts!NewTx
<1>10. \A x : Rec(x) \in Nat /\ (x \notin TxRec => Rec(x) = 0) /\ (x \in TxRec => Rec(x) = x.recorded)
  BY <1>2 DEF Rec
<1>. QED  BY <1>1, <1>2, <1>4, <1>5, <1>6, <1>7, <1>8, <1>9, <1>10

\* What the lemmas on scripts say of a script s and its rest z.
RestIs(s, z) ==
  /\ z # <<>> =>
       /\ DraftScript(z)
       /\ z[1][1] = "closeDraft" => s[1][1] = "openDraft"
       /\ z[1][1] = "closeTx" => s[1][1] = "openTx"
       /\ z[1][1] = "record" => s[1][1] \in {"closeDraft", "writeReview"}
       /\ z[1] = <<"record", "accept">> => s[1][1] = "writeReview" /\ z[1][1] = "record"
       /\ z[1][1] = "writeReview" => s[1][1] = "closeDraft"
       /\ z[1][1] = "removeDraft" => s[1][1] = "forgetDraft"
       /\ z[1][1] = "removeTx" => s[1][1] = "forgetTx"
       /\ z[1][1] = "describe" => s[1][1] = "convert"
       /\ z[1][1] # "newTx"
  /\ s[1][1] = "writeReview" => z # <<>> /\ z[1][1] = "record"
  /\ s[1] = <<"record", "accept">> => z # <<>> /\ z[1][1] = "writeManifest" /\ ~Has(z, "record")
  /\ Has(z, "newDraft") => s[1][1] \in {"newTx", "openTx", "closeTx"} /\ Has(s, "newDraft")
  /\ HasStep(z, <<"record", "create">>) => s[1][1] # "edit" /\ HasStep(s, <<"record", "create">>)
  /\ HasStep(s, <<"record", "create">>) => s[1] = <<"record", "create">> \/ HasStep(z, <<"record", "create">>)
  /\ Has(z, "record") => Has(s, "record")
  /\ s[1][1] \in {"record", "newDraft"} => Has(s, s[1][1])
  /\ s[1][1] \in DiscardName => Discards(s) /\ Discards(z) /\ ~Has(z, "record") /\ ~Has(z, "newDraft")
  /\ s[1][1] \notin DiscardName => ~Discards(s)
  /\ s[1][1] = "newTx" /\ Has(s, "record") => HasStep(s, <<"record", "create">>)
  /\ s[1][1] = "edit" => s[1][2] \in Drafts!Edits
  /\ s[1][1] \in DraftName /\ s[1][2] \in DraftOp /\ s[1] = <<s[1][1], s[1][2]>>

LEMMA RestSays ==
  ASSUME NEW s \in DraftSteps, s # <<>>, DraftScript(s)
  PROVE  RestIs(s, Tail(s))
<1> DEFINE z == Tail(s)
<1>1. /\ z # <<>> => DraftScript(z)
      /\ Discards(s) => Discards(z)
      /\ HasStep(z, <<"record", "create">>) => HasStep(s, <<"record", "create">>)
      /\ HasStep(s, <<"record", "create">>) => s[1] = <<"record", "create">> \/ HasStep(z, <<"record", "create">>)
      /\ Has(z, "record") => Has(s, "record")
      /\ Has(z, "newDraft") => Has(s, "newDraft")
      /\ Has(s, s[1][1])
  BY RestOfScript
<1>2. \A x : x = <<"record", "accept">> => x[1] = "record"
  OBVIOUS
<1>3. /\ z # <<>> =>
           /\ z[1][1] = "closeDraft" => s[1][1] = "openDraft"
           /\ z[1][1] = "closeTx" => s[1][1] = "openTx"
           /\ z[1][1] = "record" => s[1][1] \in {"closeDraft", "writeReview"}
           /\ z[1] = <<"record", "accept">> => s[1][1] = "writeReview"
           /\ z[1][1] = "writeReview" => s[1][1] = "closeDraft"
           /\ z[1][1] = "removeDraft" => s[1][1] = "forgetDraft"
           /\ z[1][1] = "removeTx" => s[1][1] = "forgetTx"
           /\ z[1][1] = "describe" => s[1][1] = "convert"
           /\ z[1][1] # "newTx"
      /\ s[1][1] = "writeReview" => z # <<>> /\ z[1][1] = "record"
      /\ s[1] = <<"record", "accept">> => z # <<>> /\ z[1][1] = "writeManifest" /\ ~Has(z, "record")
      /\ Has(z, "newDraft") => s[1][1] \in {"newTx", "openTx", "closeTx"}
      /\ HasStep(z, <<"record", "create">>) => s[1][1] # "edit"
      /\ s[1][1] \in DiscardName => Discards(s) /\ ~Has(z, "record") /\ ~Has(z, "newDraft")
      /\ s[1][1] \notin DiscardName => ~Discards(s)
      /\ s[1][1] = "newTx" /\ Has(s, "record") => HasStep(s, <<"record", "create">>)
      /\ s[1][1] = "edit" => s[1][2] \in Drafts!Edits
      /\ s[1][1] \in DraftName /\ s[1][2] \in DraftOp /\ s[1] = <<s[1][1], s[1][2]>>
  BY NextStep
<1>. HIDE DEF z
<1>4. RestIs(s, z)
  BY <1>1, <1>2, <1>3 DEF RestIs
<1>. QED  BY <1>4 DEF z

\* A new part.
LEMMA NewDraftFits ==
  ASSUME NEW s, NEW cl, NEW D, NEW X, NEW DF, NEW XF, NEW rv, NEW ms, NEW mo, NEW st,
         DraftReady(s, cl, D, X, DF, XF, rv, ms, mo, st), s[1][1] = "newDraft"
  PROVE  DraftDone(Tail(s), cl, Drafts!NewDraft, X, DF, XF, rv, ms, mo, st)
<1>1. s \in DraftSteps /\ s # <<>> /\ DraftScript(s)
  BY DEF DraftReady, CallFits
<1> DEFINE z == Tail(s)
<1>2. RestIs(s, z)
  BY <1>1, RestSays
<1>. HIDE DEF z
<1>3. DraftValues(Drafts!NewDraft, X, DF, XF, rv, ms, mo, st)
  BY DraftKinds DEF DraftValues, DraftReady
<1>4. TokenFits(Drafts!NewDraft, X, DF, XF, rv, ms, mo, st)
  BY <1>2, <1>3, DraftKinds DEF DraftReady, TokenFits, CallFits, HeadFits, RestIs, TxFits, Closed, DiscardName, DraftValues
<1>5. ASSUME z # <<>>
      PROVE  HeadFits(z[1], cl, Drafts!NewDraft, X, DF, XF, rv, ms, st)
  BY <1>2, <1>5 DEF RestIs, HeadFits
<1>6. ASSUME z # <<>>
      PROVE  cl \in CallRec /\ CallFits(z, cl, Drafts!NewDraft, X, DF, XF, rv, ms, st)
  BY <1>2, <1>3, <1>5, <1>6, DraftKinds DEF DraftReady, TokenFits, CallFits, HeadFits, RestIs, TxFits, Closed, DiscardName
<1>7. z = <<>> => Closed(X, rv)
  BY <1>2, <1>3, DraftKinds DEF DraftReady, TokenFits, CallFits, HeadFits, RestIs, Closed, DiscardName
<1>. QED  BY <1>3, <1>4, <1>6, <1>7 DEF DraftDone, z

\* A check that passes.
LEMMA CheckFits ==
  ASSUME NEW s, NEW cl, NEW D, NEW X, NEW DF, NEW XF, NEW rv, NEW ms, NEW mo, NEW st,
         DraftReady(s, cl, D, X, DF, XF, rv, ms, mo, st), s[1][1] = "check"
  PROVE  DraftDone(Tail(s), cl, D, X, DF, XF, rv, ms, mo, st)
<1>1. s \in DraftSteps /\ s # <<>> /\ DraftScript(s)
  BY DEF DraftReady, CallFits
<1> DEFINE z == Tail(s)
<1>2. RestIs(s, z)
  BY <1>1, RestSays
<1>. HIDE DEF z
<1>3. DraftValues(D, X, DF, XF, rv, ms, mo, st)
  BY DraftKinds DEF DraftValues, DraftReady
<1>4. TokenFits(D, X, DF, XF, rv, ms, mo, st)
  BY <1>2, <1>3, DraftKinds DEF DraftReady, TokenFits, CallFits, HeadFits, RestIs, TxFits, Closed, DiscardName, DraftValues
<1>5. ASSUME z # <<>>
      PROVE  HeadFits(z[1], cl, D, X, DF, XF, rv, ms, st)
  BY <1>2, <1>5 DEF RestIs, HeadFits
<1>6. ASSUME z # <<>>
      PROVE  cl \in CallRec /\ CallFits(z, cl, D, X, DF, XF, rv, ms, st)
  BY <1>2, <1>3, <1>5, <1>6, DraftKinds DEF DraftReady, TokenFits, CallFits, HeadFits, RestIs, TxFits, Closed, DiscardName
<1>7. z = <<>> => Closed(X, rv)
  BY <1>2, <1>3, DraftKinds DEF DraftReady, TokenFits, CallFits, HeadFits, RestIs, Closed, DiscardName
<1>. QED  BY <1>3, <1>4, <1>6, <1>7 DEF DraftDone, z

\* An operation on the draft, which adds to it.
LEMMA EditFits ==
  ASSUME NEW s, NEW cl, NEW D, NEW X, NEW DF, NEW XF, NEW rv, NEW ms, NEW mo, NEW st,
         DraftReady(s, cl, D, X, DF, XF, rv, ms, mo, st), s[1][1] = "edit", D \in DraftRec, NEW D2 \in DraftRec, NEW cl2 \in CallRec,
         Len(D2.features) >= Len(D.features), cl2.grew = Len(D2.features) - Len(D.features)
  PROVE  DraftDone(Tail(s), cl2, D2, X, DF, XF, rv, ms, mo, st)
<1>1. s \in DraftSteps /\ s # <<>> /\ DraftScript(s)
  BY DEF DraftReady, CallFits
<1> DEFINE z == Tail(s)
<1>2. RestIs(s, z)
  BY <1>1, RestSays
<1>. HIDE DEF z
<1>81. Len(D.features) \in Nat /\ Len(D2.features) \in Nat /\ Rec(X) \in Nat /\ Rec(XF) \in Nat
  BY DraftKinds
<1>82. Rec(X) <= Len(D.features) /\ Rec(XF) <= Len(D.features)
  BY DEF DraftReady, TokenFits
<1>83. Rec(X) <= Len(D2.features) /\ Rec(XF) <= Len(D2.features)
  BY <1>81, <1>82
<1>84. \A l, m, r \in Nat : r <= l => r + (m - l) <= m
  OBVIOUS
<1>85. Rec(X) + cl2.grew <= Len(D2.features)
  BY <1>81, <1>82, <1>84
<1>86. ~HasStep(z, <<"record", "create">>) /\ ~Has(z, "newDraft")
  BY <1>2 DEF RestIs
<1>3. DraftValues(D2, X, DF, XF, rv, ms, mo, st)
  BY <1>81, <1>82, <1>83, <1>84, <1>85, <1>86, DraftKinds DEF DraftValues, DraftReady
<1>4. TokenFits(D2, X, DF, XF, rv, ms, mo, st)
  BY <1>2, <1>3, <1>81, <1>82, <1>83, <1>84, <1>85, <1>86, DraftKinds DEF DraftReady, TokenFits, CallFits, HeadFits, RestIs, TxFits, Closed, DiscardName, DraftValues
<1>5. ASSUME z # <<>>
      PROVE  HeadFits(z[1], cl2, D2, X, DF, XF, rv, ms, st)
  BY <1>2, <1>5 DEF RestIs, HeadFits
<1>6. ASSUME z # <<>>
      PROVE  cl2 \in CallRec /\ CallFits(z, cl2, D2, X, DF, XF, rv, ms, st)
  <2>1. DraftScript(z)
    BY <1>2, <1>3, <1>81, <1>82, <1>83, <1>84, <1>85, <1>86, <1>6, DraftKinds DEF DraftReady, DraftValues, TokenFits, CallFits, RestIs, DiscardName
  <2>2. cl2 \in CallRec
    BY <1>2, <1>3, <1>81, <1>82, <1>83, <1>84, <1>85, <1>86, <1>6, DraftKinds DEF DraftReady, DraftValues, TokenFits, CallFits, RestIs, DiscardName
  <2>3. D2 \in DraftRec => Rec(X) + cl2.grew <= Len(D2.features)
    BY <1>2, <1>3, <1>81, <1>82, <1>83, <1>84, <1>85, <1>86, <1>6, DraftKinds DEF DraftReady, DraftValues, TokenFits, CallFits, RestIs, DiscardName
  <2>4. Has(z, "record") /\ z[1][1] # "newTx" =>
               X \in TxRec /\ X.open /\ (HasStep(z, <<"record", "create">>) \/ X.draft)
    BY <1>2, <1>3, <1>81, <1>82, <1>83, <1>84, <1>85, <1>86, <1>6, DraftKinds DEF DraftReady, DraftValues, TokenFits, CallFits, RestIs, DiscardName
  <2>5. HasStep(z, <<"record", "create">>) \/ Has(z, "newDraft") => cl2.grew = 0
    BY <1>2, <1>3, <1>81, <1>82, <1>83, <1>84, <1>85, <1>86, <1>6, DraftKinds DEF DraftReady, DraftValues, TokenFits, CallFits, RestIs, DiscardName
  <2>6. Has(z, "newDraft") => Rec(X) = 0 /\ Rec(XF) = 0
    BY <1>2, <1>3, <1>81, <1>82, <1>83, <1>84, <1>85, <1>86, <1>6, DraftKinds DEF DraftReady, DraftValues, TokenFits, CallFits, RestIs, DiscardName
  <2>7. ~Discards(z) => DF # Drafts!Removed
    BY <1>2, <1>3, <1>81, <1>82, <1>83, <1>84, <1>85, <1>86, <1>6, DraftKinds DEF DraftReady, DraftValues, TokenFits, CallFits, RestIs, DiscardName
  <2>8. Closed(X, rv) \/ z[1][1] = "writeManifest"
    BY <1>2, <1>3, <1>81, <1>82, <1>83, <1>84, <1>85, <1>86, <1>6, DraftKinds DEF DraftReady, DraftValues, TokenFits, CallFits, RestIs, DiscardName, HeadFits, Closed, TxFits
  <2>. QED  BY <1>5, <1>6, <2>1, <2>2, <2>3, <2>4, <2>5, <2>6, <2>7, <2>8 DEF CallFits
<1>7. z = <<>> => Closed(X, rv)
  BY <1>2, <1>3, <1>81, <1>82, <1>83, <1>84, <1>85, <1>86, DraftKinds DEF DraftReady, TokenFits, CallFits, HeadFits, RestIs, Closed, DiscardName
<1>. QED  BY <1>3, <1>4, <1>6, <1>7 DEF DraftDone, z

\* A new transaction.
LEMMA NewTxFits ==
  ASSUME NEW s, NEW cl, NEW D, NEW X, NEW DF, NEW XF, NEW rv, NEW ms, NEW mo, NEW st,
         DraftReady(s, cl, D, X, DF, XF, rv, ms, mo, st), s[1][1] = "newTx"
  PROVE  DraftDone(Tail(s), cl, D, Drafts!NewTx, DF, XF, rv, ms, mo, st)
<1>1. s \in DraftSteps /\ s # <<>> /\ DraftScript(s)
  BY DEF DraftReady, CallFits
<1> DEFINE z == Tail(s)
<1>2. RestIs(s, z)
  BY <1>1, RestSays
<1>. HIDE DEF z
<1>81. cl.grew \in Nat
  BY  DEF DraftReady, CallRec
<1>82. Rec(Drafts!NewTx) = 0 /\ XF \notin TxRec /\ Rec(XF) = 0
  BY DraftKinds DEF DraftReady, CallFits, HeadFits
<1>83. Has(z, "record") => HasStep(z, <<"record", "create">>)
  BY <1>2 DEF RestIs
<1>84. D \in DraftRec => Rec(X) + cl.grew <= Len(D.features) /\ Len(D.features) \in Nat /\ Rec(X) \in Nat
  BY DraftKinds DEF DraftReady, CallFits
<1>85. D \in DraftRec => 0 + cl.grew <= Len(D.features)
  BY <1>81, <1>84
<1>86. DF # Drafts!Removed
  BY <1>2 DEF DraftReady, CallFits, RestIs, DiscardName
<1>3. DraftValues(D, Drafts!NewTx, DF, XF, rv, ms, mo, st)
  BY <1>81, <1>82, <1>83, <1>84, <1>85, <1>86, DraftKinds DEF DraftValues, DraftReady
<1>4. TokenFits(D, Drafts!NewTx, DF, XF, rv, ms, mo, st)
  BY <1>2, <1>3, <1>81, <1>82, <1>83, <1>84, <1>85, <1>86, DraftKinds DEF DraftReady, TokenFits, CallFits, HeadFits, RestIs, TxFits, Closed, DiscardName, DraftValues
<1>5. ASSUME z # <<>>
      PROVE  HeadFits(z[1], cl, D, Drafts!NewTx, DF, XF, rv, ms, st)
  BY <1>2, <1>5 DEF RestIs, HeadFits
<1>6. ASSUME z # <<>>
      PROVE  cl \in CallRec /\ CallFits(z, cl, D, Drafts!NewTx, DF, XF, rv, ms, st)
  BY <1>2, <1>3, <1>81, <1>82, <1>83, <1>84, <1>85, <1>86, <1>5, <1>6, DraftKinds DEF DraftReady, TokenFits, CallFits, HeadFits, RestIs, TxFits, Closed, DiscardName
<1>7. z = <<>> => Closed(Drafts!NewTx, rv)
  BY <1>2, <1>3, <1>81, <1>82, <1>83, <1>84, <1>85, <1>86, DraftKinds DEF DraftReady, TokenFits, CallFits, HeadFits, RestIs, Closed, DiscardName
<1>. QED  BY <1>3, <1>4, <1>6, <1>7 DEF DraftDone, z

\* The operation joins the list of its transaction.
LEMMA RecordFits ==
  ASSUME NEW s, NEW cl, NEW D, NEW X, NEW DF, NEW XF, NEW rv, NEW ms, NEW mo, NEW st,
         DraftReady(s, cl, D, X, DF, XF, rv, ms, mo, st), s[1][1] = "record", X \in TxRec, NEW X2 \in TxRec, NEW cl2 \in CallRec, cl2.grew = 0,
         X2.recorded = X.recorded + cl.grew, X2.draft <=> X.draft \/ s[1][2] = "create",
         X2.open <=> X.open /\ s[1][2] # "accept",
         X2.exported <=> X.exported \/ s[1][2] \in {"preview", "accept"}
  PROVE  DraftDone(Tail(s), cl2, D, X2, DF, XF, rv, ms, mo, st)
<1>1. s \in DraftSteps /\ s # <<>> /\ DraftScript(s)
  BY DEF DraftReady, CallFits
<1> DEFINE z == Tail(s)
<1>2. RestIs(s, z)
  BY <1>1, RestSays
<1>. HIDE DEF z
<1>81. cl.grew \in Nat
  BY  DEF DraftReady, CallRec
<1>82. Rec(X) = X.recorded /\ Rec(X2) = Rec(X) + cl.grew /\ Rec(X2) \in Nat /\ Rec(X2) = X2.recorded
  BY DraftKinds
<1>83. Has(s, "record") /\ s[1][1] # "newTx"
  BY <1>2 DEF RestIs
<1>84. X.open /\ (HasStep(s, <<"record", "create">>) \/ X.draft)
  BY <1>83 DEF DraftReady, CallFits
<1>85. Rec(X2) + cl2.grew = Rec(X2)
  BY <1>82
<1>86. (HasStep(s, <<"record", "create">>) => cl.grew = 0) /\ TxFits(X)
  BY DEF DraftReady, CallFits, TokenFits
<1>87. s[1] = <<s[1][1], s[1][2]>>
  BY <1>2 DEF RestIs
<1>88. HasStep(s, <<"record", "create">>) => s[1][2] = "create" \/ HasStep(z, <<"record", "create">>)
  BY <1>2 DEF RestIs
<1>89. X2.draft \/ X2.recorded = 0
  BY <1>82, <1>84, <1>86, DraftKinds DEF TxFits, TxRec
<1>3. DraftValues(D, X2, DF, XF, rv, ms, mo, st)
  BY <1>81, <1>82, <1>83, <1>84, <1>85, <1>86, <1>87, <1>88, <1>89, DraftKinds DEF DraftValues, DraftReady
<1>4. TokenFits(D, X2, DF, XF, rv, ms, mo, st)
  BY <1>2, <1>3, <1>81, <1>82, <1>83, <1>84, <1>85, <1>86, <1>87, <1>88, <1>89, DraftKinds DEF DraftReady, TokenFits, CallFits, HeadFits, RestIs, TxFits, Closed, DiscardName, DraftValues
<1>5. ASSUME z # <<>>
      PROVE  HeadFits(z[1], cl2, D, X2, DF, XF, rv, ms, st)
  BY <1>2, <1>5 DEF RestIs, HeadFits
<1>6. ASSUME z # <<>>
      PROVE  cl2 \in CallRec /\ CallFits(z, cl2, D, X2, DF, XF, rv, ms, st)
  BY <1>2, <1>3, <1>81, <1>82, <1>83, <1>84, <1>85, <1>86, <1>87, <1>88, <1>89, <1>5, <1>6, DraftKinds DEF DraftReady, TokenFits, CallFits, HeadFits, RestIs, TxFits, Closed, DiscardName
<1>7. z = <<>> => Closed(X2, rv)
  BY <1>2, <1>3, <1>81, <1>82, <1>83, <1>84, <1>85, <1>86, <1>87, <1>88, <1>89, DraftKinds DEF DraftReady, TokenFits, CallFits, HeadFits, RestIs, Closed, DiscardName
<1>. QED  BY <1>3, <1>4, <1>6, <1>7 DEF DraftDone, z

\* The file of the draft is opened.
LEMMA OpenDraftFits ==
  ASSUME NEW s, NEW cl, NEW D, NEW X, NEW DF, NEW XF, NEW rv, NEW ms, NEW mo, NEW st,
         DraftReady(s, cl, D, X, DF, XF, rv, ms, mo, st), s[1][1] = "openDraft", D \in DraftRec, NEW cl2 \in CallRec, cl2.grew = cl.grew, cl2.data = D
  PROVE  DraftDone(Tail(s), cl2, D, X, Drafts!Torn, XF, rv, ms, mo, st)
<1>1. s \in DraftSteps /\ s # <<>> /\ DraftScript(s)
  BY DEF DraftReady, CallFits
<1> DEFINE z == Tail(s)
<1>2. RestIs(s, z)
  BY <1>1, RestSays
<1>. HIDE DEF z
<1>3. DraftValues(D, X, Drafts!Torn, XF, rv, ms, mo, st)
  BY DraftKinds DEF DraftValues, DraftReady
<1>4. TokenFits(D, X, Drafts!Torn, XF, rv, ms, mo, st)
  <2>1. /\ TokenFits(D, X, DF, XF, rv, ms, mo, st)
        /\ D \in DraftRec => Len(D.features) \in Nat
        /\ DF \in DraftRec => Len(DF.features) \in Nat
    BY DraftKinds DEF DraftReady
  <2>2. /\ Drafts!Torn \notin DraftRec /\ Drafts!Torn \notin TxRec /\ Drafts!Torn # Drafts!Removed
        /\ Rec(Drafts!Torn) = 0
    BY <2>1, DraftKinds DEF TokenFits
  <2>. QED  BY <2>1, <2>2 DEF TokenFits, TxFits
<1>5. ASSUME z # <<>>
      PROVE  HeadFits(z[1], cl2, D, X, Drafts!Torn, XF, rv, ms, st)
  BY <1>2, <1>3, <1>5, DraftKinds DEF RestIs, HeadFits, DraftReady, DraftValues, TokenFits, CallFits
<1>6. ASSUME z # <<>>
      PROVE  cl2 \in CallRec /\ CallFits(z, cl2, D, X, Drafts!Torn, XF, rv, ms, st)
  BY <1>2, <1>3, <1>5, <1>6, DraftKinds DEF DraftReady, TokenFits, CallFits, HeadFits, RestIs, TxFits, Closed, DiscardName
<1>7. z = <<>> => Closed(X, rv)
  BY <1>2, <1>3, DraftKinds DEF DraftReady, TokenFits, CallFits, HeadFits, RestIs, Closed, DiscardName
<1>. QED  BY <1>3, <1>4, <1>6, <1>7 DEF DraftDone, z

\* The file of the transaction is opened.
LEMMA OpenTxFits ==
  ASSUME NEW s, NEW cl, NEW D, NEW X, NEW DF, NEW XF, NEW rv, NEW ms, NEW mo, NEW st,
         DraftReady(s, cl, D, X, DF, XF, rv, ms, mo, st), s[1][1] = "openTx", X \in TxRec, NEW cl2 \in CallRec, cl2.grew = cl.grew, cl2.data = X
  PROVE  DraftDone(Tail(s), cl2, D, X, DF, Drafts!Torn, rv, ms, mo, st)
<1>1. s \in DraftSteps /\ s # <<>> /\ DraftScript(s)
  BY DEF DraftReady, CallFits
<1> DEFINE z == Tail(s)
<1>2. RestIs(s, z)
  BY <1>1, RestSays
<1>. HIDE DEF z
<1>3. DraftValues(D, X, DF, Drafts!Torn, rv, ms, mo, st)
  BY DraftKinds DEF DraftValues, DraftReady
<1>4. TokenFits(D, X, DF, Drafts!Torn, rv, ms, mo, st)
  <2>1. /\ TokenFits(D, X, DF, XF, rv, ms, mo, st)
        /\ D \in DraftRec => Len(D.features) \in Nat
        /\ DF \in DraftRec => Len(DF.features) \in Nat
    BY DraftKinds DEF DraftReady
  <2>2. /\ Drafts!Torn \notin DraftRec /\ Drafts!Torn \notin TxRec /\ Drafts!Torn # Drafts!Removed
        /\ Rec(Drafts!Torn) = 0
    BY <2>1, DraftKinds DEF TokenFits
  <2>. QED  BY <2>1, <2>2 DEF TokenFits, TxFits
<1>5. ASSUME z # <<>>
      PROVE  HeadFits(z[1], cl2, D, X, DF, Drafts!Torn, rv, ms, st)
  BY <1>2, <1>3, <1>5, DraftKinds DEF RestIs, HeadFits, DraftReady, DraftValues, TokenFits, CallFits
<1>6. ASSUME z # <<>>
      PROVE  cl2 \in CallRec /\ CallFits(z, cl2, D, X, DF, Drafts!Torn, rv, ms, st)
  BY <1>2, <1>3, <1>5, <1>6, DraftKinds DEF DraftReady, TokenFits, CallFits, HeadFits, RestIs, TxFits, Closed, DiscardName
<1>7. z = <<>> => Closed(X, rv)
  BY <1>2, <1>3, DraftKinds DEF DraftReady, TokenFits, CallFits, HeadFits, RestIs, Closed, DiscardName
<1>. QED  BY <1>3, <1>4, <1>6, <1>7 DEF DraftDone, z

\* The file of the draft is closed.
LEMMA CloseDraftFits ==
  ASSUME NEW s, NEW cl, NEW D, NEW X, NEW DF, NEW XF, NEW rv, NEW ms, NEW mo, NEW st,
         DraftReady(s, cl, D, X, DF, XF, rv, ms, mo, st), s[1][1] = "closeDraft", NEW cl2,
         Tail(s) # <<>> => cl2 \in CallRec /\ cl2.grew = cl.grew
  PROVE  DraftDone(Tail(s), cl2, D, X, cl.data, XF, rv, ms, mo, st)
<1>1. s \in DraftSteps /\ s # <<>> /\ DraftScript(s)
  BY DEF DraftReady, CallFits
<1> DEFINE z == Tail(s)
<1>2. RestIs(s, z)
  BY <1>1, RestSays
<1>80. z # <<>> => cl2 \in CallRec /\ cl2.grew = cl.grew
  OBVIOUS
<1>. HIDE DEF z
<1>81. D \in DraftRec /\ cl.data = D
  BY <1>1, <1>2, DraftKinds DEF DraftReady, DraftValues, TokenFits, CallFits, HeadFits, RestIs, DiscardName
<1>3. DraftValues(D, X, cl.data, XF, rv, ms, mo, st)
  BY <1>80, <1>81, DraftKinds DEF DraftValues, DraftReady
<1>4. TokenFits(D, X, cl.data, XF, rv, ms, mo, st)
  BY <1>2, <1>3, <1>80, <1>81, DraftKinds DEF DraftReady, TokenFits, CallFits, HeadFits, RestIs, TxFits, Closed, DiscardName, DraftValues
<1>5. ASSUME z # <<>>
      PROVE  HeadFits(z[1], cl2, D, X, cl.data, XF, rv, ms, st)
  BY <1>2, <1>3, <1>80, <1>81, <1>5, DraftKinds DEF RestIs, HeadFits, DraftReady, DraftValues, TokenFits, CallFits
<1>6. ASSUME z # <<>>
      PROVE  cl2 \in CallRec /\ CallFits(z, cl2, D, X, cl.data, XF, rv, ms, st)
  BY <1>2, <1>3, <1>80, <1>81, <1>5, <1>6, DraftKinds DEF DraftReady, TokenFits, CallFits, HeadFits, RestIs, TxFits, Closed, DiscardName
<1>7. z = <<>> => Closed(X, rv)
  BY <1>2, <1>3, <1>80, <1>81, DraftKinds DEF DraftReady, TokenFits, CallFits, HeadFits, RestIs, Closed, DiscardName
<1>. QED  BY <1>3, <1>4, <1>6, <1>7 DEF DraftDone, z

\* The file of the transaction is closed.
LEMMA CloseTxFits ==
  ASSUME NEW s, NEW cl, NEW D, NEW X, NEW DF, NEW XF, NEW rv, NEW ms, NEW mo, NEW st,
         DraftReady(s, cl, D, X, DF, XF, rv, ms, mo, st), s[1][1] = "closeTx", NEW cl2,
         Tail(s) # <<>> => cl2 \in CallRec /\ cl2.grew = cl.grew
  PROVE  DraftDone(Tail(s), cl2, D, X, DF, cl.data, rv, ms, mo, st)
<1>1. s \in DraftSteps /\ s # <<>> /\ DraftScript(s)
  BY DEF DraftReady, CallFits
<1> DEFINE z == Tail(s)
<1>2. RestIs(s, z)
  BY <1>1, RestSays
<1>80. z # <<>> => cl2 \in CallRec /\ cl2.grew = cl.grew
  OBVIOUS
<1>. HIDE DEF z
<1>81. X \in TxRec /\ cl.data = X
  BY <1>1, <1>2, DraftKinds DEF DraftReady, DraftValues, TokenFits, CallFits, HeadFits, RestIs, DiscardName
<1>3. DraftValues(D, X, DF, cl.data, rv, ms, mo, st)
  BY <1>80, <1>81, DraftKinds DEF DraftValues, DraftReady
<1>4. TokenFits(D, X, DF, cl.data, rv, ms, mo, st)
  BY <1>2, <1>3, <1>80, <1>81, DraftKinds DEF DraftReady, TokenFits, CallFits, HeadFits, RestIs, TxFits, Closed, DiscardName, DraftValues
<1>5. ASSUME z # <<>>
      PROVE  HeadFits(z[1], cl2, D, X, DF, cl.data, rv, ms, st)
  BY <1>2, <1>5 DEF RestIs, HeadFits
<1>6. ASSUME z # <<>>
      PROVE  cl2 \in CallRec /\ CallFits(z, cl2, D, X, DF, cl.data, rv, ms, st)
  BY <1>2, <1>3, <1>80, <1>81, <1>5, <1>6, DraftKinds DEF DraftReady, TokenFits, CallFits, HeadFits, RestIs, TxFits, Closed, DiscardName
<1>7. z = <<>> => Closed(X, rv)
  BY <1>2, <1>3, <1>80, <1>81, DraftKinds DEF DraftReady, TokenFits, CallFits, HeadFits, RestIs, Closed, DiscardName
<1>. QED  BY <1>3, <1>4, <1>6, <1>7 DEF DraftDone, z

\* The draft is exported.
LEMMA ExportFits ==
  ASSUME NEW s, NEW cl, NEW D, NEW X, NEW DF, NEW XF, NEW rv, NEW ms, NEW mo, NEW st,
         DraftReady(s, cl, D, X, DF, XF, rv, ms, mo, st), s[1][1] = "export", D \in DraftRec,
         NEW st2, st2 = [features |-> D.features, export |-> st.export + 1]
  PROVE  DraftDone(Tail(s), cl, D, X, DF, XF, rv, ms, mo, st2)
<1>1. s \in DraftSteps /\ s # <<>> /\ DraftScript(s)
  BY DEF DraftReady, CallFits
<1> DEFINE z == Tail(s)
<1>2. RestIs(s, z)
  BY <1>1, RestSays
<1>. HIDE DEF z
<1>81. st.export \in Nat /\ st.features \in Seq(Drafts!Face)
  BY DEF DraftReady, DraftValues
<1>82. st2.features = D.features /\ st2.export = st.export + 1
  OBVIOUS
<1>83. D.features \in Seq(Drafts!Face)
  BY DraftKinds
<1>84. st2 \in [features : Seq(Drafts!Face), export : Nat]
  BY <1>81, <1>83
<1>85. mo \in Nat /\ mo <= st.export
  BY DEF DraftReady, DraftValues, TokenFits
<1>86. mo <= st2.export /\ mo # st2.export
  BY <1>81, <1>82, <1>85
<1>3. DraftValues(D, X, DF, XF, rv, ms, mo, st2)
  BY <1>81, <1>82, <1>83, <1>84, <1>85, <1>86, DraftKinds DEF DraftValues, DraftReady
<1>4. TokenFits(D, X, DF, XF, rv, ms, mo, st2)
  BY <1>2, <1>3, <1>81, <1>82, <1>83, <1>84, <1>85, <1>86, DraftKinds DEF DraftReady, TokenFits, CallFits, HeadFits, RestIs, TxFits, Closed, DiscardName, DraftValues
<1>5. ASSUME z # <<>>
      PROVE  HeadFits(z[1], cl, D, X, DF, XF, rv, ms, st2)
  BY <1>2, <1>5 DEF RestIs, HeadFits
<1>6. ASSUME z # <<>>
      PROVE  cl \in CallRec /\ CallFits(z, cl, D, X, DF, XF, rv, ms, st2)
  <2>1. DraftScript(z)
    BY <1>2, <1>3, <1>81, <1>82, <1>83, <1>84, <1>85, <1>86, <1>6, DraftKinds DEF DraftReady, DraftValues, TokenFits, CallFits, RestIs, DiscardName
  <2>2. cl \in CallRec
    BY <1>2, <1>3, <1>81, <1>82, <1>83, <1>84, <1>85, <1>86, <1>6, DraftKinds DEF DraftReady, DraftValues, TokenFits, CallFits, RestIs, DiscardName
  <2>3. D \in DraftRec => Rec(X) + cl.grew <= Len(D.features)
    BY <1>2, <1>3, <1>81, <1>82, <1>83, <1>84, <1>85, <1>86, <1>6, DraftKinds DEF DraftReady, DraftValues, TokenFits, CallFits, RestIs, DiscardName
  <2>4. Has(z, "record") /\ z[1][1] # "newTx" =>
               X \in TxRec /\ X.open /\ (HasStep(z, <<"record", "create">>) \/ X.draft)
    BY <1>2, <1>3, <1>81, <1>82, <1>83, <1>84, <1>85, <1>86, <1>6, DraftKinds DEF DraftReady, DraftValues, TokenFits, CallFits, RestIs, DiscardName
  <2>5. HasStep(z, <<"record", "create">>) \/ Has(z, "newDraft") => cl.grew = 0
    BY <1>2, <1>3, <1>81, <1>82, <1>83, <1>84, <1>85, <1>86, <1>6, DraftKinds DEF DraftReady, DraftValues, TokenFits, CallFits, RestIs, DiscardName
  <2>6. Has(z, "newDraft") => Rec(X) = 0 /\ Rec(XF) = 0
    BY <1>2, <1>3, <1>81, <1>82, <1>83, <1>84, <1>85, <1>86, <1>6, DraftKinds DEF DraftReady, DraftValues, TokenFits, CallFits, RestIs, DiscardName
  <2>7. ~Discards(z) => DF # Drafts!Removed
    BY <1>2, <1>3, <1>81, <1>82, <1>83, <1>84, <1>85, <1>86, <1>6, DraftKinds DEF DraftReady, DraftValues, TokenFits, CallFits, RestIs, DiscardName
  <2>8. Closed(X, rv) \/ z[1][1] = "writeManifest"
    BY <1>2, <1>3, <1>81, <1>82, <1>83, <1>84, <1>85, <1>86, <1>6, DraftKinds DEF DraftReady, DraftValues, TokenFits, CallFits, RestIs, DiscardName, HeadFits, Closed, TxFits
  <2>. QED  BY <1>5, <1>6, <2>1, <2>2, <2>3, <2>4, <2>5, <2>6, <2>7, <2>8 DEF CallFits
<1>7. z = <<>> => Closed(X, rv)
  BY <1>2, <1>3, <1>81, <1>82, <1>83, <1>84, <1>85, <1>86, DraftKinds DEF DraftReady, TokenFits, CallFits, HeadFits, RestIs, Closed, DiscardName
<1>. QED  BY <1>3, <1>4, <1>6, <1>7 DEF DraftDone, z

\* The review gets the draft.
LEMMA ReviewFits ==
  ASSUME NEW s, NEW cl, NEW D, NEW X, NEW DF, NEW XF, NEW rv, NEW ms, NEW mo, NEW st,
         DraftReady(s, cl, D, X, DF, XF, rv, ms, mo, st), s[1][1] = "writeReview", D \in DraftRec,
         NEW rv2, rv2 = [rv EXCEPT !.features = D.features]
  PROVE  DraftDone(Tail(s), cl, D, X, DF, XF, rv2, ms, mo, st)
<1>1. s \in DraftSteps /\ s # <<>> /\ DraftScript(s)
  BY DEF DraftReady, CallFits
<1> DEFINE z == Tail(s)
<1>2. RestIs(s, z)
  BY <1>1, RestSays
<1>. HIDE DEF z
<1>3. DraftValues(D, X, DF, XF, rv2, ms, mo, st)
  BY DraftKinds DEF DraftValues, DraftReady
<1>4. TokenFits(D, X, DF, XF, rv2, ms, mo, st)
  BY <1>2, <1>3, DraftKinds DEF DraftReady, TokenFits, CallFits, HeadFits, RestIs, TxFits, Closed, DiscardName, DraftValues
<1>5. ASSUME z # <<>>
      PROVE  HeadFits(z[1], cl, D, X, DF, XF, rv2, ms, st)
  BY <1>2, <1>3, <1>5, DraftKinds DEF RestIs, HeadFits, DraftReady, DraftValues, TokenFits, CallFits
<1>6. ASSUME z # <<>>
      PROVE  cl \in CallRec /\ CallFits(z, cl, D, X, DF, XF, rv2, ms, st)
  BY <1>2, <1>3, <1>5, <1>6, DraftKinds DEF DraftReady, TokenFits, CallFits, HeadFits, RestIs, TxFits, Closed, DiscardName
<1>7. z = <<>> => Closed(X, rv2)
  BY <1>2, <1>3, DraftKinds DEF DraftReady, TokenFits, CallFits, HeadFits, RestIs, Closed, DiscardName
<1>. QED  BY <1>3, <1>4, <1>6, <1>7 DEF DraftDone, z

\* The review is complete.
LEMMA ManifestFits ==
  ASSUME NEW s, NEW cl, NEW D, NEW X, NEW DF, NEW XF, NEW rv, NEW ms, NEW mo, NEW st,
         DraftReady(s, cl, D, X, DF, XF, rv, ms, mo, st), s[1][1] = "writeManifest",
         NEW rv2, rv2 = [rv EXCEPT !.complete = TRUE]
  PROVE  DraftDone(Tail(s), cl, D, X, DF, XF, rv2, ms, mo, st)
<1>1. s \in DraftSteps /\ s # <<>> /\ DraftScript(s)
  BY DEF DraftReady, CallFits
<1> DEFINE z == Tail(s)
<1>2. RestIs(s, z)
  BY <1>1, RestSays
<1>. HIDE DEF z
<1>3. DraftValues(D, X, DF, XF, rv2, ms, mo, st)
  BY DraftKinds DEF DraftValues, DraftReady
<1>4. TokenFits(D, X, DF, XF, rv2, ms, mo, st)
  BY <1>2, <1>3, DraftKinds DEF DraftReady, TokenFits, CallFits, HeadFits, RestIs, TxFits, Closed, DiscardName, DraftValues
<1>5. ASSUME z # <<>>
      PROVE  HeadFits(z[1], cl, D, X, DF, XF, rv2, ms, st)
  BY <1>2, <1>5 DEF RestIs, HeadFits
<1>6. ASSUME z # <<>>
      PROVE  cl \in CallRec /\ CallFits(z, cl, D, X, DF, XF, rv2, ms, st)
  BY <1>2, <1>3, <1>5, <1>6, DraftKinds DEF DraftReady, TokenFits, CallFits, HeadFits, RestIs, TxFits, Closed, DiscardName
<1>7. z = <<>> => Closed(X, rv2)
  BY <1>2, <1>3, DraftKinds DEF DraftReady, TokenFits, CallFits, HeadFits, RestIs, Closed, DiscardName
<1>. QED  BY <1>3, <1>4, <1>6, <1>7 DEF DraftDone, z

\* The draft is forgotten.
LEMMA ForgetDraftFits ==
  ASSUME NEW s, NEW cl, NEW D, NEW X, NEW DF, NEW XF, NEW rv, NEW ms, NEW mo, NEW st,
         DraftReady(s, cl, D, X, DF, XF, rv, ms, mo, st), s[1][1] = "forgetDraft"
  PROVE  DraftDone(Tail(s), cl, Drafts!Absent, X, DF, XF, rv, ms, mo, st)
<1>1. s \in DraftSteps /\ s # <<>> /\ DraftScript(s)
  BY DEF DraftReady, CallFits
<1> DEFINE z == Tail(s)
<1>2. RestIs(s, z)
  BY <1>1, RestSays
<1>. HIDE DEF z
<1>3. DraftValues(Drafts!Absent, X, DF, XF, rv, ms, mo, st)
  BY DraftKinds DEF DraftValues, DraftReady
<1>4. TokenFits(Drafts!Absent, X, DF, XF, rv, ms, mo, st)
  BY <1>2, <1>3, DraftKinds DEF DraftReady, TokenFits, CallFits, HeadFits, RestIs, TxFits, Closed, DiscardName, DraftValues
<1>5. ASSUME z # <<>>
      PROVE  HeadFits(z[1], cl, Drafts!Absent, X, DF, XF, rv, ms, st)
  BY <1>2, <1>3, <1>5, DraftKinds DEF RestIs, HeadFits, DraftReady, DraftValues, TokenFits, CallFits
<1>6. ASSUME z # <<>>
      PROVE  cl \in CallRec /\ CallFits(z, cl, Drafts!Absent, X, DF, XF, rv, ms, st)
  BY <1>2, <1>3, <1>5, <1>6, DraftKinds DEF DraftReady, TokenFits, CallFits, HeadFits, RestIs, TxFits, Closed, DiscardName
<1>7. z = <<>> => Closed(X, rv)
  BY <1>2, <1>3, DraftKinds DEF DraftReady, TokenFits, CallFits, HeadFits, RestIs, Closed, DiscardName
<1>. QED  BY <1>3, <1>4, <1>6, <1>7 DEF DraftDone, z

\* The draft is removed.
LEMMA RemoveDraftFits ==
  ASSUME NEW s, NEW cl, NEW D, NEW X, NEW DF, NEW XF, NEW rv, NEW ms, NEW mo, NEW st,
         DraftReady(s, cl, D, X, DF, XF, rv, ms, mo, st), s[1][1] = "removeDraft",
         NEW st2, st2 = [st EXCEPT !.features = <<>>]
  PROVE  DraftDone(Tail(s), cl, D, X, Drafts!Removed, XF, rv, ms, mo, st2)
<1>1. s \in DraftSteps /\ s # <<>> /\ DraftScript(s)
  BY DEF DraftReady, CallFits
<1> DEFINE z == Tail(s)
<1>2. RestIs(s, z)
  BY <1>1, RestSays
<1>. HIDE DEF z
<1>81. st.export \in Nat /\ st.features \in Seq(Drafts!Face)
  BY DEF DraftReady, DraftValues
<1>82. st \in [features : Seq(Drafts!Face), export : Nat]
  BY DEF DraftReady, DraftValues
<1>83. st2.features = <<>> /\ st2.export = st.export
  BY <1>82
<1>84. <<>> \in Seq(Drafts!Face)
  OBVIOUS
<1>85. st2 \in [features : Seq(Drafts!Face), export : Nat]
  BY <1>82, <1>84
<1>3. DraftValues(D, X, Drafts!Removed, XF, rv, ms, mo, st2)
  BY <1>81, <1>82, <1>83, <1>84, <1>85, DraftKinds DEF DraftValues, DraftReady
<1>4. TokenFits(D, X, Drafts!Removed, XF, rv, ms, mo, st2)
  BY <1>2, <1>3, <1>81, <1>82, <1>83, <1>84, <1>85, DraftKinds DEF DraftReady, TokenFits, CallFits, HeadFits, RestIs, TxFits, Closed, DiscardName, DraftValues
<1>5. ASSUME z # <<>>
      PROVE  HeadFits(z[1], cl, D, X, Drafts!Removed, XF, rv, ms, st2)
  BY <1>2, <1>5 DEF RestIs, HeadFits
<1>6. ASSUME z # <<>>
      PROVE  cl \in CallRec /\ CallFits(z, cl, D, X, Drafts!Removed, XF, rv, ms, st2)
  BY <1>2, <1>3, <1>81, <1>82, <1>83, <1>84, <1>85, <1>5, <1>6, DraftKinds DEF DraftReady, TokenFits, CallFits, HeadFits, RestIs, TxFits, Closed, DiscardName
<1>7. z = <<>> => Closed(X, rv)
  BY <1>2, <1>3, <1>81, <1>82, <1>83, <1>84, <1>85, DraftKinds DEF DraftReady, TokenFits, CallFits, HeadFits, RestIs, Closed, DiscardName
<1>. QED  BY <1>3, <1>4, <1>6, <1>7 DEF DraftDone, z

\* The transaction is forgotten.
LEMMA ForgetTxFits ==
  ASSUME NEW s, NEW cl, NEW D, NEW X, NEW DF, NEW XF, NEW rv, NEW ms, NEW mo, NEW st,
         DraftReady(s, cl, D, X, DF, XF, rv, ms, mo, st), s[1][1] = "forgetTx"
  PROVE  DraftDone(Tail(s), cl, D, Drafts!Absent, DF, XF, rv, ms, mo, st)
<1>1. s \in DraftSteps /\ s # <<>> /\ DraftScript(s)
  BY DEF DraftReady, CallFits
<1> DEFINE z == Tail(s)
<1>2. RestIs(s, z)
  BY <1>1, RestSays
<1>. HIDE DEF z
<1>81. cl.grew \in Nat
  BY  DEF DraftReady, CallRec
<1>82. Discards(z) /\ ~Has(z, "record") /\ ~Has(z, "newDraft")
  BY <1>2 DEF RestIs, DiscardName
<1>83. Drafts!Absent \notin TxRec /\ Rec(Drafts!Absent) = 0
  BY DraftKinds
<1>84. D \in DraftRec => Rec(X) + cl.grew <= Len(D.features) /\ Len(D.features) \in Nat /\ Rec(X) \in Nat
  BY DraftKinds DEF DraftReady, CallFits
<1>85. D \in DraftRec => 0 + cl.grew <= Len(D.features) /\ 0 <= Len(D.features)
  BY <1>81, <1>84
<1>86. DF \in DraftRec => 0 <= Len(DF.features)
  BY DraftKinds
<1>3. DraftValues(D, Drafts!Absent, DF, XF, rv, ms, mo, st)
  BY <1>81, <1>82, <1>83, <1>84, <1>85, <1>86, DraftKinds DEF DraftValues, DraftReady
<1>4. TokenFits(D, Drafts!Absent, DF, XF, rv, ms, mo, st)
  BY <1>2, <1>3, <1>81, <1>82, <1>83, <1>84, <1>85, <1>86, DraftKinds DEF DraftReady, TokenFits, CallFits, HeadFits, RestIs, TxFits, Closed, DiscardName, DraftValues
<1>5. ASSUME z # <<>>
      PROVE  HeadFits(z[1], cl, D, Drafts!Absent, DF, XF, rv, ms, st)
  BY <1>2, <1>3, <1>81, <1>82, <1>83, <1>84, <1>85, <1>86, <1>5, DraftKinds DEF RestIs, HeadFits, DraftReady, DraftValues, TokenFits, CallFits
<1>6. ASSUME z # <<>>
      PROVE  cl \in CallRec /\ CallFits(z, cl, D, Drafts!Absent, DF, XF, rv, ms, st)
  BY <1>2, <1>3, <1>81, <1>82, <1>83, <1>84, <1>85, <1>86, <1>5, <1>6, DraftKinds DEF DraftReady, TokenFits, CallFits, HeadFits, RestIs, TxFits, Closed, DiscardName
<1>7. z = <<>> => Closed(Drafts!Absent, rv)
  BY <1>2, <1>3, <1>81, <1>82, <1>83, <1>84, <1>85, <1>86, DraftKinds DEF DraftReady, TokenFits, CallFits, HeadFits, RestIs, Closed, DiscardName
<1>. QED  BY <1>3, <1>4, <1>6, <1>7 DEF DraftDone, z

\* The transaction is removed.
LEMMA RemoveTxFits ==
  ASSUME NEW s, NEW cl, NEW D, NEW X, NEW DF, NEW XF, NEW rv, NEW ms, NEW mo, NEW st,
         DraftReady(s, cl, D, X, DF, XF, rv, ms, mo, st), s[1][1] = "removeTx"
  PROVE  DraftDone(Tail(s), cl, D, X, DF, Drafts!Removed, Drafts!NoReview, ms, mo, st)
<1>1. s \in DraftSteps /\ s # <<>> /\ DraftScript(s)
  BY DEF DraftReady, CallFits
<1> DEFINE z == Tail(s)
<1>2. RestIs(s, z)
  BY <1>1, RestSays
<1>. HIDE DEF z
<1>3. DraftValues(D, X, DF, Drafts!Removed, Drafts!NoReview, ms, mo, st)
  BY DraftKinds DEF DraftValues, DraftReady, Drafts!NoReview
<1>4. TokenFits(D, X, DF, Drafts!Removed, Drafts!NoReview, ms, mo, st)
  BY <1>2, <1>3, DraftKinds DEF DraftReady, TokenFits, CallFits, HeadFits, RestIs, TxFits, Closed, DiscardName, DraftValues, Drafts!NoReview
<1>5. ASSUME z # <<>>
      PROVE  HeadFits(z[1], cl, D, X, DF, Drafts!Removed, Drafts!NoReview, ms, st)
  BY <1>2, <1>5 DEF RestIs, HeadFits
<1>6. ASSUME z # <<>>
      PROVE  cl \in CallRec /\ CallFits(z, cl, D, X, DF, Drafts!Removed, Drafts!NoReview, ms, st)
  BY <1>2, <1>3, <1>5, <1>6, DraftKinds DEF DraftReady, TokenFits, CallFits, HeadFits, RestIs, TxFits, Closed, DiscardName
<1>7. z = <<>> => Closed(X, Drafts!NoReview)
  BY <1>2, <1>3, DraftKinds DEF DraftReady, TokenFits, CallFits, HeadFits, RestIs, Closed, DiscardName
<1>. QED  BY <1>3, <1>4, <1>6, <1>7 DEF DraftDone, z

\* The display mesh is made.
LEMMA ConvertFits ==
  ASSUME NEW s, NEW cl, NEW D, NEW X, NEW DF, NEW XF, NEW rv, NEW ms, NEW mo, NEW st,
         DraftReady(s, cl, D, X, DF, XF, rv, ms, mo, st), s[1][1] = "convert",
         NEW ms2, mo = st.export => ms2 = ms, mo # st.export => ms2 = st.features
  PROVE  DraftDone(Tail(s), cl, D, X, DF, XF, rv, ms2, mo, st)
<1>1. s \in DraftSteps /\ s # <<>> /\ DraftScript(s)
  BY DEF DraftReady, CallFits
<1> DEFINE z == Tail(s)
<1>2. RestIs(s, z)
  BY <1>1, RestSays
<1>. HIDE DEF z
<1>81. DF # Drafts!Removed /\ (mo = st.export => ms = st.features)
  BY <1>1, <1>2, DraftKinds DEF DraftReady, DraftValues, TokenFits, CallFits, HeadFits, RestIs, DiscardName
<1>82. ms2 = st.features
  BY <1>1, <1>2, <1>81, DraftKinds DEF DraftReady, DraftValues, TokenFits, CallFits, HeadFits, RestIs, DiscardName
<1>3. DraftValues(D, X, DF, XF, rv, ms2, mo, st)
  BY <1>81, <1>82, DraftKinds DEF DraftValues, DraftReady
<1>4. TokenFits(D, X, DF, XF, rv, ms2, mo, st)
  BY <1>2, <1>3, <1>81, <1>82, DraftKinds DEF DraftReady, TokenFits, CallFits, HeadFits, RestIs, TxFits, Closed, DiscardName, DraftValues
<1>5. ASSUME z # <<>>
      PROVE  HeadFits(z[1], cl, D, X, DF, XF, rv, ms2, st)
  BY <1>2, <1>3, <1>81, <1>82, <1>5, DraftKinds DEF RestIs, HeadFits, DraftReady, DraftValues, TokenFits, CallFits
<1>6. ASSUME z # <<>>
      PROVE  cl \in CallRec /\ CallFits(z, cl, D, X, DF, XF, rv, ms2, st)
  BY <1>2, <1>3, <1>81, <1>82, <1>5, <1>6, DraftKinds DEF DraftReady, TokenFits, CallFits, HeadFits, RestIs, TxFits, Closed, DiscardName
<1>7. z = <<>> => Closed(X, rv)
  BY <1>2, <1>3, <1>81, <1>82, DraftKinds DEF DraftReady, TokenFits, CallFits, HeadFits, RestIs, Closed, DiscardName
<1>. QED  BY <1>3, <1>4, <1>6, <1>7 DEF DraftDone, z

\* The mesh is described.
LEMMA DescribeFits ==
  ASSUME NEW s, NEW cl, NEW D, NEW X, NEW DF, NEW XF, NEW rv, NEW ms, NEW mo, NEW st,
         DraftReady(s, cl, D, X, DF, XF, rv, ms, mo, st), s[1][1] = "describe"
  PROVE  DraftDone(Tail(s), cl, D, X, DF, XF, rv, ms, st.export, st)
<1>1. s \in DraftSteps /\ s # <<>> /\ DraftScript(s)
  BY DEF DraftReady, CallFits
<1> DEFINE z == Tail(s)
<1>2. RestIs(s, z)
  BY <1>1, RestSays
<1>. HIDE DEF z
<1>3. DraftValues(D, X, DF, XF, rv, ms, st.export, st)
  BY DraftKinds DEF DraftValues, DraftReady
<1>4. TokenFits(D, X, DF, XF, rv, ms, st.export, st)
  BY <1>2, <1>3, DraftKinds DEF DraftReady, TokenFits, CallFits, HeadFits, RestIs, TxFits, Closed, DiscardName, DraftValues
<1>5. ASSUME z # <<>>
      PROVE  HeadFits(z[1], cl, D, X, DF, XF, rv, ms, st)
  BY <1>2, <1>5 DEF RestIs, HeadFits
<1>6. ASSUME z # <<>>
      PROVE  cl \in CallRec /\ CallFits(z, cl, D, X, DF, XF, rv, ms, st)
  BY <1>2, <1>3, <1>5, <1>6, DraftKinds DEF DraftReady, TokenFits, CallFits, HeadFits, RestIs, TxFits, Closed, DiscardName
<1>7. z = <<>> => Closed(X, rv)
  BY <1>2, <1>3, DraftKinds DEF DraftReady, TokenFits, CallFits, HeadFits, RestIs, Closed, DiscardName
<1>. QED  BY <1>3, <1>4, <1>6, <1>7 DEF DraftDone, z

-----------------------------------------------------------------------------
(* Drafts: what a request loads, and the script that it begins with.       *)

\* A record in memory, or one that is read into it.
LEMMA LoadFits ==
  ASSUME NEW D, NEW X, NEW DF, NEW XF, NEW rv, NEW ms, NEW mo, NEW st,
         DraftValues(D, X, DF, XF, rv, ms, mo, st), TokenFits(D, X, DF, XF, rv, ms, mo, st), Closed(X, rv),
         NEW D2 \in DraftRec \cup {Drafts!Absent}, NEW X2 \in TxRec \cup {Drafts!Absent},
         D2 = D \/ (D \notin DraftRec /\ D2 = DF), X2 = X \/ (X \notin TxRec /\ X2 = XF)
  PROVE  /\ DraftValues(D2, X2, DF, XF, rv, ms, mo, st) /\ TokenFits(D2, X2, DF, XF, rv, ms, mo, st)
         /\ Closed(X2, rv)
<1>1. DraftValues(D2, X2, DF, XF, rv, ms, mo, st)
  BY DEF DraftValues
<1>2. Rec(X2) = Rec(X) \/ Rec(X2) = Rec(XF)
  OBVIOUS
<1>3. D2 \in DraftRec => Rec(X) <= Len(D2.features) /\ Rec(XF) <= Len(D2.features) /\ DF # Drafts!Removed
  BY DraftKinds DEF TokenFits
<1>4. TxFits(X2) /\ TxFits(XF)
  BY DEF TokenFits
<1>5. X2 \in TxRec /\ XF \in TxRec => (XF.draft => X2.draft) /\ (X2.open => XF.open)
  BY DEF TokenFits
<1>6. X2 \in TxRec /\ ~X2.open => X2.recorded <= Len(rv.features) /\ rv.complete
  BY DEF TokenFits, Closed
<1>7. TokenFits(D2, X2, DF, XF, rv, ms, mo, st)
  BY <1>2, <1>3, <1>4, <1>5, <1>6 DEF TokenFits
<1>. QED  BY <1>1, <1>6, <1>7 DEF Closed

LEMMA ReadableIs ==
  /\ \A x \in DraftRec \cup NoFile : Drafts!Readable(x) <=> x \in DraftRec
  /\ \A x \in TxRec \cup NoFile : Drafts!Readable(x) <=> x \in TxRec
BY DraftKinds DEF Drafts!Readable

\* A request r that may begin, with what it loads and its script s.
Started(r, tx, d, s, X2, D2, D, X, DF, XF) ==
  /\ r \in Drafts!Offered("viewer") /\ Drafts!CanStart(r, tx, d)
  /\ tx = IF Drafts!Readable(X) THEN X ELSE XF
  /\ d = IF Drafts!Readable(D) THEN D ELSE DF
  /\ s = IF r.direct THEN Drafts!DirectScript(r.op) ELSE Drafts!TransactionScript(r.op, tx)
  /\ X2 = IF r.direct THEN X ELSE tx
  /\ D2 = IF r.direct \/ r.op # "discard" THEN d ELSE D

\* What may be asked of a draft: what it is refused without says what is there.
LEMMA RequestFits ==
  ASSUME NEW D, NEW X, NEW DF, NEW XF, NEW rv, NEW ms, NEW mo, NEW st,
         DraftValues(D, X, DF, XF, rv, ms, mo, st), TokenFits(D, X, DF, XF, rv, ms, mo, st), Closed(X, rv),
         "viewer" \in Host, NEW r, NEW tx, NEW d, NEW s, NEW X2, NEW D2,
         Started(r, tx, d, s, X2, D2, D, X, DF, XF),
         NEW cl, s # <<>> => cl \in CallRec /\ cl.grew = 0
  PROVE  s \in DraftSteps /\ DraftDone(s, cl, D2, X2, DF, XF, rv, ms, mo, st)
<1> DEFINE o == r.op
           new == tx = Drafts!Absent /\ d = Drafts!Absent
<1>0. /\ r \in Drafts!Offered("viewer") /\ Drafts!CanStart(r, tx, d)
      /\ tx = IF Drafts!Readable(X) THEN X ELSE XF
      /\ d = IF Drafts!Readable(D) THEN D ELSE DF
      /\ s = IF r.direct THEN Drafts!DirectScript(r.op) ELSE Drafts!TransactionScript(r.op, tx)
      /\ X2 = IF r.direct THEN X ELSE tx
      /\ D2 = IF r.direct \/ r.op # "discard" THEN d ELSE D
  BY DEF Started
<1>1. \/ r.direct = FALSE /\ o \in Drafts!TransactionTools \cup Drafts!ViewerTools
      \/ r.direct = TRUE /\ o \in Drafts!DirectTools
  BY <1>0 DEF Drafts!Offered, ToolsetOf
<1>2. /\ D \in DraftRec \cup {Drafts!Absent} /\ X \in TxRec \cup {Drafts!Absent}
      /\ DF \in DraftRec \cup NoFile /\ XF \in TxRec \cup NoFile
  BY DEF DraftValues
<1>3. /\ Drafts!Readable(X) <=> X \in TxRec
      /\ Drafts!Readable(D) <=> D \in DraftRec
      /\ Drafts!Readable(tx) <=> tx \in TxRec
      /\ Drafts!Readable(d) <=> d \in DraftRec
  BY <1>0, <1>2, ReadableIs, DraftKinds
<1>4. /\ tx = Drafts!Absent => X = Drafts!Absent /\ XF = Drafts!Absent
      /\ d = Drafts!Absent => D = Drafts!Absent /\ DF = Drafts!Absent
  BY <1>0, <1>2, <1>3, DraftKinds
<1>5. /\ o = "begin" => new
      /\ o = "create" /\ r.direct => new
      /\ o = "create" /\ ~r.direct => tx \in TxRec /\ tx.open /\ ~tx.draft /\ d = Drafts!Absent
      /\ o = "panel_command" => new \/ (tx \in TxRec /\ tx.open /\ tx.draft /\ d \in DraftRec)
      /\ o = "discard" /\ r.direct => d \in DraftRec
      /\ o = "discard" /\ ~r.direct => tx \in TxRec /\ tx.open
      /\ o \in {"measure", "display"} => tx \in TxRec /\ tx.draft /\ d \in DraftRec
      /\ o \notin {"begin", "create", "panel_command", "discard", "measure", "display"} =>
           d \in DraftRec /\ (~r.direct => tx \in TxRec /\ tx.open /\ tx.draft)
  BY <1>0, <1>3 DEF Drafts!CanStart, Drafts!_require_open_transaction, Drafts!_require_open_transaction_draft
<1>6. D2 = D \/ (D \notin DraftRec /\ D2 = DF)
  BY <1>0, <1>3
<1>7. X2 = X \/ (X \notin TxRec /\ X2 = XF)
  BY <1>0, <1>3
<1>8. ~r.direct /\ o \in {"begin", "create", "panel_command", "discard", "measure", "display"} =>
        tx \in TxRec \cup {Drafts!Absent}
  BY <1>5
<1>9. tx \in TxRec \cup {Drafts!Absent} \/ r.direct
  BY <1>1, <1>5, <1>8
<1>10. X2 \in TxRec \cup {Drafts!Absent}
  BY <1>0, <1>1, <1>2, <1>9
<1>11. D2 \in DraftRec \cup {Drafts!Absent}
  BY <1>0, <1>1, <1>2, <1>5
<1>12. /\ DraftValues(D2, X2, DF, XF, rv, ms, mo, st) /\ TokenFits(D2, X2, DF, XF, rv, ms, mo, st)
       /\ Closed(X2, rv)
  BY <1>6, <1>7, <1>10, <1>11, LoadFits
<1>13. o # "discard" => DF # Drafts!Removed
  BY <1>0, <1>1, <1>2, <1>3, <1>4, <1>5, DraftKinds DEF TokenFits
<1>14. CASE r.direct
  <2>1. /\ s \in DraftSteps /\ s # <<>> /\ DraftScript(s) /\ s[1][1] \in FirstName \ {"newTx"}
        /\ ~Has(s, "record") /\ (Has(s, "newDraft") => o = "create") /\ (o = "discard" => Discards(s))
    BY <1>0, <1>1, <1>14, DirectScripts
  <2>2. Has(s, "newDraft") => Rec(X2) = 0 /\ Rec(XF) = 0
    BY <1>0, <1>4, <1>5, <1>14, <2>1, DraftKinds
  <2>3. HeadFits(s[1], cl, D2, X2, DF, XF, rv, ms, st)
    <3>1. s[1] = <<"record", "accept">> => s[1][1] = "record"
      BY ONLY TRUE
    <3>. QED  BY <2>1, <3>1 DEF HeadFits, FirstName
  <2>4. D2 \in DraftRec => Rec(X2) + 0 <= Len(D2.features)
    BY <1>12, DraftKinds DEF TokenFits
  <2>5. CallFits(s, cl, D2, X2, DF, XF, rv, ms, st)
    BY <1>12, <1>13, <2>1, <2>2, <2>3, <2>4 DEF CallFits
  <2>. QED  BY <1>12, <2>1, <2>5 DEF DraftDone
<1>15. CASE ~r.direct /\ o = "measure"
  <2>1. s = <<>>
    BY <1>0, <1>15 DEF Drafts!TransactionScript, Drafts!Edits, Drafts!AddFeature, Drafts!Patterns
  <2>2. s \in DraftSteps
    BY <2>1, EmptySeq DEF DraftSteps
  <2>. QED  BY <1>12, <2>1, <2>2 DEF DraftDone
<1>16. CASE ~r.direct /\ o # "measure"
  <2>1. o \in {"display", "discard"} => tx \in TxRec
    BY <1>5, <1>16
  <2>2. Asked(s, o, tx)
    BY <1>0, <1>1, <1>16, <2>1, TransactionScripts
  <2>3. s \in DraftSteps /\ s # <<>> /\ DraftScript(s) /\ s[1][1] \in FirstName
    BY <2>2 DEF Asked
  <2>4. X2 = tx
    BY <1>0, <1>16
  <2>5. s[1][1] = "newTx" => tx = Drafts!Absent
    BY <1>3, <1>5, <2>2 DEF Asked
  <2>6. Has(s, "newDraft") => Rec(X2) = 0 /\ Rec(XF) = 0
    <3>1. CASE tx = Drafts!Absent
      BY <1>4, <2>4, <3>1, DraftKinds
    <3>2. CASE o = "create"
      <4>1. tx \in TxRec /\ ~tx.draft
        BY <1>5, <1>16, <3>2
      <4>2. Rec(X2) = 0
        BY <1>12, <2>4, <4>1, DraftKinds DEF TokenFits, TxFits
      <4>3. XF \in TxRec => ~XF.draft
        BY <1>12, <2>4, <4>1 DEF TokenFits
      <4>4. Rec(XF) = 0
        BY <1>12, <4>3, DraftKinds DEF TokenFits, TxFits
      <4>. QED  BY <4>2, <4>4
    <3>. QED  BY <1>3, <1>5, <2>2, <3>1, <3>2 DEF Asked
  <2>7. Has(s, "record") /\ s[1][1] # "newTx" =>
          X2 \in TxRec /\ X2.open /\ (HasStep(s, <<"record", "create">>) \/ X2.draft)
    <3>1. ASSUME Has(s, "record"), s[1][1] # "newTx"
          PROVE  X2 \in TxRec /\ X2.open /\ (HasStep(s, <<"record", "create">>) \/ X2.draft)
      <4>1. o \notin {"begin", "discard"}
        BY <2>2, <3>1 DEF Asked
      <4>2. CASE o = "create"
        BY <1>5, <1>16, <2>2, <2>4, <4>2 DEF Asked
      <4>3. CASE o = "display"
        BY <1>5, <1>12, <2>2, <2>4, <3>1, <4>3 DEF Asked, TokenFits, TxFits
      <4>4. CASE o = "panel_command"
        BY <1>3, <1>5, <2>2, <2>4, <3>1, <4>4, DraftKinds DEF Asked
      <4>. QED  BY <1>5, <1>16, <2>4, <4>1, <4>2, <4>3, <4>4
    <3>. QED  BY <3>1
  <2>8. ~Discards(s) => DF # Drafts!Removed
    BY <1>13, <2>2 DEF Asked
  <2>9. HeadFits(s[1], cl, D2, X2, DF, XF, rv, ms, st)
    <3>1. s[1] = <<"record", "accept">> => s[1][1] = "record"
      BY ONLY TRUE
    <3>2. s[1][1] = "newTx" => XF \notin TxRec
      BY <1>4, <2>5, DraftKinds
    <3>. QED  BY <2>3, <3>1, <3>2 DEF HeadFits, FirstName
  <2>10. D2 \in DraftRec => Rec(X2) + 0 <= Len(D2.features)
    BY <1>12, DraftKinds DEF TokenFits
  <2>11. CallFits(s, cl, D2, X2, DF, XF, rv, ms, st)
    BY <1>12, <2>3, <2>6, <2>7, <2>8, <2>9, <2>10 DEF CallFits
  <2>. QED  BY <1>12, <2>3, <2>11 DEF DraftDone
<1>. QED  BY <1>14, <1>15, <1>16

-----------------------------------------------------------------------------
(* Drafts: a step of the only client concerns one token.                   *)

\* What a function is elsewhere.
LEMMA SetAt ==
  ASSUME NEW T, NEW S, NEW f \in [T -> S], NEW t \in T
  PROVE  /\ f = [f EXCEPT ![t] = f[t]]
         /\ \A x \in S : [f EXCEPT ![t] = x] \in [T -> S]
         /\ \A x : [f EXCEPT ![t] = x][t] = x /\ \A u \in T : u # t => [f EXCEPT ![t] = x][u] = f[u]
OBVIOUS

LEMMA SetInStore ==
  ASSUME NEW S, NEW f \in [Host -> [Token -> S]], NEW t \in Token, "viewer" \in Host
  PROVE  /\ f = [f EXCEPT !["viewer"][t] = f["viewer"][t]]
         /\ \A x \in S : [f EXCEPT !["viewer"][t] = x] \in [Host -> [Token -> S]]
         /\ \A x : /\ [f EXCEPT !["viewer"][t] = x]["viewer"][t] = x
                   /\ \A u \in Token : u # t => [f EXCEPT !["viewer"][t] = x]["viewer"][u] = f["viewer"][u]
OBVIOUS

LEMMA StepKeeps ==
  ASSUME NEW c, Client = {c}, "viewer" \in Host, DraftInv, NEW t \in Token,
         NEW z \in DraftSteps, NEW cl, NEW D, NEW X, NEW DF, NEW XF, NEW rv, NEW ms, NEW mo, NEW st,
         todo[c] = <<>> \/ call[c].token = t,
         draftOf' = [draftOf EXCEPT !["viewer"][t] = D], txOf' = [txOf EXCEPT !["viewer"][t] = X],
         draftFile' = [draftFile EXCEPT ![t] = DF], txFile' = [txFile EXCEPT ![t] = XF],
         review' = [review EXCEPT ![t] = rv], mesh' = [mesh EXCEPT ![t] = ms],
         meshOf' = [meshOf EXCEPT ![t] = mo], stepFile' = [stepFile EXCEPT ![t] = st],
         todo' = [todo EXCEPT ![c] = z], call' = [call EXCEPT ![c] = cl],
         DraftDone(z, cl, D, X, DF, XF, rv, ms, mo, st),
         cl \in CallRec \cup {Drafts!Absent}, z # <<>> => cl.token = t
  PROVE  DraftInv'
<1>1. DraftTyped
  BY DEF DraftInv
<1>2. DraftValues(D, X, DF, XF, rv, ms, mo, st)
  BY DEF DraftDone
<1>3. /\ draftOf' \in [Host -> [Token -> DraftRec \cup {Drafts!Absent}]]
      /\ draftOf'["viewer"][t] = D
      /\ \A u \in Token : u # t => draftOf'["viewer"][u] = draftOf["viewer"][u]
  BY <1>1, <1>2, SetInStore DEF DraftTyped, DraftValues
<1>4. /\ txOf' \in [Host -> [Token -> TxRec \cup {Drafts!Absent}]]
      /\ txOf'["viewer"][t] = X
      /\ \A u \in Token : u # t => txOf'["viewer"][u] = txOf["viewer"][u]
  BY <1>1, <1>2, SetInStore DEF DraftTyped, DraftValues
<1>5. /\ draftFile' \in [Token -> DraftRec \cup NoFile] /\ draftFile'[t] = DF
      /\ \A u \in Token : u # t => draftFile'[u] = draftFile[u]
  BY <1>1, <1>2, SetAt DEF DraftTyped, DraftValues
<1>6. /\ txFile' \in [Token -> TxRec \cup NoFile] /\ txFile'[t] = XF
      /\ \A u \in Token : u # t => txFile'[u] = txFile[u]
  BY <1>1, <1>2, SetAt DEF DraftTyped, DraftValues
<1>7. /\ review' \in [Token -> [features : Seq(Drafts!Face), complete : BOOLEAN]] /\ review'[t] = rv
      /\ \A u \in Token : u # t => review'[u] = review[u]
  BY <1>1, <1>2, SetAt DEF DraftTyped, DraftValues
<1>8. /\ mesh' \in [Token -> Seq(Drafts!Face)] /\ mesh'[t] = ms
      /\ \A u \in Token : u # t => mesh'[u] = mesh[u]
  BY <1>1, <1>2, SetAt DEF DraftTyped, DraftValues
<1>9. /\ meshOf' \in [Token -> Nat] /\ meshOf'[t] = mo
      /\ \A u \in Token : u # t => meshOf'[u] = meshOf[u]
  BY <1>1, <1>2, SetAt DEF DraftTyped, DraftValues
<1>10. /\ stepFile' \in [Token -> [features : Seq(Drafts!Face), export : Nat]] /\ stepFile'[t] = st
       /\ \A u \in Token : u # t => stepFile'[u] = stepFile[u]
  BY <1>1, <1>2, SetAt DEF DraftTyped, DraftValues
<1>11. c \in Client /\ \A e \in Client : e = c
  OBVIOUS
<1>12. cl \in CallRec \cup {Drafts!Absent} /\ (z # <<>> => cl \in CallRec)
  BY DEF DraftDone
<1>13. todo' \in [Client -> DraftSteps] /\ todo'[c] = z
  BY <1>1, <1>11, SetAt DEF DraftTyped
<1>14. call' \in [Client -> CallRec \cup {Drafts!Absent}] /\ call'[c] = cl
  BY <1>1, <1>11, <1>12, SetAt DEF DraftTyped
<1>15. DraftTyped'
  BY <1>3, <1>4, <1>5, <1>6, <1>7, <1>8, <1>9, <1>10, <1>13, <1>14 DEF DraftTyped
<1>16. ASSUME NEW u \in Token
       PROVE  TokenFits(draftOf["viewer"][u], txOf["viewer"][u], draftFile[u], txFile[u], review[u], mesh[u],
                        meshOf[u], stepFile[u])'
  <2>1. CASE u = t
    BY <1>3, <1>4, <1>5, <1>6, <1>7, <1>8, <1>9, <1>10, <2>1 DEF DraftDone
  <2>2. CASE u # t
    <3>1. TokenFits(draftOf["viewer"][u], txOf["viewer"][u], draftFile[u], txFile[u], review[u], mesh[u],
                    meshOf[u], stepFile[u])
      BY DEF DraftInv
    <3>. QED  BY <1>3, <1>4, <1>5, <1>6, <1>7, <1>8, <1>9, <1>10, <2>2, <3>1
  <2>. QED  BY <2>1, <2>2
<1>17. ASSUME NEW e \in Client, todo'[e] # <<>>
       PROVE  /\ call'[e] \in CallRec
              /\ LET u == call'[e].token
                 IN  CallFits(todo'[e], call'[e], draftOf'["viewer"][u], txOf'["viewer"][u], draftFile'[u],
                              txFile'[u], review'[u], mesh'[u], stepFile'[u])
  <2>1. e = c /\ z # <<>> /\ call'[e] = cl /\ todo'[e] = z /\ cl.token = t
    BY <1>11, <1>13, <1>14, <1>17
  <2>2. CallFits(z, cl, D, X, DF, XF, rv, ms, st)
    BY <2>1 DEF DraftDone
  <2>. QED  BY <1>3, <1>4, <1>5, <1>6, <1>7, <1>8, <1>10, <1>12, <2>1, <2>2
<1>18. ASSUME NEW u \in Token, \A e \in Client : todo'[e] = <<>> \/ call'[e].token # u
       PROVE  Closed(txOf'["viewer"][u], review'[u])
  <2>1. CASE u = t
    <3>1. z = <<>>
      BY <1>11, <1>13, <1>14, <1>18, <2>1
    <3>. QED  BY <1>4, <1>7, <2>1, <3>1 DEF DraftDone
  <2>2. CASE u # t
    <3>1. \A e \in Client : todo[e] = <<>> \/ call[e].token # u
      BY <1>11, <2>2
    <3>2. Closed(txOf["viewer"][u], review[u])
      BY <3>1 DEF DraftInv
    <3>. QED  BY <1>4, <1>7, <2>2, <3>2
  <2>. QED  BY <2>1, <2>2
<1>. QED  BY <1>15, <1>16, <1>17, <1>18 DEF DraftInv

\* The token of a request that is under way, and what the invariant says of it.
LEMMA UnderWay ==
  ASSUME NEW c \in Client, DraftInv, "viewer" \in Host, todo[c] # <<>>
  PROVE  LET t == call[c].token IN
         /\ t \in Token /\ call[c] \in CallRec /\ todo[c] \in DraftSteps /\ DraftScript(todo[c])
         /\ DraftReady(todo[c], call[c], draftOf["viewer"][t], txOf["viewer"][t], draftFile[t], txFile[t], review[t],
                   mesh[t], meshOf[t], stepFile[t])
<1> DEFINE t == call[c].token
<1>1. call[c] \in CallRec /\ t \in Token
  BY DEF DraftInv, CallRec
<1>2. todo[c] \in DraftSteps
  BY DEF DraftInv, DraftTyped
<1>3. CallFits(todo[c], call[c], draftOf["viewer"][t], txOf["viewer"][t], draftFile[t], txFile[t], review[t],
               mesh[t], stepFile[t])
  BY DEF DraftInv
<1>4. TokenFits(draftOf["viewer"][t], txOf["viewer"][t], draftFile[t], txFile[t], review[t], mesh[t], meshOf[t],
                stepFile[t])
  BY <1>1 DEF DraftInv
<1>. HIDE DEF t
<1>5. DraftValues(draftOf["viewer"][t], txOf["viewer"][t], draftFile[t], txFile[t], review[t], mesh[t], meshOf[t],
                  stepFile[t])
  BY <1>1 DEF DraftInv, DraftTyped, DraftValues
<1>. QED  BY <1>1, <1>2, <1>3, <1>4, <1>5 DEF DraftReady, CallFits, t

\* What is left as it is.
LEMMA LeftAlone ==
  ASSUME DraftInv, NEW t \in Token, "viewer" \in Host
  PROVE  /\ UNCHANGED draftOf => draftOf' = [draftOf EXCEPT !["viewer"][t] = draftOf["viewer"][t]]
         /\ UNCHANGED txOf => txOf' = [txOf EXCEPT !["viewer"][t] = txOf["viewer"][t]]
         /\ UNCHANGED draftFile => draftFile' = [draftFile EXCEPT ![t] = draftFile[t]]
         /\ UNCHANGED txFile => txFile' = [txFile EXCEPT ![t] = txFile[t]]
         /\ UNCHANGED review => review' = [review EXCEPT ![t] = review[t]]
         /\ UNCHANGED mesh => mesh' = [mesh EXCEPT ![t] = mesh[t]]
         /\ UNCHANGED meshOf => meshOf' = [meshOf EXCEPT ![t] = meshOf[t]]
         /\ UNCHANGED stepFile => stepFile' = [stepFile EXCEPT ![t] = stepFile[t]]
<1>1. DraftTyped
  BY DEF DraftInv
<1>2. UNCHANGED draftOf => draftOf' = [draftOf EXCEPT !["viewer"][t] = draftOf["viewer"][t]]
  BY <1>1, SetInStore DEF DraftTyped
<1>3. UNCHANGED txOf => txOf' = [txOf EXCEPT !["viewer"][t] = txOf["viewer"][t]]
  BY <1>1, SetInStore DEF DraftTyped
<1>4. /\ draftFile = [draftFile EXCEPT ![t] = draftFile[t]] /\ txFile = [txFile EXCEPT ![t] = txFile[t]]
      /\ review = [review EXCEPT ![t] = review[t]] /\ mesh = [mesh EXCEPT ![t] = mesh[t]]
      /\ meshOf = [meshOf EXCEPT ![t] = meshOf[t]] /\ stepFile = [stepFile EXCEPT ![t] = stepFile[t]]
  BY <1>1, SetAt DEF DraftTyped
<1>. QED  BY <1>2, <1>3, <1>4

LEMMA Taken ==
  ASSUME NEW c, Client = {c}, "viewer" \in Host, DraftInv, NEW name, Drafts!Takes(c, name)
  PROVE  LET s == todo[c]  t == call[c].token IN
         /\ s # <<>> /\ s[1][1] = name /\ todo' = [todo EXCEPT ![c] = Tail(s)]
         /\ s \in DraftSteps /\ Tail(s) \in DraftSteps /\ (Tail(s) = <<>> <=> Len(s) = 1) /\ DraftScript(s)
         /\ t \in Token /\ call[c] \in CallRec
         /\ DraftReady(s, call[c], draftOf["viewer"][t], txOf["viewer"][t], draftFile[t], txFile[t], review[t],
                   mesh[t], meshOf[t], stepFile[t])
         /\ Drafts!for(c) = s[1][2] /\ Drafts!token(c) = t /\ HostOf[c] = "viewer"
         /\ Drafts!draft(c) = draftOf["viewer"][t] /\ Drafts!transaction(c) = txOf["viewer"][t]
<1> DEFINE s == todo[c]
           t == call[c].token
<1>1. c \in Client /\ s # <<>> /\ Head(s)[1] = name /\ todo' = [todo EXCEPT ![c] = Tail(s)]
  BY DEF Drafts!Takes
<1>2. /\ t \in Token /\ call[c] \in CallRec /\ s \in DraftSteps /\ DraftScript(s)
      /\ DraftReady(s, call[c], draftOf["viewer"][t], txOf["viewer"][t], draftFile[t], txFile[t], review[t],
                mesh[t], meshOf[t], stepFile[t])
  BY <1>1, UnderWay
<1>3. Tail(s) \in DraftSteps /\ (Tail(s) = <<>> <=> Len(s) = 1) /\ Head(s) = s[1]
  BY <1>1, <1>2, RestOfScript
<1>4. HostOf[c] = "viewer"
  BY <1>1 DEF HostOf
<1>5. /\ Drafts!for(c) = s[1][2] /\ Drafts!token(c) = t
      /\ Drafts!draft(c) = draftOf["viewer"][t] /\ Drafts!transaction(c) = txOf["viewer"][t]
  BY <1>3, <1>4 DEF Drafts!for, Drafts!token, Drafts!draft, Drafts!transaction
<1>. QED  BY <1>1, <1>2, <1>3, <1>4, <1>5

\* A step that is taken, and what becomes of the token and of the request.
LEMMA StepTaken ==
  ASSUME NEW c, Client = {c}, "viewer" \in Host, DraftInv, NEW name, Drafts!Takes(c, name),
         NEW t, t = call[c].token,
         NEW cl \in CallRec, NEW D, NEW X, NEW DF, NEW XF, NEW rv, NEW ms, NEW mo, NEW st,
         draftOf' = [draftOf EXCEPT !["viewer"][t] = D], txOf' = [txOf EXCEPT !["viewer"][t] = X],
         draftFile' = [draftFile EXCEPT ![t] = DF], txFile' = [txFile EXCEPT ![t] = XF],
         review' = [review EXCEPT ![t] = rv], mesh' = [mesh EXCEPT ![t] = ms],
         meshOf' = [meshOf EXCEPT ![t] = mo], stepFile' = [stepFile EXCEPT ![t] = st],
         call' = [call EXCEPT ![c] = cl] \/ call' = [call EXCEPT ![c] = IF Len(todo[c]) = 1 THEN Drafts!Absent ELSE cl],
         cl.token = t, DraftDone(Tail(todo[c]), cl, D, X, DF, XF, rv, ms, mo, st)
  PROVE  DraftInv'
<1> DEFINE z == Tail(todo[c])
           new == IF call' = [call EXCEPT ![c] = cl] THEN cl ELSE Drafts!Absent
<1>1. z \in DraftSteps /\ t \in Token /\ todo' = [todo EXCEPT ![c] = z] /\ (z = <<>> <=> Len(todo[c]) = 1)
  BY Taken
<1>2. call' = [call EXCEPT ![c] = new] /\ (z # <<>> => new = cl)
  BY <1>1
<1>. HIDE DEF z
<1>3. DraftDone(z, cl, D, X, DF, XF, rv, ms, mo, st)
  BY DEF z
<1>4. new \in CallRec \cup {Drafts!Absent} /\ (z # <<>> => new.token = t)
  BY <1>2
<1>. HIDE DEF new
<1>5. DraftDone(z, new, D, X, DF, XF, rv, ms, mo, st)
  BY <1>2, <1>3 DEF DraftDone
<1>6. todo[c] = <<>> \/ call[c].token = t
  OBVIOUS
<1>. QED  BY <1>1, <1>2, <1>4, <1>5, <1>6, StepKeeps

\* A new part.
LEMMA NewPartKeeps ==
  ASSUME NEW c, Client = {c}, "viewer" \in Host, DraftInv, Drafts!NewPart(c)
  PROVE  DraftInv'
<1> DEFINE s == todo[c]
           t == call[c].token
           D == draftOf["viewer"][t]
           X == txOf["viewer"][t]
           DF == draftFile[t]
           XF == txFile[t]
           rv == review[t]
           ms == mesh[t]
           mo == meshOf[t]
           st == stepFile[t]
           cl == call[c]
<1>1. Drafts!Takes(c, "newDraft")
  BY DEF Drafts!NewPart
<1>2. /\ s \in DraftSteps /\ s # <<>> /\ s[1][1] = "newDraft" /\ t \in Token /\ cl \in CallRec
      /\ DraftReady(s, cl, D, X, DF, XF, rv, ms, mo, st)
      /\ Drafts!for(c) = s[1][2] /\ Drafts!token(c) = t /\ HostOf[c] = "viewer"
      /\ Drafts!draft(c) = D /\ Drafts!transaction(c) = X
  BY <1>1, Taken
<1>3. DraftTyped
  BY DEF DraftInv
<1>4. /\ txOf' = [txOf EXCEPT !["viewer"][t] = X]
      /\ draftFile' = [draftFile EXCEPT ![t] = DF]
      /\ txFile' = [txFile EXCEPT ![t] = XF]
      /\ review' = [review EXCEPT ![t] = rv]
      /\ mesh' = [mesh EXCEPT ![t] = ms]
      /\ meshOf' = [meshOf EXCEPT ![t] = mo]
      /\ stepFile' = [stepFile EXCEPT ![t] = st]
  BY <1>2, LeftAlone DEF Drafts!NewPart, Drafts!reviewed, Drafts!memory
<1>5. /\ draftOf' = [draftOf EXCEPT !["viewer"][t] = Drafts!NewDraft]
  BY <1>2 DEF Drafts!NewPart
<1>. HIDE DEF s, t, D, X, DF, XF, rv, ms, mo, st, cl
<1>6. call' = [call EXCEPT ![c] = cl] \/ call' = [call EXCEPT ![c] = IF Len(todo[c]) = 1 THEN Drafts!Absent ELSE cl]
  BY <1>2 DEF Drafts!NewPart, Drafts!Goes, cl, t
<1>7. cl \in CallRec /\ cl.token = t
  BY <1>2 DEF cl, t
<1>8. DraftDone(Tail(s), cl, Drafts!NewDraft, X, DF, XF, rv, ms, mo, st)
  BY <1>2, <1>7, NewDraftFits
<1>. QED  BY <1>1, <1>4, <1>5, <1>6, <1>7, <1>8, StepTaken DEF s, t

\* A check that passes.
LEMMA CheckKeeps ==
  ASSUME NEW c, Client = {c}, "viewer" \in Host, DraftInv, Drafts!Check(c)
  PROVE  DraftInv'
<1> DEFINE s == todo[c]
           t == call[c].token
           D == draftOf["viewer"][t]
           X == txOf["viewer"][t]
           DF == draftFile[t]
           XF == txFile[t]
           rv == review[t]
           ms == mesh[t]
           mo == meshOf[t]
           st == stepFile[t]
           cl == call[c]
<1>1. Drafts!Takes(c, "check")
  BY DEF Drafts!Check
<1>2. /\ s \in DraftSteps /\ s # <<>> /\ s[1][1] = "check" /\ t \in Token /\ cl \in CallRec
      /\ DraftReady(s, cl, D, X, DF, XF, rv, ms, mo, st)
      /\ Drafts!for(c) = s[1][2] /\ Drafts!token(c) = t /\ HostOf[c] = "viewer"
      /\ Drafts!draft(c) = D /\ Drafts!transaction(c) = X
  BY <1>1, Taken
<1>3. DraftTyped
  BY DEF DraftInv
<1>4. /\ draftOf' = [draftOf EXCEPT !["viewer"][t] = D]
      /\ txOf' = [txOf EXCEPT !["viewer"][t] = X]
      /\ draftFile' = [draftFile EXCEPT ![t] = DF]
      /\ txFile' = [txFile EXCEPT ![t] = XF]
      /\ review' = [review EXCEPT ![t] = rv]
      /\ mesh' = [mesh EXCEPT ![t] = ms]
      /\ meshOf' = [meshOf EXCEPT ![t] = mo]
      /\ stepFile' = [stepFile EXCEPT ![t] = st]
  BY <1>2, LeftAlone DEF Drafts!Check, Drafts!reviewed, Drafts!memory
<1>5. TRUE
  OBVIOUS
<1>. HIDE DEF s, t, D, X, DF, XF, rv, ms, mo, st, cl
<1>6. call' = [call EXCEPT ![c] = cl] \/ call' = [call EXCEPT ![c] = IF Len(todo[c]) = 1 THEN Drafts!Absent ELSE cl]
  BY <1>2 DEF Drafts!Check, Drafts!Goes, cl, t
<1>7. cl \in CallRec /\ cl.token = t
  BY <1>2 DEF cl, t
<1>8. DraftDone(Tail(s), cl, D, X, DF, XF, rv, ms, mo, st)
  BY <1>2, <1>7, CheckFits
<1>. QED  BY <1>1, <1>4, <1>5, <1>6, <1>7, <1>8, StepTaken DEF s, t

\* An operation on a draft adds to its features.
LEMMA EditedGrows ==
  ASSUME NEW o \in Drafts!Edits, NEW f \in Drafts!Face, NEW old \in Seq(Drafts!Face)
  PROVE  LET new == Drafts!Edited(o, old, f) IN new \in Seq(Drafts!Face) /\ Len(new) >= Len(old)
<1> DEFINE new == Drafts!Edited(o, old, f)
           found == {k \in DOMAIN old : old[k] = f}
           added == [i \in 1 .. Drafts!Cardinality(found) |-> Drafts!Opposite(f)]
<1>1. o \in {"add_feature", "add_louver_pattern", "mirror_features", "set_panel_thickness"}
  BY DEF Drafts!Edits, Drafts!AddFeature, Drafts!Patterns
<1>2. Drafts!Cardinality(found) \in Nat
  <2>1. DOMAIN old = 1 .. Len(old) /\ Len(old) \in Nat
    OBVIOUS
  <2>2. IsFiniteSet(found)
    <3>1. IsFiniteSet(1 .. Len(old)) /\ found \subseteq 1 .. Len(old)
      BY <2>1, FS_Interval
    <3>. HIDE DEF found
    <3>. QED  BY <3>1, FS_Subset
  <2>3. Cardinality(found) \in Nat
    BY <2>2, FS_CardinalityType
  <2>. HIDE DEF found
  <2>4. Drafts!Cardinality(found) = Cardinality(found)
    BY DEF Drafts!Cardinality, Cardinality
  <2>. QED  BY <2>3, <2>4
<1>3. Drafts!Opposite(f) \in Drafts!Face
  <2>1. \E g \in Drafts!Face : g # f
    BY DEF Drafts!Face
  <2>. QED  BY <2>1 DEF Drafts!Opposite
<1>4. added \in Seq(Drafts!Face) /\ Len(added) \in Nat
  <2> DEFINE n == Drafts!Cardinality(found)
  <2>. HIDE DEF n
  <2>1. n \in Nat
    BY <1>2 DEF n
  <2>2. [i \in 1 .. n |-> Drafts!Opposite(f)] \in Seq(Drafts!Face)
    BY <1>3, <2>1
  <2>3. added \in Seq(Drafts!Face)
    BY <2>2 DEF n
  <2>. HIDE DEF added
  <2>. QED  BY <2>3
<1>5. CASE o = "add_feature"
  <2>1. new = Append(old, f)
    BY <1>5 DEF Drafts!Edited
  <2>. HIDE DEF new
  <2>. QED  BY <2>1 DEF new
<1>6. CASE o = "add_louver_pattern"
  <2>1. new = old \o <<f, f>>
    BY <1>6 DEF Drafts!Edited, Drafts!add_louver_pattern
  <2>. HIDE DEF new
  <2>2. <<f, f>> \in Seq(Drafts!Face) /\ Len(<<f, f>>) = 2
    OBVIOUS
  <2>3. new \in Seq(Drafts!Face) /\ Len(new) = Len(old) + 2
    BY <2>1, <2>2, ConcatProperties
  <2>. QED  BY <2>3 DEF new
<1>7. CASE o = "mirror_features"
  <2>1. new = old \o added
    BY <1>7 DEF Drafts!Edited, Drafts!mirror_features
  <2>. HIDE DEF new, added
  <2>2. new \in Seq(Drafts!Face) /\ Len(new) = Len(old) + Len(added)
    BY <1>4, <2>1, ConcatProperties
  <2>3. Len(old) \in Nat
    OBVIOUS
  <2>. QED  BY <1>4, <2>2, <2>3 DEF new
<1>8. CASE o = "set_panel_thickness"
  <2>1. new = old
    BY <1>8 DEF Drafts!Edited
  <2>. HIDE DEF new
  <2>. QED  BY <2>1 DEF new
<1>. QED  BY <1>1, <1>5, <1>6, <1>7, <1>8

\* What is read as a draft or as a transaction is one.
LEMMA ReadableHere ==
  ASSUME NEW s, NEW cl, NEW D, NEW X, NEW DF, NEW XF, NEW rv, NEW ms, NEW mo, NEW st,
         DraftReady(s, cl, D, X, DF, XF, rv, ms, mo, st)
  PROVE  (Drafts!Readable(D) <=> D \in DraftRec) /\ (Drafts!Readable(X) <=> X \in TxRec)
<1>1. D \in DraftRec \cup {Drafts!Absent} /\ X \in TxRec \cup {Drafts!Absent}
  BY DEF DraftReady, DraftValues
<1>. QED  BY <1>1, ReadableIs, DraftKinds

\* An operation on a draft.
LEMMA EditKeeps ==
  ASSUME NEW c, Client = {c}, "viewer" \in Host, DraftInv, Drafts!Edit(c)
  PROVE  DraftInv'
<1> DEFINE s == todo[c]
           t == call[c].token
           D == draftOf["viewer"][t]
           X == txOf["viewer"][t]
           DF == draftFile[t]
           XF == txFile[t]
           rv == review[t]
           ms == mesh[t]
           mo == meshOf[t]
           st == stepFile[t]
           cl == call[c]
           new == Drafts!Edited(Drafts!for(c), D.features, cl.face)
           D2 == [D EXCEPT !.features = new]
           cl2 == [cl EXCEPT !.grew = Len(new) - Len(D.features)]
<1>1. Drafts!Takes(c, "edit")
  BY DEF Drafts!Edit
<1>2. /\ s \in DraftSteps /\ s # <<>> /\ s[1][1] = "edit" /\ t \in Token /\ cl \in CallRec
      /\ DraftReady(s, cl, D, X, DF, XF, rv, ms, mo, st)
      /\ Drafts!for(c) = s[1][2] /\ Drafts!token(c) = t /\ HostOf[c] = "viewer"
      /\ Drafts!draft(c) = D /\ Drafts!transaction(c) = X
  BY <1>1, Taken
<1>3. DraftTyped
  BY DEF DraftInv
<1>4. /\ txOf' = [txOf EXCEPT !["viewer"][t] = X]
      /\ draftFile' = [draftFile EXCEPT ![t] = DF]
      /\ txFile' = [txFile EXCEPT ![t] = XF]
      /\ review' = [review EXCEPT ![t] = rv]
      /\ mesh' = [mesh EXCEPT ![t] = ms]
      /\ meshOf' = [meshOf EXCEPT ![t] = mo]
      /\ stepFile' = [stepFile EXCEPT ![t] = st]
  BY <1>2, LeftAlone DEF Drafts!Edit, Drafts!reviewed, Drafts!memory
<1>5. /\ draftOf' = [draftOf EXCEPT !["viewer"][t] = D2]
  BY <1>2 DEF Drafts!Edit
<1>21. D \in DraftRec
  BY <1>2, ReadableHere DEF Drafts!Edit
<1>22. s[1][2] \in Drafts!Edits
  <2>1. s[1] \in DraftStep
    BY <1>2, NotEmpty DEF DraftSteps
  <2>. QED  BY <1>2, <2>1 DEF DraftStep
<1>23. new \in Seq(Drafts!Face) /\ Len(new) >= Len(D.features)
  <2>1. D.features \in Seq(Drafts!Face) /\ cl.face \in Drafts!Face
    BY <1>2, <1>21 DEF DraftRec, CallRec
  <2>. QED  BY <1>2, <1>22, <2>1, EditedGrows
<1>24. D2 \in DraftRec /\ D2.features = new
  <2>. HIDE DEF new, D
  <2>. QED  BY <1>21, <1>23 DEF DraftRec
<1>25. Len(new) \in Nat /\ Len(D.features) \in Nat /\ Len(new) - Len(D.features) \in Nat
  <2>1. Len(new) \in Nat /\ Len(D.features) \in Nat
    BY <1>21, <1>24, DraftKinds
  <2>. HIDE DEF new, D
  <2>. QED  BY <1>23, <2>1
<1>26. cl2.grew = Len(D2.features) - Len(D.features)
  <2>1. cl2.grew = Len(new) - Len(D.features)
    BY <1>2 DEF CallRec
  <2>. HIDE DEF new, D, cl2, D2
  <2>. QED  BY <1>24, <2>1
<1>27. call' = [call EXCEPT ![c] = cl2]
  <2>. HIDE DEF new
  <2>1. call' = [call EXCEPT ![c].grew = Len(new) - Len(D.features)]
    BY <1>2 DEF Drafts!Edit, new
  <2>. QED  BY <2>1
<1>. HIDE DEF new, D2
<1>. HIDE DEF s, t, D, X, DF, XF, rv, ms, mo, st, cl
<1>6. call' = [call EXCEPT ![c] = cl2] \/ call' = [call EXCEPT ![c] = IF Len(todo[c]) = 1 THEN Drafts!Absent ELSE cl2]
  BY <1>27
<1>7. cl2 \in CallRec /\ cl2.token = t
  <2>1. cl2 \in CallRec /\ cl2.token = cl.token
    BY <1>2, <1>25 DEF CallRec
  <2>. QED  BY <2>1 DEF cl, t
<1>. HIDE DEF cl2
<1>8. DraftDone(Tail(s), cl2, D2, X, DF, XF, rv, ms, mo, st)
  BY <1>2, <1>7, <1>21, <1>23, <1>24, <1>26, EditFits
<1>. QED  BY <1>1, <1>4, <1>5, <1>6, <1>7, <1>8, StepTaken DEF s, t

\* A new transaction.
LEMMA NewTransactionKeeps ==
  ASSUME NEW c, Client = {c}, "viewer" \in Host, DraftInv, Drafts!NewTransaction(c)
  PROVE  DraftInv'
<1> DEFINE s == todo[c]
           t == call[c].token
           D == draftOf["viewer"][t]
           X == txOf["viewer"][t]
           DF == draftFile[t]
           XF == txFile[t]
           rv == review[t]
           ms == mesh[t]
           mo == meshOf[t]
           st == stepFile[t]
           cl == call[c]
<1>1. Drafts!Takes(c, "newTx")
  BY DEF Drafts!NewTransaction
<1>2. /\ s \in DraftSteps /\ s # <<>> /\ s[1][1] = "newTx" /\ t \in Token /\ cl \in CallRec
      /\ DraftReady(s, cl, D, X, DF, XF, rv, ms, mo, st)
      /\ Drafts!for(c) = s[1][2] /\ Drafts!token(c) = t /\ HostOf[c] = "viewer"
      /\ Drafts!draft(c) = D /\ Drafts!transaction(c) = X
  BY <1>1, Taken
<1>3. DraftTyped
  BY DEF DraftInv
<1>4. /\ draftOf' = [draftOf EXCEPT !["viewer"][t] = D]
      /\ draftFile' = [draftFile EXCEPT ![t] = DF]
      /\ txFile' = [txFile EXCEPT ![t] = XF]
      /\ review' = [review EXCEPT ![t] = rv]
      /\ mesh' = [mesh EXCEPT ![t] = ms]
      /\ meshOf' = [meshOf EXCEPT ![t] = mo]
      /\ stepFile' = [stepFile EXCEPT ![t] = st]
  BY <1>2, LeftAlone DEF Drafts!NewTransaction, Drafts!reviewed, Drafts!memory
<1>5. /\ txOf' = [txOf EXCEPT !["viewer"][t] = Drafts!NewTx]
  BY <1>2 DEF Drafts!NewTransaction
<1>. HIDE DEF s, t, D, X, DF, XF, rv, ms, mo, st, cl
<1>6. call' = [call EXCEPT ![c] = cl] \/ call' = [call EXCEPT ![c] = IF Len(todo[c]) = 1 THEN Drafts!Absent ELSE cl]
  BY <1>2 DEF Drafts!NewTransaction, Drafts!Goes, cl, t
<1>7. cl \in CallRec /\ cl.token = t
  BY <1>2 DEF cl, t
<1>8. DraftDone(Tail(s), cl, D, Drafts!NewTx, DF, XF, rv, ms, mo, st)
  BY <1>2, <1>7, NewTxFits
<1>. QED  BY <1>1, <1>4, <1>5, <1>6, <1>7, <1>8, StepTaken DEF s, t

\* The fields of a transaction that are set.
LEMMA RecordedTx ==
  ASSUME NEW X \in TxRec, NEW o \in DraftOp, NEW g \in Nat
  PROVE  [X EXCEPT !.operations = Append(@, o), !.draft = @ \/ o = "create", !.open = @ /\ o # "accept",
                   !.exported = @ \/ o \in {"preview", "accept"}, !.recorded = @ + g] \in TxRec
<1> DEFINE a == Append(X.operations, o)
           b == X.draft \/ o = "create"
           d == X.open /\ o # "accept"
           e == X.exported \/ o \in {"preview", "accept"}
           n == X.recorded + g
<1>1. a \in Seq(DraftOp) /\ n \in Nat
  BY DEF TxRec
<1>2. b \in BOOLEAN /\ d \in BOOLEAN /\ e \in BOOLEAN
  BY Zenon
<1>. HIDE DEF a, b, d, e, n
<1>3. [X EXCEPT !.operations = a, !.draft = b, !.open = d, !.exported = e, !.recorded = n] \in TxRec
  BY <1>1, <1>2 DEF TxRec
<1>. QED  BY <1>3, Zenon DEF a, b, d, e, n

\* The operation joins the list of its transaction.
LEMMA RecordKeeps ==
  ASSUME NEW c, Client = {c}, "viewer" \in Host, DraftInv, Drafts!Record(c)
  PROVE  DraftInv'
<1> DEFINE s == todo[c]
           t == call[c].token
           D == draftOf["viewer"][t]
           X == txOf["viewer"][t]
           DF == draftFile[t]
           XF == txFile[t]
           rv == review[t]
           ms == mesh[t]
           mo == meshOf[t]
           st == stepFile[t]
           cl == call[c]
           o == s[1][2]
           X2 == [X EXCEPT !.operations = Append(@, o), !.draft = @ \/ o = "create", !.open = @ /\ o # "accept",
                           !.exported = @ \/ o \in {"preview", "accept"}, !.recorded = @ + cl.grew]
           cl2 == [cl EXCEPT !.grew = 0]
<1>1. Drafts!Takes(c, "record")
  BY DEF Drafts!Record
<1>2. /\ s \in DraftSteps /\ s # <<>> /\ s[1][1] = "record" /\ t \in Token /\ cl \in CallRec
      /\ DraftReady(s, cl, D, X, DF, XF, rv, ms, mo, st)
      /\ Drafts!for(c) = s[1][2] /\ Drafts!token(c) = t /\ HostOf[c] = "viewer"
      /\ Drafts!draft(c) = D /\ Drafts!transaction(c) = X
  BY <1>1, Taken
<1>3. DraftTyped
  BY DEF DraftInv
<1>4. /\ draftOf' = [draftOf EXCEPT !["viewer"][t] = D]
      /\ draftFile' = [draftFile EXCEPT ![t] = DF]
      /\ txFile' = [txFile EXCEPT ![t] = XF]
      /\ review' = [review EXCEPT ![t] = rv]
      /\ mesh' = [mesh EXCEPT ![t] = ms]
      /\ meshOf' = [meshOf EXCEPT ![t] = mo]
      /\ stepFile' = [stepFile EXCEPT ![t] = st]
  BY <1>2, LeftAlone DEF Drafts!Record, Drafts!reviewed, Drafts!memory
<1>5. /\ txOf' = [txOf EXCEPT !["viewer"][t] = X2]
  BY <1>2 DEF Drafts!Record, Drafts!transaction
<1>21. X \in TxRec
  BY <1>2, ReadableHere DEF Drafts!Record
<1>22. o \in DraftOp
  BY <1>2, NotEmpty
<1>. HIDE DEF o, X
<1>23. cl.grew \in Nat /\ cl2.grew = 0
  BY <1>2 DEF CallRec
<1>24. /\ X2 \in TxRec /\ X2.recorded = X.recorded + cl.grew /\ (X2.draft <=> X.draft \/ o = "create")
       /\ X2.open <=> X.open /\ o # "accept"
       /\ X2.exported <=> X.exported \/ o \in {"preview", "accept"}
  <2>1. X2 \in TxRec
    BY <1>21, <1>22, <1>23, RecordedTx, Zenon
  <2>2. X2.recorded = X.recorded + cl.grew
    BY <1>21 DEF TxRec
  <2>3. X2.draft <=> X.draft \/ o = "create"
    BY <1>21 DEF TxRec
  <2>4. X2.open <=> X.open /\ o # "accept"
    BY <1>21 DEF TxRec
  <2>5. X2.exported <=> X.exported \/ o \in {"preview", "accept"}
    BY <1>21 DEF TxRec
  <2>. QED  BY <2>1, <2>2, <2>3, <2>4, <2>5
<1>. HIDE DEF X2
<1>. HIDE DEF s, t, D, X, DF, XF, rv, ms, mo, st, cl
<1>6. call' = [call EXCEPT ![c] = cl2] \/ call' = [call EXCEPT ![c] = IF Len(todo[c]) = 1 THEN Drafts!Absent ELSE cl2]
  BY <1>2 DEF Drafts!Record, cl, t
<1>7. cl2 \in CallRec /\ cl2.token = t
  <2>1. cl2 \in CallRec /\ cl2.token = cl.token
    BY <1>2 DEF CallRec
  <2>. QED  BY <2>1 DEF cl, t
<1>71. o = s[1][2]
  BY DEF o, s
<1>. HIDE DEF cl2
<1>8. DraftDone(Tail(s), cl2, D, X2, DF, XF, rv, ms, mo, st)
  BY <1>2, <1>7, <1>21, <1>23, <1>24, <1>71, RecordFits
<1>. QED  BY <1>1, <1>4, <1>5, <1>6, <1>7, <1>8, StepTaken DEF s, t

\* The file of the draft is opened.
LEMMA OpenDraftKeeps ==
  ASSUME NEW c, Client = {c}, "viewer" \in Host, DraftInv, Drafts!OpenFile(c), Drafts!Takes(c, "openDraft")
  PROVE  DraftInv'
<1> DEFINE s == todo[c]
           t == call[c].token
           D == draftOf["viewer"][t]
           X == txOf["viewer"][t]
           DF == draftFile[t]
           XF == txFile[t]
           rv == review[t]
           ms == mesh[t]
           mo == meshOf[t]
           st == stepFile[t]
           cl == call[c]
           cl2 == [cl EXCEPT !.data = D]
<1>0. /\ Drafts!Readable(Drafts!draft(c))
      /\ call' = [call EXCEPT ![c].data = Drafts!draft(c)]
      /\ draftFile' = [draftFile EXCEPT ![Drafts!token(c)] = Drafts!Torn]
      /\ UNCHANGED <<Drafts!memory, txFile, stepFile, Drafts!reviewed>>
  BY DEF Drafts!OpenFile, Drafts!Takes
<1>1. Drafts!Takes(c, "openDraft")
  OBVIOUS
<1>2. /\ s \in DraftSteps /\ s # <<>> /\ s[1][1] = "openDraft" /\ t \in Token /\ cl \in CallRec
      /\ DraftReady(s, cl, D, X, DF, XF, rv, ms, mo, st)
      /\ Drafts!for(c) = s[1][2] /\ Drafts!token(c) = t /\ HostOf[c] = "viewer"
      /\ Drafts!draft(c) = D /\ Drafts!transaction(c) = X
  BY <1>1, Taken
<1>3. DraftTyped
  BY DEF DraftInv
<1>4. /\ draftOf' = [draftOf EXCEPT !["viewer"][t] = D]
      /\ txOf' = [txOf EXCEPT !["viewer"][t] = X]
      /\ txFile' = [txFile EXCEPT ![t] = XF]
      /\ review' = [review EXCEPT ![t] = rv]
      /\ mesh' = [mesh EXCEPT ![t] = ms]
      /\ meshOf' = [meshOf EXCEPT ![t] = mo]
      /\ stepFile' = [stepFile EXCEPT ![t] = st]
  BY <1>0, <1>2, LeftAlone DEF Drafts!memory, Drafts!reviewed, Drafts!memory
<1>5. /\ draftFile' = [draftFile EXCEPT ![t] = Drafts!Torn]
  BY <1>0, <1>2 DEF Drafts!memory
<1>21. D \in DraftRec
  BY <1>0, <1>2, ReadableHere
<1>22. cl2.grew = cl.grew /\ cl2.data = D
  BY <1>2 DEF CallRec
<1>. HIDE DEF s, t, D, X, DF, XF, rv, ms, mo, st, cl
<1>6. call' = [call EXCEPT ![c] = cl2] \/ call' = [call EXCEPT ![c] = IF Len(todo[c]) = 1 THEN Drafts!Absent ELSE cl2]
  BY <1>0, <1>2 DEF Drafts!memory, cl, t
<1>7. cl2 \in CallRec /\ cl2.token = t
  <2>1. cl2 \in CallRec /\ cl2.token = cl.token
    BY <1>2, <1>21 DEF CallRec
  <2>. QED  BY <2>1 DEF cl, t
<1>. HIDE DEF cl2
<1>8. DraftDone(Tail(s), cl2, D, X, Drafts!Torn, XF, rv, ms, mo, st)
  BY <1>2, <1>7, <1>21, <1>22, OpenDraftFits
<1>. QED  BY <1>1, <1>4, <1>5, <1>6, <1>7, <1>8, StepTaken DEF s, t

\* The file of the transaction is opened.
LEMMA OpenTxKeeps ==
  ASSUME NEW c, Client = {c}, "viewer" \in Host, DraftInv, Drafts!OpenFile(c), Drafts!Takes(c, "openTx")
  PROVE  DraftInv'
<1> DEFINE s == todo[c]
           t == call[c].token
           D == draftOf["viewer"][t]
           X == txOf["viewer"][t]
           DF == draftFile[t]
           XF == txFile[t]
           rv == review[t]
           ms == mesh[t]
           mo == meshOf[t]
           st == stepFile[t]
           cl == call[c]
           cl2 == [cl EXCEPT !.data = X]
<1>0. /\ Drafts!Readable(Drafts!transaction(c))
      /\ call' = [call EXCEPT ![c].data = Drafts!transaction(c)]
      /\ txFile' = [txFile EXCEPT ![Drafts!token(c)] = Drafts!Torn]
      /\ UNCHANGED <<Drafts!memory, draftFile, stepFile, Drafts!reviewed>>
  BY DEF Drafts!OpenFile, Drafts!Takes
<1>1. Drafts!Takes(c, "openTx")
  OBVIOUS
<1>2. /\ s \in DraftSteps /\ s # <<>> /\ s[1][1] = "openTx" /\ t \in Token /\ cl \in CallRec
      /\ DraftReady(s, cl, D, X, DF, XF, rv, ms, mo, st)
      /\ Drafts!for(c) = s[1][2] /\ Drafts!token(c) = t /\ HostOf[c] = "viewer"
      /\ Drafts!draft(c) = D /\ Drafts!transaction(c) = X
  BY <1>1, Taken
<1>3. DraftTyped
  BY DEF DraftInv
<1>4. /\ draftOf' = [draftOf EXCEPT !["viewer"][t] = D]
      /\ txOf' = [txOf EXCEPT !["viewer"][t] = X]
      /\ draftFile' = [draftFile EXCEPT ![t] = DF]
      /\ review' = [review EXCEPT ![t] = rv]
      /\ mesh' = [mesh EXCEPT ![t] = ms]
      /\ meshOf' = [meshOf EXCEPT ![t] = mo]
      /\ stepFile' = [stepFile EXCEPT ![t] = st]
  BY <1>0, <1>2, LeftAlone DEF Drafts!memory, Drafts!reviewed, Drafts!memory
<1>5. /\ txFile' = [txFile EXCEPT ![t] = Drafts!Torn]
  BY <1>0, <1>2 DEF Drafts!memory
<1>21. X \in TxRec
  BY <1>0, <1>2, ReadableHere
<1>22. cl2.grew = cl.grew /\ cl2.data = X
  BY <1>2 DEF CallRec
<1>. HIDE DEF s, t, D, X, DF, XF, rv, ms, mo, st, cl
<1>6. call' = [call EXCEPT ![c] = cl2] \/ call' = [call EXCEPT ![c] = IF Len(todo[c]) = 1 THEN Drafts!Absent ELSE cl2]
  BY <1>0, <1>2 DEF Drafts!memory, cl, t
<1>7. cl2 \in CallRec /\ cl2.token = t
  <2>1. cl2 \in CallRec /\ cl2.token = cl.token
    BY <1>2, <1>21 DEF CallRec
  <2>. QED  BY <2>1 DEF cl, t
<1>. HIDE DEF cl2
<1>8. DraftDone(Tail(s), cl2, D, X, DF, Drafts!Torn, rv, ms, mo, st)
  BY <1>2, <1>7, <1>21, <1>22, OpenTxFits
<1>. QED  BY <1>1, <1>4, <1>5, <1>6, <1>7, <1>8, StepTaken DEF s, t

\* The file of the draft is closed.
LEMMA CloseDraftKeeps ==
  ASSUME NEW c, Client = {c}, "viewer" \in Host, DraftInv, Drafts!CloseFile(c), Drafts!Takes(c, "closeDraft")
  PROVE  DraftInv'
<1> DEFINE s == todo[c]
           t == call[c].token
           D == draftOf["viewer"][t]
           X == txOf["viewer"][t]
           DF == draftFile[t]
           XF == txFile[t]
           rv == review[t]
           ms == mesh[t]
           mo == meshOf[t]
           st == stepFile[t]
           cl == call[c]
           cl2 == [cl EXCEPT !.data = Drafts!Absent]
<1>0. /\ draftFile' = [draftFile EXCEPT ![Drafts!token(c)] = call[c].data]
      /\ call' = [call EXCEPT ![c] = IF Len(todo[c]) = 1 THEN Drafts!Absent ELSE [@ EXCEPT !.data = Drafts!Absent]]
      /\ UNCHANGED <<txFile, Drafts!memory, stepFile, Drafts!reviewed>>
  BY DEF Drafts!CloseFile, Drafts!Takes
<1>1. Drafts!Takes(c, "closeDraft")
  OBVIOUS
<1>2. /\ s \in DraftSteps /\ s # <<>> /\ s[1][1] = "closeDraft" /\ t \in Token /\ cl \in CallRec
      /\ DraftReady(s, cl, D, X, DF, XF, rv, ms, mo, st)
      /\ Drafts!for(c) = s[1][2] /\ Drafts!token(c) = t /\ HostOf[c] = "viewer"
      /\ Drafts!draft(c) = D /\ Drafts!transaction(c) = X
  BY <1>1, Taken
<1>3. DraftTyped
  BY DEF DraftInv
<1>4. /\ draftOf' = [draftOf EXCEPT !["viewer"][t] = D]
      /\ txOf' = [txOf EXCEPT !["viewer"][t] = X]
      /\ txFile' = [txFile EXCEPT ![t] = XF]
      /\ review' = [review EXCEPT ![t] = rv]
      /\ mesh' = [mesh EXCEPT ![t] = ms]
      /\ meshOf' = [meshOf EXCEPT ![t] = mo]
      /\ stepFile' = [stepFile EXCEPT ![t] = st]
  BY <1>0, <1>2, LeftAlone DEF Drafts!memory, Drafts!reviewed, Drafts!memory
<1>5. /\ draftFile' = [draftFile EXCEPT ![t] = cl.data]
  BY <1>0, <1>2 DEF Drafts!memory
<1>22. cl2.grew = cl.grew
  BY <1>2 DEF CallRec
<1>. HIDE DEF s, t, D, X, DF, XF, rv, ms, mo, st, cl
<1>6. call' = [call EXCEPT ![c] = cl2] \/ call' = [call EXCEPT ![c] = IF Len(todo[c]) = 1 THEN Drafts!Absent ELSE cl2]
  BY <1>0, <1>2 DEF Drafts!memory, cl, t
<1>7. cl2 \in CallRec /\ cl2.token = t
  <2>1. cl2 \in CallRec /\ cl2.token = cl.token
    BY <1>2 DEF CallRec
  <2>. QED  BY <2>1 DEF cl, t
<1>. HIDE DEF cl2
<1>8. DraftDone(Tail(s), cl2, D, X, cl.data, XF, rv, ms, mo, st)
  BY <1>2, <1>7, <1>22, CloseDraftFits
<1>. QED  BY <1>1, <1>4, <1>5, <1>6, <1>7, <1>8, StepTaken DEF s, t

\* The file of the transaction is closed.
LEMMA CloseTxKeeps ==
  ASSUME NEW c, Client = {c}, "viewer" \in Host, DraftInv, Drafts!CloseFile(c), Drafts!Takes(c, "closeTx")
  PROVE  DraftInv'
<1> DEFINE s == todo[c]
           t == call[c].token
           D == draftOf["viewer"][t]
           X == txOf["viewer"][t]
           DF == draftFile[t]
           XF == txFile[t]
           rv == review[t]
           ms == mesh[t]
           mo == meshOf[t]
           st == stepFile[t]
           cl == call[c]
           cl2 == [cl EXCEPT !.data = Drafts!Absent]
<1>0. /\ txFile' = [txFile EXCEPT ![Drafts!token(c)] = call[c].data]
      /\ call' = [call EXCEPT ![c] = IF Len(todo[c]) = 1 THEN Drafts!Absent ELSE [@ EXCEPT !.data = Drafts!Absent]]
      /\ UNCHANGED <<draftFile, Drafts!memory, stepFile, Drafts!reviewed>>
  BY DEF Drafts!CloseFile, Drafts!Takes
<1>1. Drafts!Takes(c, "closeTx")
  OBVIOUS
<1>2. /\ s \in DraftSteps /\ s # <<>> /\ s[1][1] = "closeTx" /\ t \in Token /\ cl \in CallRec
      /\ DraftReady(s, cl, D, X, DF, XF, rv, ms, mo, st)
      /\ Drafts!for(c) = s[1][2] /\ Drafts!token(c) = t /\ HostOf[c] = "viewer"
      /\ Drafts!draft(c) = D /\ Drafts!transaction(c) = X
  BY <1>1, Taken
<1>3. DraftTyped
  BY DEF DraftInv
<1>4. /\ draftOf' = [draftOf EXCEPT !["viewer"][t] = D]
      /\ txOf' = [txOf EXCEPT !["viewer"][t] = X]
      /\ draftFile' = [draftFile EXCEPT ![t] = DF]
      /\ review' = [review EXCEPT ![t] = rv]
      /\ mesh' = [mesh EXCEPT ![t] = ms]
      /\ meshOf' = [meshOf EXCEPT ![t] = mo]
      /\ stepFile' = [stepFile EXCEPT ![t] = st]
  BY <1>0, <1>2, LeftAlone DEF Drafts!memory, Drafts!reviewed, Drafts!memory
<1>5. /\ txFile' = [txFile EXCEPT ![t] = cl.data]
  BY <1>0, <1>2 DEF Drafts!memory
<1>22. cl2.grew = cl.grew
  BY <1>2 DEF CallRec
<1>. HIDE DEF s, t, D, X, DF, XF, rv, ms, mo, st, cl
<1>6. call' = [call EXCEPT ![c] = cl2] \/ call' = [call EXCEPT ![c] = IF Len(todo[c]) = 1 THEN Drafts!Absent ELSE cl2]
  BY <1>0, <1>2 DEF Drafts!memory, cl, t
<1>7. cl2 \in CallRec /\ cl2.token = t
  <2>1. cl2 \in CallRec /\ cl2.token = cl.token
    BY <1>2 DEF CallRec
  <2>. QED  BY <2>1 DEF cl, t
<1>. HIDE DEF cl2
<1>8. DraftDone(Tail(s), cl2, D, X, DF, cl.data, rv, ms, mo, st)
  BY <1>2, <1>7, <1>22, CloseTxFits
<1>. QED  BY <1>1, <1>4, <1>5, <1>6, <1>7, <1>8, StepTaken DEF s, t

\* The draft is exported.
LEMMA ExportKeeps ==
  ASSUME NEW c, Client = {c}, "viewer" \in Host, DraftInv, Drafts!ExportStep(c)
  PROVE  DraftInv'
<1> DEFINE s == todo[c]
           t == call[c].token
           D == draftOf["viewer"][t]
           X == txOf["viewer"][t]
           DF == draftFile[t]
           XF == txFile[t]
           rv == review[t]
           ms == mesh[t]
           mo == meshOf[t]
           st == stepFile[t]
           cl == call[c]
           st2 == [features |-> D.features, export |-> st.export + 1]
<1>1. Drafts!Takes(c, "export")
  BY DEF Drafts!ExportStep
<1>2. /\ s \in DraftSteps /\ s # <<>> /\ s[1][1] = "export" /\ t \in Token /\ cl \in CallRec
      /\ DraftReady(s, cl, D, X, DF, XF, rv, ms, mo, st)
      /\ Drafts!for(c) = s[1][2] /\ Drafts!token(c) = t /\ HostOf[c] = "viewer"
      /\ Drafts!draft(c) = D /\ Drafts!transaction(c) = X
  BY <1>1, Taken
<1>3. DraftTyped
  BY DEF DraftInv
<1>4. /\ draftOf' = [draftOf EXCEPT !["viewer"][t] = D]
      /\ txOf' = [txOf EXCEPT !["viewer"][t] = X]
      /\ draftFile' = [draftFile EXCEPT ![t] = DF]
      /\ txFile' = [txFile EXCEPT ![t] = XF]
      /\ review' = [review EXCEPT ![t] = rv]
      /\ mesh' = [mesh EXCEPT ![t] = ms]
      /\ meshOf' = [meshOf EXCEPT ![t] = mo]
  BY <1>2, LeftAlone DEF Drafts!ExportStep, Drafts!reviewed, Drafts!memory
<1>5. /\ stepFile' = [stepFile EXCEPT ![t] = st2]
  BY <1>2 DEF Drafts!ExportStep
<1>21. D \in DraftRec
  BY <1>2, ReadableHere DEF Drafts!ExportStep
<1>22. st2 = [features |-> D.features, export |-> st.export + 1]
  OBVIOUS
<1>. HIDE DEF st2
<1>. HIDE DEF s, t, D, X, DF, XF, rv, ms, mo, st, cl
<1>6. call' = [call EXCEPT ![c] = cl] \/ call' = [call EXCEPT ![c] = IF Len(todo[c]) = 1 THEN Drafts!Absent ELSE cl]
  BY <1>2 DEF Drafts!ExportStep, Drafts!Goes, cl, t
<1>7. cl \in CallRec /\ cl.token = t
  BY <1>2 DEF cl, t
<1>8. DraftDone(Tail(s), cl, D, X, DF, XF, rv, ms, mo, st2)
  BY <1>2, <1>7, <1>21, <1>22, ExportFits
<1>. QED  BY <1>1, <1>4, <1>5, <1>6, <1>7, <1>8, StepTaken DEF s, t

\* The review gets the draft.
LEMMA ReviewKeeps ==
  ASSUME NEW c, Client = {c}, "viewer" \in Host, DraftInv, Drafts!WriteReview(c), Drafts!Takes(c, "writeReview")
  PROVE  DraftInv'
<1> DEFINE s == todo[c]
           t == call[c].token
           D == draftOf["viewer"][t]
           X == txOf["viewer"][t]
           DF == draftFile[t]
           XF == txFile[t]
           rv == review[t]
           ms == mesh[t]
           mo == meshOf[t]
           st == stepFile[t]
           cl == call[c]
           rv2 == [rv EXCEPT !.features = D.features]
<1>0. /\ Drafts!Readable(Drafts!draft(c))
      /\ review' = [review EXCEPT ![Drafts!token(c)].features = Drafts!draft(c).features]
      /\ Drafts!Goes(c)
      /\ UNCHANGED <<Drafts!memory, draftFile, txFile, stepFile, mesh, meshOf>>
  BY DEF Drafts!WriteReview, Drafts!Takes
<1>1. Drafts!Takes(c, "writeReview")
  OBVIOUS
<1>2. /\ s \in DraftSteps /\ s # <<>> /\ s[1][1] = "writeReview" /\ t \in Token /\ cl \in CallRec
      /\ DraftReady(s, cl, D, X, DF, XF, rv, ms, mo, st)
      /\ Drafts!for(c) = s[1][2] /\ Drafts!token(c) = t /\ HostOf[c] = "viewer"
      /\ Drafts!draft(c) = D /\ Drafts!transaction(c) = X
  BY <1>1, Taken
<1>3. DraftTyped
  BY DEF DraftInv
<1>4. /\ draftOf' = [draftOf EXCEPT !["viewer"][t] = D]
      /\ txOf' = [txOf EXCEPT !["viewer"][t] = X]
      /\ draftFile' = [draftFile EXCEPT ![t] = DF]
      /\ txFile' = [txFile EXCEPT ![t] = XF]
      /\ mesh' = [mesh EXCEPT ![t] = ms]
      /\ meshOf' = [meshOf EXCEPT ![t] = mo]
      /\ stepFile' = [stepFile EXCEPT ![t] = st]
  BY <1>0, <1>2, LeftAlone DEF Drafts!memory, Drafts!reviewed, Drafts!memory
<1>5. /\ review' = [review EXCEPT ![t] = rv2]
  BY <1>0, <1>2 DEF Drafts!memory
<1>21. D \in DraftRec
  BY <1>0, <1>2, ReadableHere
<1>22. rv2 = [rv EXCEPT !.features = D.features]
  OBVIOUS
<1>. HIDE DEF rv2
<1>. HIDE DEF s, t, D, X, DF, XF, rv, ms, mo, st, cl
<1>6. call' = [call EXCEPT ![c] = cl] \/ call' = [call EXCEPT ![c] = IF Len(todo[c]) = 1 THEN Drafts!Absent ELSE cl]
  BY <1>0, <1>2 DEF Drafts!memory, Drafts!Goes, cl, t
<1>7. cl \in CallRec /\ cl.token = t
  BY <1>2 DEF cl, t
<1>8. DraftDone(Tail(s), cl, D, X, DF, XF, rv2, ms, mo, st)
  BY <1>2, <1>7, <1>21, <1>22, ReviewFits
<1>. QED  BY <1>1, <1>4, <1>5, <1>6, <1>7, <1>8, StepTaken DEF s, t

\* The review is complete.
LEMMA ManifestKeeps ==
  ASSUME NEW c, Client = {c}, "viewer" \in Host, DraftInv, Drafts!WriteReview(c), Drafts!Takes(c, "writeManifest")
  PROVE  DraftInv'
<1> DEFINE s == todo[c]
           t == call[c].token
           D == draftOf["viewer"][t]
           X == txOf["viewer"][t]
           DF == draftFile[t]
           XF == txFile[t]
           rv == review[t]
           ms == mesh[t]
           mo == meshOf[t]
           st == stepFile[t]
           cl == call[c]
           rv2 == [rv EXCEPT !.complete = TRUE]
<1>0. /\ review' = [review EXCEPT ![Drafts!token(c)].complete = TRUE]
      /\ Drafts!Goes(c)
      /\ UNCHANGED <<Drafts!memory, draftFile, txFile, stepFile, mesh, meshOf>>
  BY DEF Drafts!WriteReview, Drafts!Takes
<1>1. Drafts!Takes(c, "writeManifest")
  OBVIOUS
<1>2. /\ s \in DraftSteps /\ s # <<>> /\ s[1][1] = "writeManifest" /\ t \in Token /\ cl \in CallRec
      /\ DraftReady(s, cl, D, X, DF, XF, rv, ms, mo, st)
      /\ Drafts!for(c) = s[1][2] /\ Drafts!token(c) = t /\ HostOf[c] = "viewer"
      /\ Drafts!draft(c) = D /\ Drafts!transaction(c) = X
  BY <1>1, Taken
<1>3. DraftTyped
  BY DEF DraftInv
<1>4. /\ draftOf' = [draftOf EXCEPT !["viewer"][t] = D]
      /\ txOf' = [txOf EXCEPT !["viewer"][t] = X]
      /\ draftFile' = [draftFile EXCEPT ![t] = DF]
      /\ txFile' = [txFile EXCEPT ![t] = XF]
      /\ mesh' = [mesh EXCEPT ![t] = ms]
      /\ meshOf' = [meshOf EXCEPT ![t] = mo]
      /\ stepFile' = [stepFile EXCEPT ![t] = st]
  BY <1>0, <1>2, LeftAlone DEF Drafts!memory, Drafts!reviewed, Drafts!memory
<1>5. /\ review' = [review EXCEPT ![t] = rv2]
  BY <1>0, <1>2 DEF Drafts!memory
<1>22. rv2 = [rv EXCEPT !.complete = TRUE]
  OBVIOUS
<1>. HIDE DEF rv2
<1>. HIDE DEF s, t, D, X, DF, XF, rv, ms, mo, st, cl
<1>6. call' = [call EXCEPT ![c] = cl] \/ call' = [call EXCEPT ![c] = IF Len(todo[c]) = 1 THEN Drafts!Absent ELSE cl]
  BY <1>0, <1>2 DEF Drafts!memory, Drafts!Goes, cl, t
<1>7. cl \in CallRec /\ cl.token = t
  BY <1>2 DEF cl, t
<1>8. DraftDone(Tail(s), cl, D, X, DF, XF, rv2, ms, mo, st)
  BY <1>2, <1>7, <1>22, ManifestFits
<1>. QED  BY <1>1, <1>4, <1>5, <1>6, <1>7, <1>8, StepTaken DEF s, t

\* The draft is forgotten.
LEMMA ForgetDraftKeeps ==
  ASSUME NEW c, Client = {c}, "viewer" \in Host, DraftInv, Drafts!Discard(c), Drafts!Takes(c, "forgetDraft")
  PROVE  DraftInv'
<1> DEFINE s == todo[c]
           t == call[c].token
           D == draftOf["viewer"][t]
           X == txOf["viewer"][t]
           DF == draftFile[t]
           XF == txFile[t]
           rv == review[t]
           ms == mesh[t]
           mo == meshOf[t]
           st == stepFile[t]
           cl == call[c]
<1>0. /\ draftOf' = [draftOf EXCEPT ![HostOf[c]][Drafts!token(c)] = Drafts!Absent]
      /\ Drafts!Goes(c)
      /\ UNCHANGED <<txOf, draftFile, txFile, stepFile, review, mesh, meshOf>>
  BY DEF Drafts!Discard, Drafts!Takes
<1>1. Drafts!Takes(c, "forgetDraft")
  OBVIOUS
<1>2. /\ s \in DraftSteps /\ s # <<>> /\ s[1][1] = "forgetDraft" /\ t \in Token /\ cl \in CallRec
      /\ DraftReady(s, cl, D, X, DF, XF, rv, ms, mo, st)
      /\ Drafts!for(c) = s[1][2] /\ Drafts!token(c) = t /\ HostOf[c] = "viewer"
      /\ Drafts!draft(c) = D /\ Drafts!transaction(c) = X
  BY <1>1, Taken
<1>3. DraftTyped
  BY DEF DraftInv
<1>4. /\ txOf' = [txOf EXCEPT !["viewer"][t] = X]
      /\ draftFile' = [draftFile EXCEPT ![t] = DF]
      /\ txFile' = [txFile EXCEPT ![t] = XF]
      /\ review' = [review EXCEPT ![t] = rv]
      /\ mesh' = [mesh EXCEPT ![t] = ms]
      /\ meshOf' = [meshOf EXCEPT ![t] = mo]
      /\ stepFile' = [stepFile EXCEPT ![t] = st]
  BY <1>0, <1>2, LeftAlone DEF Drafts!memory, Drafts!reviewed, Drafts!memory
<1>5. /\ draftOf' = [draftOf EXCEPT !["viewer"][t] = Drafts!Absent]
  BY <1>0, <1>2 DEF Drafts!memory
<1>. HIDE DEF s, t, D, X, DF, XF, rv, ms, mo, st, cl
<1>6. call' = [call EXCEPT ![c] = cl] \/ call' = [call EXCEPT ![c] = IF Len(todo[c]) = 1 THEN Drafts!Absent ELSE cl]
  BY <1>0, <1>2 DEF Drafts!memory, Drafts!Goes, cl, t
<1>7. cl \in CallRec /\ cl.token = t
  BY <1>2 DEF cl, t
<1>8. DraftDone(Tail(s), cl, Drafts!Absent, X, DF, XF, rv, ms, mo, st)
  BY <1>2, <1>7, ForgetDraftFits
<1>. QED  BY <1>1, <1>4, <1>5, <1>6, <1>7, <1>8, StepTaken DEF s, t

\* The draft is removed.
LEMMA RemoveDraftKeeps ==
  ASSUME NEW c, Client = {c}, "viewer" \in Host, DraftInv, Drafts!Discard(c), Drafts!Takes(c, "removeDraft")
  PROVE  DraftInv'
<1> DEFINE s == todo[c]
           t == call[c].token
           D == draftOf["viewer"][t]
           X == txOf["viewer"][t]
           DF == draftFile[t]
           XF == txFile[t]
           rv == review[t]
           ms == mesh[t]
           mo == meshOf[t]
           st == stepFile[t]
           cl == call[c]
           st2 == [st EXCEPT !.features = <<>>]
<1>0. /\ draftFile' = [draftFile EXCEPT ![Drafts!token(c)] = Drafts!Removed]
      /\ stepFile' = [stepFile EXCEPT ![Drafts!token(c)].features = <<>>]
      /\ Drafts!Goes(c)
      /\ UNCHANGED <<Drafts!memory, txFile, review, mesh, meshOf>>
  BY DEF Drafts!Discard, Drafts!Takes
<1>1. Drafts!Takes(c, "removeDraft")
  OBVIOUS
<1>2. /\ s \in DraftSteps /\ s # <<>> /\ s[1][1] = "removeDraft" /\ t \in Token /\ cl \in CallRec
      /\ DraftReady(s, cl, D, X, DF, XF, rv, ms, mo, st)
      /\ Drafts!for(c) = s[1][2] /\ Drafts!token(c) = t /\ HostOf[c] = "viewer"
      /\ Drafts!draft(c) = D /\ Drafts!transaction(c) = X
  BY <1>1, Taken
<1>3. DraftTyped
  BY DEF DraftInv
<1>4. /\ draftOf' = [draftOf EXCEPT !["viewer"][t] = D]
      /\ txOf' = [txOf EXCEPT !["viewer"][t] = X]
      /\ txFile' = [txFile EXCEPT ![t] = XF]
      /\ review' = [review EXCEPT ![t] = rv]
      /\ mesh' = [mesh EXCEPT ![t] = ms]
      /\ meshOf' = [meshOf EXCEPT ![t] = mo]
  BY <1>0, <1>2, LeftAlone DEF Drafts!memory, Drafts!reviewed, Drafts!memory
<1>5. /\ draftFile' = [draftFile EXCEPT ![t] = Drafts!Removed]
      /\ stepFile' = [stepFile EXCEPT ![t] = st2]
  BY <1>0, <1>2 DEF Drafts!memory
<1>22. st2 = [st EXCEPT !.features = <<>>]
  OBVIOUS
<1>. HIDE DEF st2
<1>. HIDE DEF s, t, D, X, DF, XF, rv, ms, mo, st, cl
<1>6. call' = [call EXCEPT ![c] = cl] \/ call' = [call EXCEPT ![c] = IF Len(todo[c]) = 1 THEN Drafts!Absent ELSE cl]
  BY <1>0, <1>2 DEF Drafts!memory, Drafts!Goes, cl, t
<1>7. cl \in CallRec /\ cl.token = t
  BY <1>2 DEF cl, t
<1>8. DraftDone(Tail(s), cl, D, X, Drafts!Removed, XF, rv, ms, mo, st2)
  BY <1>2, <1>7, <1>22, RemoveDraftFits
<1>. QED  BY <1>1, <1>4, <1>5, <1>6, <1>7, <1>8, StepTaken DEF s, t

\* The transaction is forgotten.
LEMMA ForgetTxKeeps ==
  ASSUME NEW c, Client = {c}, "viewer" \in Host, DraftInv, Drafts!Discard(c), Drafts!Takes(c, "forgetTx")
  PROVE  DraftInv'
<1> DEFINE s == todo[c]
           t == call[c].token
           D == draftOf["viewer"][t]
           X == txOf["viewer"][t]
           DF == draftFile[t]
           XF == txFile[t]
           rv == review[t]
           ms == mesh[t]
           mo == meshOf[t]
           st == stepFile[t]
           cl == call[c]
<1>0. /\ txOf' = [txOf EXCEPT ![HostOf[c]][Drafts!token(c)] = Drafts!Absent]
      /\ Drafts!Goes(c)
      /\ UNCHANGED <<draftOf, draftFile, txFile, stepFile, review, mesh, meshOf>>
  BY DEF Drafts!Discard, Drafts!Takes
<1>1. Drafts!Takes(c, "forgetTx")
  OBVIOUS
<1>2. /\ s \in DraftSteps /\ s # <<>> /\ s[1][1] = "forgetTx" /\ t \in Token /\ cl \in CallRec
      /\ DraftReady(s, cl, D, X, DF, XF, rv, ms, mo, st)
      /\ Drafts!for(c) = s[1][2] /\ Drafts!token(c) = t /\ HostOf[c] = "viewer"
      /\ Drafts!draft(c) = D /\ Drafts!transaction(c) = X
  BY <1>1, Taken
<1>3. DraftTyped
  BY DEF DraftInv
<1>4. /\ draftOf' = [draftOf EXCEPT !["viewer"][t] = D]
      /\ draftFile' = [draftFile EXCEPT ![t] = DF]
      /\ txFile' = [txFile EXCEPT ![t] = XF]
      /\ review' = [review EXCEPT ![t] = rv]
      /\ mesh' = [mesh EXCEPT ![t] = ms]
      /\ meshOf' = [meshOf EXCEPT ![t] = mo]
      /\ stepFile' = [stepFile EXCEPT ![t] = st]
  BY <1>0, <1>2, LeftAlone DEF Drafts!memory, Drafts!reviewed, Drafts!memory
<1>5. /\ txOf' = [txOf EXCEPT !["viewer"][t] = Drafts!Absent]
  BY <1>0, <1>2 DEF Drafts!memory
<1>. HIDE DEF s, t, D, X, DF, XF, rv, ms, mo, st, cl
<1>6. call' = [call EXCEPT ![c] = cl] \/ call' = [call EXCEPT ![c] = IF Len(todo[c]) = 1 THEN Drafts!Absent ELSE cl]
  BY <1>0, <1>2 DEF Drafts!memory, Drafts!Goes, cl, t
<1>7. cl \in CallRec /\ cl.token = t
  BY <1>2 DEF cl, t
<1>8. DraftDone(Tail(s), cl, D, Drafts!Absent, DF, XF, rv, ms, mo, st)
  BY <1>2, <1>7, ForgetTxFits
<1>. QED  BY <1>1, <1>4, <1>5, <1>6, <1>7, <1>8, StepTaken DEF s, t

\* The transaction is removed.
LEMMA RemoveTxKeeps ==
  ASSUME NEW c, Client = {c}, "viewer" \in Host, DraftInv, Drafts!Discard(c), Drafts!Takes(c, "removeTx")
  PROVE  DraftInv'
<1> DEFINE s == todo[c]
           t == call[c].token
           D == draftOf["viewer"][t]
           X == txOf["viewer"][t]
           DF == draftFile[t]
           XF == txFile[t]
           rv == review[t]
           ms == mesh[t]
           mo == meshOf[t]
           st == stepFile[t]
           cl == call[c]
<1>0. /\ txFile' = [txFile EXCEPT ![Drafts!token(c)] = Drafts!Removed]
      /\ review' = [review EXCEPT ![Drafts!token(c)] = Drafts!NoReview]
      /\ Drafts!Goes(c)
      /\ UNCHANGED <<Drafts!memory, draftFile, stepFile, mesh, meshOf>>
  BY DEF Drafts!Discard, Drafts!Takes
<1>1. Drafts!Takes(c, "removeTx")
  OBVIOUS
<1>2. /\ s \in DraftSteps /\ s # <<>> /\ s[1][1] = "removeTx" /\ t \in Token /\ cl \in CallRec
      /\ DraftReady(s, cl, D, X, DF, XF, rv, ms, mo, st)
      /\ Drafts!for(c) = s[1][2] /\ Drafts!token(c) = t /\ HostOf[c] = "viewer"
      /\ Drafts!draft(c) = D /\ Drafts!transaction(c) = X
  BY <1>1, Taken
<1>3. DraftTyped
  BY DEF DraftInv
<1>4. /\ draftOf' = [draftOf EXCEPT !["viewer"][t] = D]
      /\ txOf' = [txOf EXCEPT !["viewer"][t] = X]
      /\ draftFile' = [draftFile EXCEPT ![t] = DF]
      /\ mesh' = [mesh EXCEPT ![t] = ms]
      /\ meshOf' = [meshOf EXCEPT ![t] = mo]
      /\ stepFile' = [stepFile EXCEPT ![t] = st]
  BY <1>0, <1>2, LeftAlone DEF Drafts!memory, Drafts!reviewed, Drafts!memory
<1>5. /\ txFile' = [txFile EXCEPT ![t] = Drafts!Removed]
      /\ review' = [review EXCEPT ![t] = Drafts!NoReview]
  BY <1>0, <1>2 DEF Drafts!memory
<1>. HIDE DEF s, t, D, X, DF, XF, rv, ms, mo, st, cl
<1>6. call' = [call EXCEPT ![c] = cl] \/ call' = [call EXCEPT ![c] = IF Len(todo[c]) = 1 THEN Drafts!Absent ELSE cl]
  BY <1>0, <1>2 DEF Drafts!memory, Drafts!Goes, cl, t
<1>7. cl \in CallRec /\ cl.token = t
  BY <1>2 DEF cl, t
<1>8. DraftDone(Tail(s), cl, D, X, DF, Drafts!Removed, Drafts!NoReview, ms, mo, st)
  BY <1>2, <1>7, RemoveTxFits
<1>. QED  BY <1>1, <1>4, <1>5, <1>6, <1>7, <1>8, StepTaken DEF s, t

\* The display mesh is made.
LEMMA ConvertKeeps ==
  ASSUME NEW c, Client = {c}, "viewer" \in Host, DraftInv, Drafts!Convert(c), Drafts!Takes(c, "convert")
  PROVE  DraftInv'
<1> DEFINE s == todo[c]
           t == call[c].token
           D == draftOf["viewer"][t]
           X == txOf["viewer"][t]
           DF == draftFile[t]
           XF == txFile[t]
           rv == review[t]
           ms == mesh[t]
           mo == meshOf[t]
           st == stepFile[t]
           cl == call[c]
           ms2 == IF mo = st.export THEN ms ELSE st.features
<1>0. /\ mesh' = [mesh EXCEPT ![Drafts!token(c)] = IF meshOf[Drafts!token(c)] = stepFile[Drafts!token(c)].export THEN @
                    ELSE stepFile[Drafts!token(c)].features]
      /\ Drafts!Goes(c)
      /\ UNCHANGED <<meshOf, Drafts!memory, draftFile, txFile, stepFile, review>>
  BY DEF Drafts!Convert, Drafts!Takes
<1>1. Drafts!Takes(c, "convert")
  OBVIOUS
<1>2. /\ s \in DraftSteps /\ s # <<>> /\ s[1][1] = "convert" /\ t \in Token /\ cl \in CallRec
      /\ DraftReady(s, cl, D, X, DF, XF, rv, ms, mo, st)
      /\ Drafts!for(c) = s[1][2] /\ Drafts!token(c) = t /\ HostOf[c] = "viewer"
      /\ Drafts!draft(c) = D /\ Drafts!transaction(c) = X
  BY <1>1, Taken
<1>3. DraftTyped
  BY DEF DraftInv
<1>4. /\ draftOf' = [draftOf EXCEPT !["viewer"][t] = D]
      /\ txOf' = [txOf EXCEPT !["viewer"][t] = X]
      /\ draftFile' = [draftFile EXCEPT ![t] = DF]
      /\ txFile' = [txFile EXCEPT ![t] = XF]
      /\ review' = [review EXCEPT ![t] = rv]
      /\ meshOf' = [meshOf EXCEPT ![t] = mo]
      /\ stepFile' = [stepFile EXCEPT ![t] = st]
  BY <1>0, <1>2, LeftAlone DEF Drafts!memory, Drafts!reviewed, Drafts!memory
<1>5. /\ mesh' = [mesh EXCEPT ![t] = ms2]
  BY <1>0, <1>2 DEF Drafts!memory
<1>22. (mo = st.export => ms2 = ms) /\ (mo # st.export => ms2 = st.features)
  OBVIOUS
<1>. HIDE DEF ms2
<1>. HIDE DEF s, t, D, X, DF, XF, rv, ms, mo, st, cl
<1>6. call' = [call EXCEPT ![c] = cl] \/ call' = [call EXCEPT ![c] = IF Len(todo[c]) = 1 THEN Drafts!Absent ELSE cl]
  BY <1>0, <1>2 DEF Drafts!memory, Drafts!Goes, cl, t
<1>7. cl \in CallRec /\ cl.token = t
  BY <1>2 DEF cl, t
<1>8. DraftDone(Tail(s), cl, D, X, DF, XF, rv, ms2, mo, st)
  BY <1>2, <1>7, <1>22, ConvertFits
<1>. QED  BY <1>1, <1>4, <1>5, <1>6, <1>7, <1>8, StepTaken DEF s, t

\* The mesh is described.
LEMMA DescribeKeeps ==
  ASSUME NEW c, Client = {c}, "viewer" \in Host, DraftInv, Drafts!Convert(c), Drafts!Takes(c, "describe")
  PROVE  DraftInv'
<1> DEFINE s == todo[c]
           t == call[c].token
           D == draftOf["viewer"][t]
           X == txOf["viewer"][t]
           DF == draftFile[t]
           XF == txFile[t]
           rv == review[t]
           ms == mesh[t]
           mo == meshOf[t]
           st == stepFile[t]
           cl == call[c]
<1>0. /\ meshOf' = [meshOf EXCEPT ![Drafts!token(c)] = stepFile[Drafts!token(c)].export]
      /\ Drafts!Goes(c)
      /\ UNCHANGED <<mesh, Drafts!memory, draftFile, txFile, stepFile, review>>
  BY DEF Drafts!Convert, Drafts!Takes
<1>1. Drafts!Takes(c, "describe")
  OBVIOUS
<1>2. /\ s \in DraftSteps /\ s # <<>> /\ s[1][1] = "describe" /\ t \in Token /\ cl \in CallRec
      /\ DraftReady(s, cl, D, X, DF, XF, rv, ms, mo, st)
      /\ Drafts!for(c) = s[1][2] /\ Drafts!token(c) = t /\ HostOf[c] = "viewer"
      /\ Drafts!draft(c) = D /\ Drafts!transaction(c) = X
  BY <1>1, Taken
<1>3. DraftTyped
  BY DEF DraftInv
<1>4. /\ draftOf' = [draftOf EXCEPT !["viewer"][t] = D]
      /\ txOf' = [txOf EXCEPT !["viewer"][t] = X]
      /\ draftFile' = [draftFile EXCEPT ![t] = DF]
      /\ txFile' = [txFile EXCEPT ![t] = XF]
      /\ review' = [review EXCEPT ![t] = rv]
      /\ mesh' = [mesh EXCEPT ![t] = ms]
      /\ stepFile' = [stepFile EXCEPT ![t] = st]
  BY <1>0, <1>2, LeftAlone DEF Drafts!memory, Drafts!reviewed, Drafts!memory
<1>5. /\ meshOf' = [meshOf EXCEPT ![t] = st.export]
  BY <1>0, <1>2 DEF Drafts!memory
<1>. HIDE DEF s, t, D, X, DF, XF, rv, ms, mo, st, cl
<1>6. call' = [call EXCEPT ![c] = cl] \/ call' = [call EXCEPT ![c] = IF Len(todo[c]) = 1 THEN Drafts!Absent ELSE cl]
  BY <1>0, <1>2 DEF Drafts!memory, Drafts!Goes, cl, t
<1>7. cl \in CallRec /\ cl.token = t
  BY <1>2 DEF cl, t
<1>8. DraftDone(Tail(s), cl, D, X, DF, XF, rv, ms, st.export, st)
  BY <1>2, <1>7, DescribeFits
<1>. QED  BY <1>1, <1>4, <1>5, <1>6, <1>7, <1>8, StepTaken DEF s, t

-----------------------------------------------------------------------------
(* Drafts: every action, and the invariant.                                *)

\* A file is opened or closed, a review written, a draft discarded or converted.
LEMMA FilesKeep ==
  ASSUME NEW c, Client = {c}, "viewer" \in Host, DraftInv,
         Drafts!OpenFile(c) \/ Drafts!CloseFile(c) \/ Drafts!WriteReview(c) \/ Drafts!Discard(c) \/ Drafts!Convert(c)
  PROVE  DraftInv'
<1>1. CASE Drafts!OpenFile(c)
  <2>1. Drafts!Takes(c, "openDraft") \/ Drafts!Takes(c, "openTx")
    BY <1>1 DEF Drafts!OpenFile
  <2>. QED  BY <1>1, <2>1, OpenDraftKeeps, OpenTxKeeps
<1>2. CASE Drafts!CloseFile(c)
  <2>1. Drafts!Takes(c, "closeDraft") \/ Drafts!Takes(c, "closeTx")
    BY <1>2 DEF Drafts!CloseFile
  <2>. QED  BY <1>2, <2>1, CloseDraftKeeps, CloseTxKeeps
<1>3. CASE Drafts!WriteReview(c)
  <2>1. Drafts!Takes(c, "writeReview") \/ Drafts!Takes(c, "writeManifest")
    BY <1>3 DEF Drafts!WriteReview
  <2>. QED  BY <1>3, <2>1, ReviewKeeps, ManifestKeeps
<1>4. CASE Drafts!Discard(c)
  <2>1. \/ Drafts!Takes(c, "forgetDraft") \/ Drafts!Takes(c, "removeDraft")
        \/ Drafts!Takes(c, "forgetTx") \/ Drafts!Takes(c, "removeTx")
    BY <1>4 DEF Drafts!Discard
  <2>. QED  BY <1>4, <2>1, ForgetDraftKeeps, RemoveDraftKeeps, ForgetTxKeeps, RemoveTxKeeps
<1>5. CASE Drafts!Convert(c)
  <2>1. Drafts!Takes(c, "convert") \/ Drafts!Takes(c, "describe")
    BY <1>5 DEF Drafts!Convert
  <2>. QED  BY <1>5, <2>1, ConvertKeeps, DescribeKeeps
<1>. QED  BY <1>1, <1>2, <1>3, <1>4, <1>5

LEMMA RequestKeeps ==
  ASSUME NEW c, Client = {c}, "viewer" \in Host, DraftInv, Drafts!Request(c)
  PROVE  DraftInv'
<1>1. HostOf[c] = "viewer" /\ c \in Client /\ todo[c] = <<>> /\ DraftTyped
  BY DEF HostOf, DraftInv, Drafts!Request
<1> DEFINE Asks(r, t, f, h) ==
             LET tx == Drafts!_require_transaction(h, t)  d == Drafts!_require(h, t) IN
             /\ Drafts!CanStart(r, tx, d)
             /\ todo' = [todo EXCEPT ![c] = IF r.direct THEN Drafts!DirectScript(r.op)
                                            ELSE Drafts!TransactionScript(r.op, tx)]
             /\ call' = [call EXCEPT ![c] = IF todo'[c] = <<>> THEN Drafts!Absent
                           ELSE [kind |-> "call", token |-> t, face |-> f, grew |-> 0, data |-> Drafts!Absent]]
             /\ txOf' = [txOf EXCEPT ![h][t] = IF r.direct THEN @ ELSE tx]
             /\ draftOf' = [draftOf EXCEPT ![h][t] = IF r.direct \/ r.op # "discard" THEN d ELSE @]
<1>14. \E r \in Drafts!Offered(HostOf[c]), t \in Token : \E f \in IF r.op \in Drafts!Edits THEN Drafts!Face ELSE {"top"} :
         Asks(r, t, f, HostOf[c])
  BY DEF Drafts!Request
<1>. HIDE DEF Asks
<1>2. PICK r \in Drafts!Offered("viewer"), t \in Token :
        \E f \in IF r.op \in Drafts!Edits THEN Drafts!Face ELSE {"top"} : Asks(r, t, f, "viewer")
  BY <1>1, <1>14
<1> DEFINE D == draftOf["viewer"][t]
           X == txOf["viewer"][t]
           DF == draftFile[t]
           XF == txFile[t]
           rv == review[t]
           ms == mesh[t]
           mo == meshOf[t]
           st == stepFile[t]
           tx == IF Drafts!Readable(X) THEN X ELSE XF
           d == IF Drafts!Readable(D) THEN D ELSE DF
           s == IF r.direct THEN Drafts!DirectScript(r.op) ELSE Drafts!TransactionScript(r.op, tx)
           X2 == IF r.direct THEN X ELSE tx
           D2 == IF r.direct \/ r.op # "discard" THEN d ELSE D
<1>3. tx = Drafts!_require_transaction("viewer", t) /\ d = Drafts!_require("viewer", t)
  BY DEF Drafts!_require_transaction, Drafts!_require
<1>. HIDE DEF tx, d
<1>4. PICK f \in IF r.op \in Drafts!Edits THEN Drafts!Face ELSE {"top"} :
        /\ Drafts!CanStart(r, tx, d)
        /\ todo' = [todo EXCEPT ![c] = s]
        /\ call' = [call EXCEPT ![c] = IF todo'[c] = <<>> THEN Drafts!Absent
                      ELSE [kind |-> "call", token |-> t, face |-> f, grew |-> 0, data |-> Drafts!Absent]]
        /\ txOf' = [txOf EXCEPT !["viewer"][t] = X2]
        /\ draftOf' = [draftOf EXCEPT !["viewer"][t] = D2]
  BY <1>2, <1>3 DEF Asks
<1>5. /\ draftFile' = [draftFile EXCEPT ![t] = DF] /\ txFile' = [txFile EXCEPT ![t] = XF]
      /\ review' = [review EXCEPT ![t] = rv] /\ mesh' = [mesh EXCEPT ![t] = ms]
      /\ meshOf' = [meshOf EXCEPT ![t] = mo] /\ stepFile' = [stepFile EXCEPT ![t] = st]
  BY LeftAlone DEF Drafts!Request, Drafts!reviewed
<1>6. /\ DraftValues(D, X, DF, XF, rv, ms, mo, st) /\ TokenFits(D, X, DF, XF, rv, ms, mo, st) /\ Closed(X, rv)
  <2>1. \A e \in Client : todo[e] = <<>>
    BY <1>1
  <2>. QED  BY <1>1, <2>1 DEF DraftInv, DraftTyped, DraftValues
<1> DEFINE full == [kind |-> "call", token |-> t, face |-> f, grew |-> 0, data |-> Drafts!Absent]
           cl == IF s = <<>> THEN Drafts!Absent ELSE full
<1>7. full \in CallRec /\ full.grew = 0 /\ full.token = t
  <2>1. f \in Drafts!Face
    BY DEF Drafts!Face
  <2>. QED  BY <2>1 DEF CallRec
<1>8. s # <<>> => cl \in CallRec /\ cl.grew = 0 /\ cl.token = t
  <2>. HIDE DEF full, s
  <2>. QED  BY <1>7
<1>9. Started(r, tx, d, s, X2, D2, D, X, DF, XF)
  BY <1>2, <1>4 DEF tx, d, Started
<1>10. call' = [call EXCEPT ![c] = cl]
  <2>1. todo'[c] = s
    BY <1>1, <1>4 DEF DraftTyped
  <2>. HIDE DEF s
  <2>. QED  BY <1>4, <2>1
<1>11. cl \in CallRec \cup {Drafts!Absent} /\ (s = <<>> => cl = Drafts!Absent)
  <2>. HIDE DEF full, s
  <2>. QED  BY <1>7
<1>. HIDE DEF D, X, DF, XF, rv, ms, mo, st, s, X2, D2, full, cl
<1>12. s \in DraftSteps /\ DraftDone(s, cl, D2, X2, DF, XF, rv, ms, mo, st)
  BY <1>6, <1>8, <1>9, RequestFits
<1>13. s # <<>> => cl.token = t
  BY <1>8
<1>. QED  BY <1>1, <1>4, <1>5, <1>10, <1>11, <1>12, <1>13, StepKeeps

LEMMA RefuseKeeps ==
  ASSUME NEW c, Client = {c}, "viewer" \in Host, DraftInv, Drafts!Refuse(c)
  PROVE  DraftInv'
<1> DEFINE s == todo[c]
           t == call[c].token
           D == draftOf["viewer"][t]
           X == txOf["viewer"][t]
           DF == draftFile[t]
           XF == txFile[t]
           rv == review[t]
           ms == mesh[t]
           mo == meshOf[t]
           st == stepFile[t]
<1>1. c \in Client /\ s # <<>>
  BY DEF Drafts!Refuse
<1>2. /\ t \in Token /\ s \in DraftSteps /\ DraftScript(s)
      /\ DraftReady(s, call[c], D, X, DF, XF, rv, ms, mo, st)
  BY <1>1, UnderWay
<1>3. Head(s) = s[1]
  BY <1>1, <1>2, RestOfScript
<1>4. s[1][1] # "writeManifest"
  BY <1>3 DEF Drafts!Refuse
<1>5. /\ draftOf' = [draftOf EXCEPT !["viewer"][t] = D] /\ txOf' = [txOf EXCEPT !["viewer"][t] = X]
      /\ draftFile' = [draftFile EXCEPT ![t] = DF] /\ txFile' = [txFile EXCEPT ![t] = XF]
      /\ review' = [review EXCEPT ![t] = rv] /\ mesh' = [mesh EXCEPT ![t] = ms]
      /\ meshOf' = [meshOf EXCEPT ![t] = mo] /\ stepFile' = [stepFile EXCEPT ![t] = st]
  BY <1>2, LeftAlone DEF Drafts!Refuse, Drafts!reviewed, Drafts!memory
<1>6. todo' = [todo EXCEPT ![c] = <<>>] /\ call' = [call EXCEPT ![c] = Drafts!Absent]
  BY DEF Drafts!Refuse
<1>7. todo[c] = <<>> \/ call[c].token = t
  OBVIOUS
<1>. HIDE DEF s, t, D, X, DF, XF, rv, ms, mo, st
<1>8. DraftDone(<<>>, Drafts!Absent, D, X, DF, XF, rv, ms, mo, st)
  BY <1>2, <1>4 DEF DraftDone, DraftReady, CallFits
<1>9. <<>> \in DraftSteps
  BY EmptySeq DEF DraftSteps
<1>. QED  BY <1>2, <1>5, <1>6, <1>7, <1>8, <1>9, StepKeeps

\* A new store remembers nothing.
LEMMA EmptyFits ==
  ASSUME NEW D, NEW X, NEW DF, NEW XF, NEW rv, NEW ms, NEW mo, NEW st,
         TokenFits(D, X, DF, XF, rv, ms, mo, st)
  PROVE  /\ TokenFits(Drafts!Absent, Drafts!Absent, DF, XF, rv, ms, mo, st) /\ Closed(Drafts!Absent, rv)
<1>1. Drafts!Absent \notin DraftRec /\ Drafts!Absent \notin TxRec /\ Rec(Drafts!Absent) = 0
  BY DraftKinds
<1>2. DF \in DraftRec => 0 <= Len(DF.features)
  BY DraftKinds
<1>. QED  BY <1>1, <1>2 DEF TokenFits, TxFits, Closed

LEMMA NewStoreKeeps ==
  ASSUME "viewer" \in Host, DraftInv, NEW h \in Host, Drafts!NewStore(h)
  PROVE  DraftInv'
<1>1. DraftTyped
  BY DEF DraftInv
<1>2. UNCHANGED <<draftFile, txFile, stepFile, review, mesh, meshOf>>
  BY DEF Drafts!NewStore, Drafts!reviewed
<1>3. \A c \in Client : HostOf[c] = "viewer"
  BY DEF HostOf
<1> DEFINE none == [t \in Token |-> Drafts!Absent]
<1>4. draftOf' = [draftOf EXCEPT ![h] = none] /\ txOf' = [txOf EXCEPT ![h] = none]
  BY DEF Drafts!NewStore
<1>5. none \in [Token -> DraftRec \cup {Drafts!Absent}] /\ none \in [Token -> TxRec \cup {Drafts!Absent}]
      /\ \A t \in Token : none[t] = Drafts!Absent
  OBVIOUS
<1>. HIDE DEF none
<1>6. /\ draftOf' \in [Host -> [Token -> DraftRec \cup {Drafts!Absent}]]
      /\ txOf' \in [Host -> [Token -> TxRec \cup {Drafts!Absent}]]
  BY <1>1, <1>4, <1>5 DEF DraftTyped
<1>7. CASE h = "viewer"
  <2>1. /\ call' = [c \in Client |-> Drafts!Absent] /\ todo' = [c \in Client |-> <<>>]
    BY <1>3, <1>7 DEF Drafts!NewStore
  <2>2. <<>> \in DraftSteps
    BY EmptySeq DEF DraftSteps
  <2>3. DraftTyped'
    BY <1>1, <1>2, <1>6, <2>1, <2>2 DEF DraftTyped
  <2>4. draftOf'["viewer"] = none /\ txOf'["viewer"] = none
    BY <1>1, <1>4, <1>7 DEF DraftTyped
  <2>5. ASSUME NEW t \in Token
        PROVE  /\ TokenFits(draftOf["viewer"][t], txOf["viewer"][t], draftFile[t], txFile[t], review[t], mesh[t],
                            meshOf[t], stepFile[t])'
               /\ Closed(txOf["viewer"][t], review[t])'
    <3>1. TokenFits(draftOf["viewer"][t], txOf["viewer"][t], draftFile[t], txFile[t], review[t], mesh[t],
                    meshOf[t], stepFile[t])
      BY DEF DraftInv
    <3>2. /\ TokenFits(Drafts!Absent, Drafts!Absent, draftFile[t], txFile[t], review[t], mesh[t], meshOf[t],
                       stepFile[t])
          /\ Closed(Drafts!Absent, review[t])
      BY <3>1, EmptyFits
    <3>. QED  BY <1>2, <1>5, <2>4, <3>2
  <2>6. \A c \in Client : todo'[c] = <<>>
    BY <2>1
  <2>. QED  BY <2>3, <2>5, <2>6 DEF DraftInv
<1>8. CASE h # "viewer"
  <2>1. UNCHANGED <<call, todo>>
    <3>1. call' = [c \in Client |-> call[c]] /\ todo' = [c \in Client |-> todo[c]]
      BY <1>3, <1>8 DEF Drafts!NewStore
    <3>. QED  BY <1>1, <3>1 DEF DraftTyped
  <2>2. draftOf'["viewer"] = draftOf["viewer"] /\ txOf'["viewer"] = txOf["viewer"]
    BY <1>1, <1>4, <1>8 DEF DraftTyped
  <2>3. DraftTyped'
    BY <1>1, <1>2, <1>6, <2>1 DEF DraftTyped
  <2>. QED  BY <1>2, <2>1, <2>2, <2>3 DEF DraftInv
<1>. QED  BY <1>7, <1>8

LEMMA DraftsKeep ==
  ASSUME NEW c, Client = {c}, "viewer" \in Host, DraftInv, Drafts!Next
  PROVE  DraftInv'
<1>1. CASE \E h \in Host : Drafts!Crash(h) \/ Drafts!reload(h)
  <2>1. PICK h \in Host : Drafts!NewStore(h)
    BY <1>1 DEF Drafts!Crash, Drafts!reload
  <2>. QED  BY <2>1, NewStoreKeeps
<1>2. CASE \/ Drafts!Request(c) \/ Drafts!NewPart(c) \/ Drafts!Edit(c) \/ Drafts!Check(c) \/ Drafts!Refuse(c)
           \/ Drafts!NewTransaction(c) \/ Drafts!Record(c) \/ Drafts!ExportStep(c)
  BY <1>2, RequestKeeps, NewPartKeeps, EditKeeps, CheckKeeps, RefuseKeeps, NewTransactionKeeps, RecordKeeps,
     ExportKeeps
<1>3. CASE \/ Drafts!OpenFile(c) \/ Drafts!CloseFile(c) \/ Drafts!WriteReview(c) \/ Drafts!Discard(c)
           \/ Drafts!Convert(c)
  BY <1>3, FilesKeep
<1>. QED  BY <1>1, <1>2, <1>3 DEF Drafts!Next

LEMMA DraftsStart ==
  ASSUME "viewer" \in Host, Drafts!Init
  PROVE  DraftInv
<1>1. /\ draftOf = [h \in Host |-> [t \in Token |-> Drafts!Absent]] /\ txOf = draftOf
      /\ draftFile = [t \in Token |-> Drafts!Absent] /\ txFile = draftFile
      /\ stepFile = [t \in Token |-> Drafts!NoStep] /\ review = [t \in Token |-> Drafts!NoReview]
      /\ mesh = [t \in Token |-> <<>>] /\ meshOf = [t \in Token |-> 0]
      /\ call = [c \in Client |-> Drafts!Absent] /\ todo = [c \in Client |-> <<>>]
  BY DEF Drafts!Init
<1>2. /\ Drafts!NoStep \in [features : Seq(Drafts!Face), export : Nat] /\ Drafts!NoStep.features = <<>>
      /\ Drafts!NoStep.export = 0
      /\ Drafts!NoReview \in [features : Seq(Drafts!Face), complete : BOOLEAN]
      /\ <<>> \in Seq(Drafts!Face) /\ <<>> \in DraftSteps
  BY EmptySeq DEF Drafts!NoStep, Drafts!NoReview, DraftSteps
<1>3. DraftTyped
  BY <1>1, <1>2, DraftKinds DEF DraftTyped
<1>4. ASSUME NEW t \in Token
      PROVE  /\ TokenFits(draftOf["viewer"][t], txOf["viewer"][t], draftFile[t], txFile[t], review[t], mesh[t],
                          meshOf[t], stepFile[t])
             /\ Closed(txOf["viewer"][t], review[t])
  <2>1. /\ draftOf["viewer"][t] = Drafts!Absent /\ txOf["viewer"][t] = Drafts!Absent
        /\ draftFile[t] = Drafts!Absent /\ txFile[t] = Drafts!Absent
        /\ mesh[t] = <<>> /\ meshOf[t] = 0 /\ stepFile[t] = Drafts!NoStep
    BY <1>1
  <2>2. Drafts!Absent \notin DraftRec /\ Drafts!Absent \notin TxRec
    BY DraftKinds
  <2>. QED  BY <1>2, <2>1, <2>2 DEF TokenFits, TxFits, Closed
<1>5. \A c \in Client : todo[c] = <<>>
  BY <1>1
<1>. QED  BY <1>3, <1>4, <1>5 DEF DraftInv

LEMMA DraftsAlways ==
  ASSUME NEW c, Client = {c}
  PROVE  WorkbenchSpec => []DraftInv
<1>1. WorkbenchInit => DraftInv
  BY HostAssumption, DraftsStart DEF WorkbenchInit
<1>2. DraftInv /\ [WorkbenchNext]_workbenchVars => DraftInv'
  <2> SUFFICES ASSUME DraftInv, [WorkbenchNext]_workbenchVars PROVE DraftInv'
    OBVIOUS
  <2>1. CASE Drafts!Next
    BY <2>1, HostAssumption, DraftsKeep
  <2>2. CASE UNCHANGED draftVars
    <3>1. UNCHANGED <<draftOf, txOf, draftFile, txFile, stepFile, review, mesh, meshOf, call, todo>>
      BY <2>2 DEF draftVars
    <3>2. DraftTyped'
      BY <3>1 DEF DraftInv, DraftTyped
    <3>. QED  BY <3>1, <3>2 DEF DraftInv
  <2>. QED
    BY <2>1, <2>2 DEF WorkbenchNext, workbenchVars, runtimeVars
<1>. QED  BY <1>1, <1>2, PTL DEF WorkbenchSpec

(* What a transaction on disk has recorded is in the draft on disk, and an    *)
(* accepted one has a complete review that holds it: with one client, for any *)
(* hosts, tokens and bounds, wherever a crash or a new store comes between    *)
(* the two files.                                                             *)
(* (draft_geometry.py: the order of _write_state and _write_transaction_state *)
(* in every transaction operation, accept_transaction, discard_transaction.)  *)
THEOREM WhatIsRecordedIsApplied ==
  ASSUME NEW c, Client = {c}
  PROVE  WorkbenchSpec => []RecordedIsApplied
<1>1. ASSUME DraftInv, NEW t \in Token, Drafts!Readable(txFile[t])
      PROVE  /\ Drafts!Readable(draftFile[t]) => txFile[t].recorded <= Len(draftFile[t].features)
             /\ ~txFile[t].open => review[t].complete /\ txFile[t].recorded <= Len(review[t].features)
  <2>1. txFile[t] \in TxRec /\ (Drafts!Readable(draftFile[t]) => draftFile[t] \in DraftRec)
    BY <1>1, ReadableIs DEF DraftInv, DraftTyped
  <2>2. TokenFits(draftOf["viewer"][t], txOf["viewer"][t], draftFile[t], txFile[t], review[t], mesh[t], meshOf[t],
                  stepFile[t])
    BY <1>1 DEF DraftInv
  <2>. QED  BY <2>1, <2>2, DraftKinds DEF TokenFits
<1>2. DraftInv => RecordedIsApplied
  BY <1>1 DEF RecordedIsApplied, Drafts!RecordedIsApplied
<1>. QED  BY <1>2, DraftsAlways, PTL

(* A display mesh whose metadata names the export on disk was made from it:   *)
(* with one client, for any hosts, tokens and bounds, wherever a crash comes  *)
(* between the mesh and its metadata.                                         *)
(* (viewer/app.py: _prepare_draft_preview_model.)                             *)
THEOREM MeshesAreOfTheirExport ==
  ASSUME NEW c, Client = {c}
  PROVE  WorkbenchSpec => []MeshIsOfItsExport
<1>1. ASSUME DraftInv, NEW t \in Token, Drafts!Readable(draftFile[t]), meshOf[t] = stepFile[t].export
      PROVE  mesh[t] = stepFile[t].features
  <2>1. draftFile[t] \in DraftRec
    BY <1>1, ReadableIs DEF DraftInv, DraftTyped
  <2>2. TokenFits(draftOf["viewer"][t], txOf["viewer"][t], draftFile[t], txFile[t], review[t], mesh[t], meshOf[t],
                  stepFile[t])
    BY <1>1 DEF DraftInv
  <2>. QED  BY <1>1, <2>1, <2>2, DraftKinds DEF TokenFits
<1>2. DraftInv => MeshIsOfItsExport
  BY <1>1 DEF MeshIsOfItsExport, Drafts!MeshIsOfItsExport
<1>. QED  BY <1>2, DraftsAlways, PTL
================================================================================
