-------------------------- MODULE AgentLoop_proofs ---------------------------
(***************************************************************************)
(* Proofs about AgentLoop, for any number of runs and any limits.  The     *)
(* lemmas on sequences of messages say what becomes of a conversation when *)
(* its parts are put together, truncated and repaired.  RepairFacts and    *)
(* RepairResultsFacts are the two repairs of the code: the first gives     *)
(* every call a result, whatever was left of the conversation, the second  *)
(* keeps a well-formed prompt well formed when its beginning is cut off.   *)
(*                                                                         *)
(* The inductive invariant dates the calls: each is of a run and of an     *)
(* iteration, and a run has none of its current iteration until the        *)
(* response arrives.  So the results that are recorded next are the first  *)
(* of their calls, and prompts are made of parts with different calls.     *)
(*                                                                         *)
(* Induction over a sequence is an argument about the least prefix that    *)
(* fails (LeastNumber, UpTo).                                              *)
(***************************************************************************)
EXTENDS AgentLoop, SequenceTheorems, TLAPS, WellFoundedInduction

\* A non-empty set of numbers has a least one.
LEMMA LeastNumber ==
  ASSUME NEW S \in SUBSET Nat, S # {}
  PROVE  \E i \in S : \A j \in S : i <= j
<1>1. PICK i \in S : \A j \in S : ~(<<j, i>> \in OpToRel(<, Nat))
  BY NatLessThanWellFounded, WFMin
<1>2. \A j \in S : ~(j < i)
  BY <1>1 DEF OpToRel
<1> QED BY <1>2

\* FlattenSeq concatenates from the left.
LEMMA FlattenFacts ==
  ASSUME NEW S, NEW seqs \in Seq(Seq(S))
  PROVE  \E F \in [0 .. Len(seqs) -> Seq(S)] :
           /\ F[0] = <<>>
           /\ \A i \in 1 .. Len(seqs) : F[i] = F[i - 1] \o seqs[i]
           /\ FlattenSeq(seqs) = F[Len(seqs)]
<1>1. PICK n \in Nat : n = Len(seqs)
  OBVIOUS
<1>2. \A i \in 1 .. n : seqs[i] \in Seq(S)
  BY <1>1
<1> DEFINE Solves(f, m) ==
             f = [i \in 1 .. m |-> IF i = 1 THEN seqs[i] ELSE f[i - 1] \o seqs[i]]
           Next1(f, m) == IF m = 1 THEN seqs[m] ELSE f[m - 1] \o seqs[m]
           flat == CHOOSE f : Solves(f, n)
<1>3. \A m \in 0 .. n : \E f : Solves(f, m)
  <2> DEFINE Bad == {m \in 0 .. n : ~\E f : Solves(f, m)}
  <2>1. SUFFICES ASSUME Bad # {} PROVE FALSE
    OBVIOUS
  <2>2. PICK m \in Bad : \A j \in Bad : m <= j
    <3>1. Bad \in SUBSET Nat
      <4> HIDE DEF Solves
      <4> QED OBVIOUS
    <3> HIDE DEF Bad
    <3> QED BY <2>1, <3>1, LeastNumber
  <2>3. m \in 0 .. n /\ ~\E f : Solves(f, m)
    BY <2>2
  <2>4. m # 0
    <3>1. Solves([i \in 1 .. 0 |-> <<>>], 0)
      OBVIOUS
    <3> QED BY <3>1, <2>3
  <2>5. m - 1 \in 0 .. n /\ m - 1 \notin Bad
    <3>1. m - 1 \in 0 .. n /\ ~(m <= m - 1)
      BY <2>3, <2>4
    <3> HIDE DEF Bad
    <3> QED BY <2>2, <3>1
  <2>6. PICK f : Solves(f, m - 1)
    BY <2>5
  <2> DEFINE g == [i \in 1 .. m |-> IF i = m THEN Next1(f, m) ELSE f[i]]
  <2>7. ASSUME NEW i \in 1 .. m
        PROVE  g[i] = IF i = 1 THEN seqs[i] ELSE g[i - 1] \o seqs[i]
    <3>1. i # 1 => i - 1 \in 1 .. m /\ i - 1 # m
      BY <2>3
    <3>2. i # 1 => g[i - 1] = f[i - 1]
      BY <3>1
    <3>3. CASE i = m
      BY <3>2, <3>3
    <3>4. CASE i # m
      <4>1. i \in 1 .. (m - 1)
        BY <3>4, <2>3
      <4>2. f[i] = IF i = 1 THEN seqs[i] ELSE f[i - 1] \o seqs[i]
        BY <2>6, <4>1
      <4> QED BY <3>2, <3>4, <4>2
    <3> QED BY <3>3, <3>4
  <2>8. Solves(g, m)
    BY <2>7
  <2> QED BY <2>3, <2>8
<1>4. Solves(flat, n)
  <2>1. n \in 0 .. n
    OBVIOUS
  <2>2. \E f : Solves(f, n)
    <3> HIDE DEF Solves
    <3> QED BY <1>3, <2>1
  <2> QED BY <2>2
<1>5. \A i \in 1 .. n : flat[i] = IF i = 1 THEN seqs[i] ELSE flat[i - 1] \o seqs[i]
  BY <1>4
<1>6. FlattenSeq(seqs) = IF n = 0 THEN <<>> ELSE flat[n]
  BY <1>1 DEF FlattenSeq
<1> HIDE DEF flat
<1>7. \A i \in 1 .. n : flat[i] \in Seq(S)
  <2> DEFINE Bad == {i \in 1 .. n : flat[i] \notin Seq(S)}
  <2>1. SUFFICES ASSUME Bad # {} PROVE FALSE
    OBVIOUS
  <2>2. PICK i \in Bad : \A j \in Bad : i <= j
    <3>1. Bad \in SUBSET Nat
      OBVIOUS
    <3> HIDE DEF Bad
    <3> QED BY <2>1, <3>1, LeastNumber
  <2>3. i \in 1 .. n /\ flat[i] \notin Seq(S)
    BY <2>2
  <2>4. CASE i = 1
    BY <1>2, <1>5, <2>3, <2>4
  <2>5. CASE i # 1
    <3>1. i - 1 \in 1 .. n /\ ~(i <= i - 1)
      BY <2>3, <2>5
    <3>2. flat[i - 1] \in Seq(S)
      BY <2>2, <3>1
    <3>3. flat[i] = flat[i - 1] \o seqs[i]
      BY <1>5, <2>3, <2>5
    <3> QED BY <1>2, <2>3, <3>2, <3>3
  <2> QED BY <2>4, <2>5
<1> DEFINE F == [i \in 0 .. n |-> IF i = 0 THEN <<>> ELSE flat[i]]
<1>8. F \in [0 .. n -> Seq(S)] /\ F[0] = <<>>
  <2>1. ASSUME NEW i \in 0 .. n PROVE (IF i = 0 THEN <<>> ELSE flat[i]) \in Seq(S)
    BY <1>7
  <2> QED BY <2>1
<1>9. ASSUME NEW i \in 1 .. n PROVE F[i] = F[i - 1] \o seqs[i]
  <2>1. CASE i = 1
    <3>1. F[0] = <<>> /\ F[1] = seqs[1] /\ seqs[1] \in Seq(S)
      BY <1>2, <1>5, <2>1
    <3>2. <<>> \o seqs[1] = seqs[1]
      BY <3>1, ConcatEmptySeq
    <3> QED BY <2>1, <3>1, <3>2
  <2>2. CASE i # 1
    <3>1. i - 1 \in 1 .. n /\ i - 1 # 0
      BY <2>2
    <3>2. F[i] = flat[i] /\ F[i - 1] = flat[i - 1]
      BY <2>2, <3>1
    <3> QED BY <1>5, <2>2, <3>2
  <2> QED BY <2>1, <2>2
<1>10. FlattenSeq(seqs) = F[n]
  BY <1>6
<1> HIDE DEF F
<1> QED BY <1>1, <1>8, <1>9, <1>10

------------------------------------------------------------------------------
(* Sequences of messages.                                                  *)

\* Different messages ask for different calls.
Unique(ms) ==
  \A i, j \in 1 .. Len(ms) :
    /\ ms[i].role = "assistant"
    /\ ms[j].role = "assistant"
    /\ Range(ms[i].calls) \cap Range(ms[j].calls) # {}
    => i = j

\* What the LLM API takes, of calls that are all different.
WellFormed(ms) == CallsHaveResults(ms) /\ ResultsHaveCalls(ms) /\ Unique(ms)

\* Messages after i up to k are results.
Unbroken(ms, i, k) == \A l \in (i + 1) .. k : ms[l].role = "tool"

\* A call is answered next by a result with nothing but results before it.
LEMMA NextAnswer ==
  ASSUME NEW ms, NEW i, NEW c
  PROVE  c \in AnsweredNext(ms, i) <=>
           \E k \in (i + 1) .. Len(ms) : ms[k].calls[1] = c /\ Unbroken(ms, i, k)
BY DEF AnsweredNext, Unbroken

\* A call is answered later by any result of it.
LEMMA LaterAnswer ==
  ASSUME NEW ms, NEW i, NEW c
  PROVE  c \in AnsweredAfter(ms, i) <=>
           \E k \in (i + 1) .. Len(ms) : ms[k].calls[1] = c /\ ms[k].role = "tool"
BY DEF AnsweredAfter

\* The calls of ms are those of its assistant messages.
LEMMA Asks ==
  ASSUME NEW ms, NEW c
  PROVE  c \in CallsOf(ms) <=>
           \E i \in 1 .. Len(ms) : ms[i].role = "assistant" /\ c \in Range(ms[i].calls)
BY DEF CallsOf

\* Where the messages of p \o q come from.
LEMMA ConcatFacts ==
  ASSUME NEW p \in Seq(Message), NEW q \in Seq(Message)
  PROVE  /\ p \o q \in Seq(Message)
         /\ Len(p) \in Nat /\ Len(q) \in Nat /\ Len(p \o q) = Len(p) + Len(q)
         /\ \A i \in 1 .. Len(p) : (p \o q)[i] = p[i]
         /\ \A i \in 1 .. Len(q) : (p \o q)[Len(p) + i] = q[i]
         /\ \A i \in 1 .. Len(p \o q) :
              i \in 1 .. Len(p) \/ \E k \in 1 .. Len(q) : i = Len(p) + k
<1>1. /\ p \o q \in Seq(Message)
      /\ Len(p) \in Nat /\ Len(q) \in Nat /\ Len(p \o q) = Len(p) + Len(q)
  OBVIOUS
<1>2. \A i \in 1 .. Len(p) : (p \o q)[i] = p[i]
  OBVIOUS
<1>3. \A i \in 1 .. Len(q) : (p \o q)[Len(p) + i] = q[i]
  OBVIOUS
<1>4. ASSUME NEW i \in 1 .. Len(p \o q), i \notin 1 .. Len(p)
      PROVE  \E k \in 1 .. Len(q) : i = Len(p) + k
  <2>1. i - Len(p) \in 1 .. Len(q) /\ i = Len(p) + (i - Len(p))
    BY <1>1, <1>4
  <2> QED BY <2>1
<1> QED BY <1>1, <1>2, <1>3, <1>4

\* Runs of results within one part are runs in the whole.
LEMMA ConcatUnbroken ==
  ASSUME NEW p \in Seq(Message), NEW q \in Seq(Message), NEW i \in Nat
  PROVE  /\ \A k \in 1 .. Len(p) : Unbroken(p \o q, i, k) <=> Unbroken(p, i, k)
         /\ \A k \in 1 .. Len(q) :
              Unbroken(p \o q, Len(p) + i, Len(p) + k) <=> Unbroken(q, i, k)
<1> DEFINE w == p \o q
           m == Len(p)
<1>1. /\ m \in Nat /\ Len(q) \in Nat
      /\ \A l \in 1 .. m : w[l] = p[l]
      /\ \A l \in 1 .. Len(q) : w[m + l] = q[l]
  BY ConcatFacts
<1> HIDE DEF w, m
<1>2. ASSUME NEW k \in 1 .. m PROVE Unbroken(w, i, k) <=> Unbroken(p, i, k)
  <2>1. \A l \in (i + 1) .. k : l \in 1 .. m
    BY <1>1
  <2> QED BY <1>1, <2>1 DEF Unbroken
<1>3. ASSUME NEW k \in 1 .. Len(q)
      PROVE  Unbroken(w, m + i, m + k) <=> Unbroken(q, i, k)
  <2>1. ASSUME NEW l \in (m + i + 1) .. (m + k)
        PROVE  l - m \in (i + 1) .. k /\ w[l] = q[l - m]
    <3>1. l - m \in (i + 1) .. k /\ l - m \in 1 .. Len(q) /\ l = m + (l - m)
      BY <1>1
    <3> QED BY <1>1, <3>1
  <2>2. ASSUME NEW l \in (i + 1) .. k
        PROVE  m + l \in (m + i + 1) .. (m + k) /\ w[m + l] = q[l]
    <3>1. l \in 1 .. Len(q) /\ m + l \in (m + i + 1) .. (m + k)
      BY <1>1
    <3> QED BY <1>1, <3>1
  <2> QED BY <2>1, <2>2, ZenonT(60) DEF Unbroken
<1> QED BY <1>2, <1>3 DEF w, m

\* An answer in one part is an answer in the whole.
LEMMA ConcatAnswers ==
  ASSUME NEW p \in Seq(Message), NEW q \in Seq(Message)
  PROVE  /\ \A i \in 0 .. Len(p) : AnsweredNext(p, i) \subseteq AnsweredNext(p \o q, i)
         /\ \A i \in 0 .. Len(q) :
              AnsweredNext(q, i) \subseteq AnsweredNext(p \o q, Len(p) + i)
<1> DEFINE w == p \o q
<1>1. /\ Len(p) \in Nat /\ Len(q) \in Nat /\ Len(w) = Len(p) + Len(q)
      /\ \A i \in 1 .. Len(p) : w[i] = p[i]
      /\ \A i \in 1 .. Len(q) : w[Len(p) + i] = q[i]
  BY ConcatFacts
<1> HIDE DEF w
<1>2. ASSUME NEW i \in 0 .. Len(p), NEW c \in AnsweredNext(p, i)
      PROVE  c \in AnsweredNext(w, i)
  <2>1. PICK k \in (i + 1) .. Len(p) : p[k].calls[1] = c /\ Unbroken(p, i, k)
    BY <1>2, NextAnswer
  <2>2. k \in (i + 1) .. Len(w) /\ w[k].calls[1] = c
    BY <1>1, <2>1
  <2>3. Unbroken(w, i, k)
    <3>1. i \in Nat /\ k \in 1 .. Len(p)
      BY <1>1, <2>1
    <3> QED BY <2>1, <3>1, ConcatUnbroken DEF w
  <2> QED BY <2>2, <2>3, NextAnswer
<1>3. ASSUME NEW i \in 0 .. Len(q), NEW c \in AnsweredNext(q, i)
      PROVE  c \in AnsweredNext(w, Len(p) + i)
  <2>1. PICK k \in (i + 1) .. Len(q) : q[k].calls[1] = c /\ Unbroken(q, i, k)
    BY <1>3, NextAnswer
  <2>2. Len(p) + k \in (Len(p) + i + 1) .. Len(w) /\ w[Len(p) + k].calls[1] = c
    BY <1>1, <2>1
  <2>3. Unbroken(w, Len(p) + i, Len(p) + k)
    <3>1. i \in Nat /\ k \in 1 .. Len(q)
      BY <1>1, <2>1
    <3> QED BY <2>1, <3>1, ConcatUnbroken DEF w
  <2> QED BY <2>2, <2>3, NextAnswer
<1> QED BY <1>2, <1>3 DEF w

\* When the calls of both parts have results, those of the whole have.
LEMMA ConcatCallsHaveResults ==
  ASSUME NEW p \in Seq(Message), NEW q \in Seq(Message),
         CallsHaveResults(p), CallsHaveResults(q)
  PROVE  CallsHaveResults(p \o q)
<1> DEFINE w == p \o q
<1> SUFFICES ASSUME NEW i \in 1 .. Len(w), w[i].role = "assistant"
             PROVE  Range(w[i].calls) \subseteq AnsweredNext(w, i)
  BY DEF CallsHaveResults
<1>1. CASE i \in 1 .. Len(p)
  BY <1>1, ConcatFacts, ConcatAnswers DEF CallsHaveResults
<1>2. ASSUME NEW k \in 1 .. Len(q), i = Len(p) + k
      PROVE  Range(w[i].calls) \subseteq AnsweredNext(w, i)
  <2>1. w[i] = q[k] /\ k \in 0 .. Len(q)
    BY <1>2, ConcatFacts
  <2>2. AnsweredNext(q, k) \subseteq AnsweredNext(w, i)
    BY <1>2, <2>1, ConcatAnswers
  <2>3. Range(q[k].calls) \subseteq AnsweredNext(q, k)
    BY <1>2, <2>1 DEF CallsHaveResults
  <2> QED BY <2>1, <2>2, <2>3
<1> QED BY <1>1, <1>2, ConcatFacts

\* When the results of both parts have calls, those of the whole have.
LEMMA ConcatResultsHaveCalls ==
  ASSUME NEW p \in Seq(Message), NEW q \in Seq(Message),
         ResultsHaveCalls(p), ResultsHaveCalls(q)
  PROVE  ResultsHaveCalls(p \o q)
<1> DEFINE w == p \o q
<1>1. /\ Len(p) \in Nat /\ Len(q) \in Nat /\ Len(w) = Len(p) + Len(q)
      /\ \A i \in 1 .. Len(p) : w[i] = p[i]
      /\ \A i \in 1 .. Len(q) : w[Len(p) + i] = q[i]
      /\ \A i \in 1 .. Len(w) :
              i \in 1 .. Len(p) \/ \E k \in 1 .. Len(q) : i = Len(p) + k
  BY ConcatFacts
<1> HIDE DEF w
<1> SUFFICES ASSUME NEW i \in 1 .. Len(w), w[i].role = "tool"
             PROVE  \E j \in 1 .. (i - 1) : /\ w[j].role = "assistant"
                                            /\ w[i].calls[1] \in Range(w[j].calls)
                                            /\ Unbroken(w, j, i)
  BY DEF ResultsHaveCalls, Unbroken, w
<1>2. CASE i \in 1 .. Len(p)
  <2>1. PICK j \in 1 .. (i - 1) : /\ p[j].role = "assistant"
                                  /\ p[i].calls[1] \in Range(p[j].calls)
                                  /\ Unbroken(p, j, i)
    BY <1>1, <1>2 DEF ResultsHaveCalls, Unbroken
  <2>2. Unbroken(w, j, i)
    <3>1. j \in Nat
      BY <2>1
    <3> QED BY <1>2, <2>1, <3>1, ConcatUnbroken DEF w
  <2>3. w[j] = p[j] /\ w[i] = p[i]
    BY <1>1, <1>2, <2>1
  <2> QED BY <2>1, <2>2, <2>3
<1>3. ASSUME NEW n \in 1 .. Len(q), i = Len(p) + n
      PROVE  \E j \in 1 .. (i - 1) : /\ w[j].role = "assistant"
                                     /\ w[i].calls[1] \in Range(w[j].calls)
                                     /\ Unbroken(w, j, i)
  <2>1. PICK j \in 1 .. (n - 1) : /\ q[j].role = "assistant"
                                  /\ q[n].calls[1] \in Range(q[j].calls)
                                  /\ Unbroken(q, j, n)
    BY <1>1, <1>3 DEF ResultsHaveCalls, Unbroken
  <2>2. Unbroken(w, Len(p) + j, i)
    <3>1. j \in Nat
      BY <2>1
    <3> QED BY <1>3, <2>1, <3>1, ConcatUnbroken DEF w
  <2>3. /\ Len(p) + j \in 1 .. (i - 1) /\ j \in 1 .. Len(q)
        /\ w[Len(p) + j] = q[j] /\ w[i] = q[n]
    BY <1>1, <1>3, <2>1
  <2> QED BY <2>1, <2>2, <2>3
<1> QED BY <1>1, <1>2, <1>3

\* The calls of the whole are those of the parts.
LEMMA ConcatCalls ==
  ASSUME NEW p \in Seq(Message), NEW q \in Seq(Message)
  PROVE  CallsOf(p \o q) = CallsOf(p) \cup CallsOf(q)
<1> DEFINE w == p \o q
<1>1. /\ Len(p) \in Nat /\ Len(q) \in Nat /\ Len(w) = Len(p) + Len(q)
      /\ \A i \in 1 .. Len(p) : w[i] = p[i]
      /\ \A i \in 1 .. Len(q) : w[Len(p) + i] = q[i]
      /\ \A i \in 1 .. Len(w) :
              i \in 1 .. Len(p) \/ \E k \in 1 .. Len(q) : i = Len(p) + k
  BY ConcatFacts
<1> HIDE DEF w
<1>2. ASSUME NEW c, c \in CallsOf(w) PROVE c \in CallsOf(p) \cup CallsOf(q)
  <2>1. PICK i \in 1 .. Len(w) : w[i].role = "assistant" /\ c \in Range(w[i].calls)
    BY <1>2, Asks
  <2>2. CASE i \in 1 .. Len(p)
    BY <1>1, <2>1, <2>2, Asks
  <2>3. ASSUME NEW k \in 1 .. Len(q), i = Len(p) + k PROVE c \in CallsOf(q)
    BY <1>1, <2>1, <2>3, Asks
  <2> QED BY <1>1, <2>2, <2>3
<1>3. ASSUME NEW c, c \in CallsOf(p) PROVE c \in CallsOf(w)
  <2>1. \A i \in 1 .. Len(p) : i \in 1 .. Len(w)
    BY <1>1
  <2> QED BY <1>1, <1>3, <2>1, Asks
<1>4. ASSUME NEW c, c \in CallsOf(q) PROVE c \in CallsOf(w)
  <2>1. PICK i \in 1 .. Len(q) : q[i].role = "assistant" /\ c \in Range(q[i].calls)
    BY <1>4, Asks
  <2>2. Len(p) + i \in 1 .. Len(w) /\ w[Len(p) + i] = q[i]
    BY <1>1
  <2> QED BY <2>1, <2>2, Asks
<1> QED BY <1>2, <1>3, <1>4 DEF w

\* Parts with different calls make a whole with different calls.
LEMMA ConcatUnique ==
  ASSUME NEW p \in Seq(Message), NEW q \in Seq(Message),
         Unique(p), Unique(q), CallsOf(p) \cap CallsOf(q) = {}
  PROVE  Unique(p \o q)
<1> DEFINE w == p \o q
<1>1. /\ Len(p) \in Nat /\ Len(q) \in Nat /\ Len(w) = Len(p) + Len(q)
      /\ \A i \in 1 .. Len(p) : w[i] = p[i]
      /\ \A i \in 1 .. Len(q) : w[Len(p) + i] = q[i]
      /\ \A i \in 1 .. Len(w) :
              i \in 1 .. Len(p) \/ \E k \in 1 .. Len(q) : i = Len(p) + k
  BY ConcatFacts
<1> HIDE DEF w
<1> SUFFICES ASSUME NEW i \in 1 .. Len(w), NEW j \in 1 .. Len(w), NEW c,
                    w[i].role = "assistant", w[j].role = "assistant",
                    c \in Range(w[i].calls), c \in Range(w[j].calls)
             PROVE  i = j
  BY DEF Unique, w
<1>2. \A k \in 1 .. Len(p) : p[k].role = "assistant" /\ c \in Range(p[k].calls)
        => c \in CallsOf(p)
  BY Asks
<1>3. \A k \in 1 .. Len(q) : q[k].role = "assistant" /\ c \in Range(q[k].calls)
        => c \in CallsOf(q)
  BY Asks
<1>4. CASE i \in 1 .. Len(p) /\ j \in 1 .. Len(p)
  BY <1>1, <1>4 DEF Unique
<1>5. ASSUME NEW a \in 1 .. Len(q), NEW b \in 1 .. Len(q), i = Len(p) + a, j = Len(p) + b
      PROVE  i = j
  BY <1>1, <1>5 DEF Unique
<1> QED BY <1>1, <1>2, <1>3, <1>4, <1>5

\* Well-formed parts with different calls make a well-formed whole.
LEMMA ConcatWellFormed ==
  ASSUME NEW p \in Seq(Message), NEW q \in Seq(Message),
         WellFormed(p), WellFormed(q), CallsOf(p) \cap CallsOf(q) = {}
  PROVE  WellFormed(p \o q)
BY ConcatCallsHaveResults, ConcatResultsHaveCalls, ConcatUnique DEF WellFormed

------------------------------------------------------------------------------
(* The pieces prompts are made of.                                         *)

\* The messages the loop makes are messages.
LEMMA MessageTypes ==
  /\ System \in Message /\ User \in Message /\ Summary \in Seq(Message)
  /\ \A cs \in Seq(CallId) : Assistant(cs) \in Message
  /\ \A c \in CallId : Tool(c) \in Message
<1>1. <<>> \in Seq(CallId)
  OBVIOUS
<1>2. \A c \in CallId : <<c>> \in Seq(CallId)
  OBVIOUS
<1>3. /\ System \in Message /\ User \in Message
      /\ \A cs \in Seq(CallId) : Assistant(cs) \in Message
  BY <1>1 DEF Message, System, User, Assistant
<1>4. \A c \in CallId : Tool(c) \in Message
  BY <1>2 DEF Message, Tool
<1>5. Summary \in Seq(Message)
  <2>1. User \in Message /\ Assistant(<<>>) \in Message
    BY <1>1, <1>3
  <2> QED BY <2>1 DEF Summary
<1> QED BY <1>3, <1>4, <1>5

\* Results holds the result of each call, in order.
LEMMA ResultsFacts ==
  ASSUME NEW cs \in Seq(CallId)
  PROVE  /\ Results(cs) \in Seq(Message) /\ Len(Results(cs)) = Len(cs)
         /\ \A k \in 1 .. Len(cs) : Results(cs)[k] = Tool(cs[k])
<1>1. Len(cs) \in Nat /\ \A k \in 1 .. Len(cs) : cs[k] \in CallId
  OBVIOUS
<1>2. \A k \in 1 .. Len(cs) : Tool(cs[k]) \in Message
  BY <1>1, MessageTypes
<1> QED BY <1>1, <1>2 DEF Results

\* Messages without calls are well formed.
Plain(ms) == \A i \in 1 .. Len(ms) : ms[i].role # "tool" /\ ms[i].calls = <<>>

\* Messages without calls are well formed.
LEMMA PlainWellFormed ==
  ASSUME NEW ms, Plain(ms)
  PROVE  WellFormed(ms) /\ CallsOf(ms) = {}
<1>1. \A i \in 1 .. Len(ms) : Range(ms[i].calls) = {}
  BY DEF Plain, Range
<1>2. CallsOf(ms) = {}
  BY <1>1 DEF CallsOf
<1>3. CallsHaveResults(ms) /\ ResultsHaveCalls(ms) /\ Unique(ms)
  BY <1>1 DEF CallsHaveResults, ResultsHaveCalls, Unique, Plain
<1> QED BY <1>2, <1>3 DEF WellFormed

\* What the loop adds besides calls and results has no calls.
LEMMA PlainPieces ==
  /\ Plain(<<>>) /\ Plain(<<System>>) /\ Plain(<<User>>) /\ Plain(Summary)
  /\ Plain(<<Assistant(<<>>)>>) /\ Plain(<<Assistant(<<>>), User>>)
BY DEF Plain, Summary, System, User, Assistant

\* Calls with their results behind them are well formed.
LEMMA ExchangeWellFormed ==
  ASSUME NEW cs \in Seq(CallId)
  PROVE  /\ WellFormed(<<Assistant(cs)>> \o Results(cs))
         /\ CallsOf(<<Assistant(cs)>> \o Results(cs)) = Range(cs)
<1> DEFINE w == <<Assistant(cs)>> \o Results(cs)
           n == Len(cs)
<1>1. /\ <<Assistant(cs)>> \in Seq(Message) /\ Len(<<Assistant(cs)>>) = 1
      /\ <<Assistant(cs)>>[1] = Assistant(cs) /\ n \in Nat
  BY MessageTypes
<1>2. /\ Len(w) = 1 + n /\ w[1] = Assistant(cs)
      /\ \A k \in 1 .. n : w[1 + k] = Tool(cs[k])
  BY <1>1, ResultsFacts, ConcatFacts
<1> HIDE DEF w, n
<1>3. /\ w[1].role = "assistant" /\ w[1].calls = cs
      /\ \A k \in 1 .. n : w[1 + k].role = "tool" /\ w[1 + k].calls[1] = cs[k]
  <2>1. Assistant(cs).role = "assistant" /\ Assistant(cs).calls = cs
    BY DEF Assistant
  <2>2. \A c : Tool(c).role = "tool" /\ Tool(c).calls[1] = c
    BY DEF Tool
  <2> QED BY <1>2, <2>1, <2>2
<1>4. \A i \in 1 .. Len(w) : i # 1 => i - 1 \in 1 .. n /\ i = 1 + (i - 1)
  BY <1>1, <1>2
<1>5. \A i \in 1 .. Len(w) : i # 1 => w[i].role = "tool" /\ w[i].calls[1] = cs[i - 1]
  BY <1>3, <1>4
<1>6. \A k \in 1 .. Len(w) : Unbroken(w, 1, k)
  BY <1>1, <1>2, <1>5 DEF Unbroken
<1>7. \A c \in Range(cs) : \E k \in 1 .. n : c = cs[k]
  BY DEF Range, n
<1>8. \A k \in 1 .. n : cs[k] \in Range(cs)
  BY DEF Range, n
<1>9. CallsHaveResults(w)
  <2>1. ASSUME NEW c \in Range(cs) PROVE c \in AnsweredNext(w, 1)
    <3>1. PICK k \in 1 .. n : c = cs[k]
      BY <1>7
    <3>2. 1 + k \in (1 + 1) .. Len(w) /\ w[1 + k].calls[1] = c /\ Unbroken(w, 1, 1 + k)
      BY <1>1, <1>2, <1>3, <1>6, <3>1
    <3> QED BY <3>2, NextAnswer
  <2> QED BY <1>3, <1>5, <2>1 DEF CallsHaveResults
<1>10. ResultsHaveCalls(w)
  <2>1. ASSUME NEW i \in 1 .. Len(w), w[i].role = "tool"
        PROVE  /\ 1 \in 1 .. (i - 1) /\ w[1].role = "assistant"
               /\ w[i].calls[1] \in Range(w[1].calls)
               /\ \A k \in (1 + 1) .. i : w[k].role = "tool"
    <3>1. i # 1
      BY <1>3, <2>1
    <3> QED BY <1>1, <1>2, <1>3, <1>4, <1>5, <1>6, <1>8, <3>1 DEF Unbroken
  <2> QED BY <2>1 DEF ResultsHaveCalls
<1>11. Unique(w)
  BY <1>3, <1>5 DEF Unique
<1>12. CallsOf(w) = Range(cs)
  <2>1. ASSUME NEW c, c \in CallsOf(w) PROVE c \in Range(cs)
    BY <1>3, <1>5, <2>1, Asks
  <2>2. ASSUME NEW c \in Range(cs) PROVE c \in CallsOf(w)
    <3>1. 1 \in 1 .. Len(w)
      BY <1>1, <1>2
    <3> QED BY <1>3, <3>1, Asks
  <2> QED BY <2>1, <2>2
<1> QED BY <1>9, <1>10, <1>11, <1>12 DEF WellFormed, w

------------------------------------------------------------------------------
(* Truncation: the end of a well-formed sequence, with the results of      *)
(* calls that are gone made into text, is well formed.                     *)

\* s is ms without its first d messages.
Rest(s, ms, d) ==
  /\ s \in Seq(Message) /\ d \in 0 .. Len(ms) /\ Len(s) = Len(ms) - d
  /\ \A i \in 1 .. Len(s) : s[i] = ms[i + d]

\* SubSeq up to the end leaves out the first messages.
LEMMA RestOf ==
  ASSUME NEW ms \in Seq(Message), NEW a \in 1 .. (Len(ms) + 1)
  PROVE  Rest(SubSeq(ms, a, Len(ms)), ms, a - 1)
<1>1. Len(ms) \in Nat
  OBVIOUS
<1>2. \A i \in a .. Len(ms) : ms[i] \in Message
  BY <1>1
<1>3. /\ SubSeq(ms, a, Len(ms)) \in Seq(Message)
      /\ Len(SubSeq(ms, a, Len(ms))) = Len(ms) - (a - 1)
      /\ \A i \in 1 .. Len(SubSeq(ms, a, Len(ms))) :
            SubSeq(ms, a, Len(ms))[i] = ms[i + (a - 1)]
  BY <1>1, <1>2, SubSeqProperties
<1> QED BY <1>1, <1>3 DEF Rest

\* Runs of results in the rest are runs in the whole.
LEMMA RestUnbroken ==
  ASSUME NEW ms \in Seq(Message), NEW s, NEW d, Rest(s, ms, d),
         NEW i \in Nat, NEW k \in 1 .. Len(s)
  PROVE  Unbroken(s, i, k) <=> Unbroken(ms, i + d, k + d)
<1>1. Len(ms) \in Nat /\ d \in Nat /\ Len(s) \in Nat
  BY DEF Rest
<1>2. ASSUME NEW l \in (i + 1) .. k
      PROVE  l + d \in (i + d + 1) .. (k + d) /\ s[l] = ms[l + d]
  BY <1>1 DEF Rest
<1>3. ASSUME NEW l \in (i + d + 1) .. (k + d)
      PROVE  l - d \in (i + 1) .. k /\ s[l - d] = ms[l]
  <2>1. l - d \in (i + 1) .. k /\ l - d \in 1 .. Len(s) /\ (l - d) + d = l
    BY <1>1
  <2> QED BY <2>1 DEF Rest
<1> QED BY <1>2, <1>3, ZenonT(60) DEF Unbroken

\* In a well-formed sequence the results behind an assistant message are those
\* of its calls.
LEMMA OwnResults ==
  ASSUME NEW ms \in Seq(Message), ResultsHaveCalls(ms),
         NEW j \in 1 .. Len(ms), ms[j].role = "assistant",
         NEW k \in (j + 1) .. Len(ms), Unbroken(ms, j, k)
  PROVE  ms[k].calls[1] \in Range(ms[j].calls)
<1>1. Len(ms) \in Nat /\ k \in 1 .. Len(ms) /\ ms[k].role = "tool"
  BY DEF Unbroken
<1>2. PICK i \in 1 .. (k - 1) : /\ ms[i].role = "assistant"
                                /\ ms[k].calls[1] \in Range(ms[i].calls)
                                /\ Unbroken(ms, i, k)
  BY <1>1 DEF ResultsHaveCalls, Unbroken
<1>3. ~(i < j) /\ ~(j < i)
  BY <1>1, <1>2 DEF Unbroken
<1> QED BY <1>1, <1>2, <1>3

\* repairOrphanedToolResults on the end of a well-formed sequence.
LEMMA RepairResultsFacts ==
  ASSUME NEW ms \in Seq(Message), WellFormed(ms), NEW s, NEW d, Rest(s, ms, d)
  PROVE  /\ RepairResults(s) \in Seq(Message)
         /\ WellFormed(RepairResults(s))
         /\ CallsOf(RepairResults(s)) \subseteq CallsOf(ms)
         /\ \A m \in Range(RepairResults(s)) : m \in Range(ms) \/ m = User
<1> DEFINE w == RepairResults(s)
<1>1. /\ Len(ms) \in Nat /\ d \in 0 .. Len(ms) /\ Len(s) = Len(ms) - d /\ Len(s) \in Nat
      /\ \A i \in 1 .. Len(s) : s[i] \in Message /\ s[i] = ms[i + d] /\ i + d \in 1 .. Len(ms)
  BY DEF Rest
<1>2. /\ w \in Seq(Message) /\ Len(w) = Len(s)
      /\ \A i \in 1 .. Len(s) :
           w[i] = IF s[i].role = "tool" /\ s[i].calls[1] \notin CallsOf(s) THEN User ELSE s[i]
  BY <1>1, MessageTypes DEF RepairResults
<1> HIDE DEF w
<1>3. \A i \in 1 .. Len(s) : /\ w[i].role = "assistant" <=> s[i].role = "assistant"
                             /\ w[i].role = "assistant" => w[i] = s[i]
                             /\ w[i].role = "tool" => /\ w[i] = s[i]
                                                      /\ s[i].calls[1] \in CallsOf(s)
  BY <1>2 DEF User
<1>4. ASSUME NEW c PROVE c \in CallsOf(w) <=> c \in CallsOf(s)
  BY <1>2, <1>3, Asks
<1>5. ASSUME NEW c, c \in CallsOf(s) PROVE c \in CallsOf(ms)
  <2>1. PICK i \in 1 .. Len(s) : s[i].role = "assistant" /\ c \in Range(s[i].calls)
    BY <1>5, Asks
  <2> QED BY <1>1, <2>1, Asks
<1>6. ASSUME NEW j \in 1 .. Len(s), s[j].role = "assistant",
             NEW k \in (j + 1) .. Len(s), Unbroken(s, j, k)
      PROVE  w[k] = s[k] /\ s[k].role = "tool"
  <2>1. k \in 1 .. Len(s) /\ j \in Nat /\ s[k].role = "tool"
    BY <1>1, <1>6 DEF Unbroken
  <2>2. Unbroken(ms, j + d, k + d)
    BY <1>6, <2>1, RestUnbroken
  <2>3. /\ j + d \in 1 .. Len(ms) /\ k + d \in (j + d + 1) .. Len(ms)
        /\ ms[j + d].role = "assistant"
    BY <1>1, <1>6
  <2>4. ms[k + d].calls[1] \in Range(ms[j + d].calls)
    BY <2>2, <2>3, OwnResults DEF WellFormed
  <2>5. s[k].calls[1] \in CallsOf(s)
    BY <1>1, <1>6, <2>1, <2>4, Asks
  <2> QED BY <1>2, <2>1, <2>5
<1>7. ASSUME NEW j \in 1 .. Len(s), s[j].role = "assistant",
             NEW k \in (j + 1) .. Len(s), Unbroken(s, j, k)
      PROVE  Unbroken(w, j, k)
  <2> SUFFICES ASSUME NEW l \in (j + 1) .. k PROVE w[l].role = "tool"
    BY DEF Unbroken
  <2>1. l \in (j + 1) .. Len(s) /\ Unbroken(s, j, l)
    BY <1>1, <1>7 DEF Unbroken
  <2>2. w[l] = s[l] /\ s[l].role = "tool"
    BY <1>6, <1>7, <2>1
  <2> QED BY <2>2
<1>8. CallsHaveResults(w)
  <2> SUFFICES ASSUME NEW i \in 1 .. Len(s), w[i].role = "assistant",
                      NEW c \in Range(w[i].calls)
               PROVE  c \in AnsweredNext(w, i)
    BY <1>2 DEF CallsHaveResults
  <2>1. w[i] = s[i] /\ s[i] = ms[i + d] /\ i + d \in 1 .. Len(ms) /\ s[i].role = "assistant"
    BY <1>1, <1>3
  <2>2. c \in AnsweredNext(ms, i + d)
    BY <2>1 DEF WellFormed, CallsHaveResults
  <2>3. PICK k \in (i + d + 1) .. Len(ms) : ms[k].calls[1] = c /\ Unbroken(ms, i + d, k)
    BY <2>2, NextAnswer
  <2>4. k - d \in (i + 1) .. Len(s) /\ k - d \in 1 .. Len(s) /\ (k - d) + d = k /\ i \in Nat
    BY <1>1, <2>3
  <2>5. Unbroken(s, i, k - d)
    BY <2>3, <2>4, RestUnbroken
  <2>6. w[k - d] = s[k - d] /\ s[k - d] = ms[k]
    BY <1>1, <1>6, <2>1, <2>4, <2>5
  <2>7. Unbroken(w, i, k - d)
    BY <1>7, <2>1, <2>4, <2>5
  <2>8. k - d \in (i + 1) .. Len(w)
    BY <1>2, <2>4
  <2> QED BY <2>3, <2>6, <2>7, <2>8, NextAnswer
<1>9. ResultsHaveCalls(w)
  <2> SUFFICES ASSUME NEW i \in 1 .. Len(s), w[i].role = "tool"
               PROVE  \E j \in 1 .. (i - 1) : /\ w[j].role = "assistant"
                                              /\ w[i].calls[1] \in Range(w[j].calls)
                                              /\ Unbroken(w, j, i)
    BY <1>2 DEF ResultsHaveCalls, Unbroken
  <2> DEFINE c == s[i].calls[1]
  <2>1. w[i] = s[i] /\ s[i] = ms[i + d] /\ i + d \in 1 .. Len(ms) /\ c \in CallsOf(s)
    BY <1>1, <1>3
  <2>2. PICK j \in 1 .. Len(s) : s[j].role = "assistant" /\ c \in Range(s[j].calls)
    BY <2>1, Asks
  <2>3. PICK e \in 1 .. Len(ms) : e = i + d
    BY <2>1
  <2>4. PICK k \in 1 .. (e - 1) : /\ ms[k].role = "assistant"
                                  /\ c \in Range(ms[k].calls)
                                  /\ Unbroken(ms, k, e)
    <3>1. ms[e].role = "tool" /\ c = ms[e].calls[1]
      BY <2>3, <2>1
    <3> HIDE DEF c
    <3> QED BY <3>1 DEF WellFormed, ResultsHaveCalls, Unbroken
  <2>5. k \in 1 .. Len(ms) /\ j + d \in 1 .. Len(ms) /\ s[j] = ms[j + d]
    BY <1>1, <2>4
  <2>6. k = j + d
    BY <2>2, <2>4, <2>5 DEF WellFormed, Unique
  <2>7. i \in (j + 1) .. Len(s) /\ j \in Nat /\ j \in 1 .. (i - 1)
    BY <1>1, <2>3, <2>4, <2>6
  <2>8. Unbroken(s, j, i)
    BY <2>3, <2>4, <2>6, <2>7, RestUnbroken
  <2>9. Unbroken(w, j, i)
    BY <1>7, <2>2, <2>7, <2>8
  <2>10. w[j] = s[j]
    BY <1>3, <2>2
  <2> QED BY <2>1, <2>2, <2>7, <2>9, <2>10
<1>10. Unique(w)
  <2> SUFFICES ASSUME NEW i \in 1 .. Len(s), NEW j \in 1 .. Len(s),
                      w[i].role = "assistant", w[j].role = "assistant",
                      Range(w[i].calls) \cap Range(w[j].calls) # {}
               PROVE  i = j
    BY <1>2 DEF Unique
  <2>1. i + d = j + d
    BY <1>1, <1>3, ZenonT(60) DEF WellFormed, Unique
  <2> QED BY <1>1, <2>1
<1>11. ASSUME NEW m \in Range(w) PROVE m \in Range(ms) \/ m = User
  <2>1. PICK i \in 1 .. Len(s) : m = w[i]
    BY <1>2 DEF Range
  <2>2. m = s[i] \/ m = User
    BY <1>2, <2>1
  <2>3. ms[i + d] \in Range(ms)
    BY <1>1 DEF Range
  <2> QED BY <1>1, <2>2, <2>3
<1> QED BY <1>2, <1>4, <1>5, <1>8, <1>9, <1>10, <1>11 DEF WellFormed, w

------------------------------------------------------------------------------
(* Repairing calls: every sequence becomes one whose calls have results,   *)
(* and one whose results have calls keeps that.                            *)

\* FlattenSeq drops and adds nothing.
LEMMA FlattenElements ==
  ASSUME NEW S, NEW seqs \in Seq(Seq(S))
  PROVE  /\ FlattenSeq(seqs) \in Seq(S)
         /\ \A x : x \in Range(FlattenSeq(seqs)) <=>
                     \E k \in 1 .. Len(seqs) : x \in Range(seqs[k])
<1>1. PICK n \in Nat : n = Len(seqs)
  OBVIOUS
<1>2. PICK F \in [0 .. n -> Seq(S)] :
           /\ F[0] = <<>>
           /\ \A i \in 1 .. n : F[i] = F[i - 1] \o seqs[i]
           /\ FlattenSeq(seqs) = F[n]
  BY <1>1, FlattenFacts
<1> DEFINE Same(i) == \A x : x \in Range(F[i]) <=> \E k \in 1 .. i : x \in Range(seqs[k])
           Bad == {i \in 0 .. n : ~Same(i)}
<1>3. Bad = {}
  <2>1. SUFFICES ASSUME Bad # {} PROVE FALSE
    OBVIOUS
  <2>2. PICK i \in Bad : \A j \in Bad : i <= j
    <3>1. Bad \in SUBSET Nat
      <4> HIDE DEF Same
      <4> QED OBVIOUS
    <3> HIDE DEF Bad
    <3> QED BY <2>1, <3>1, LeastNumber
  <2>3. i \in 0 .. n /\ ~Same(i)
    BY <2>2
  <2>4. i # 0
    <3>1. Range(F[0]) = {}
      BY <1>2 DEF Range
    <3>2. Same(0)
      BY <3>1
    <3> QED BY <2>3, <3>2
  <2>5. i - 1 \in 0 .. n /\ Same(i - 1)
    <3>1. i - 1 \in 0 .. n /\ ~(i <= i - 1)
      BY <2>3, <2>4
    <3> HIDE DEF Same
    <3> QED BY <2>2, <3>1
  <2>6. Range(F[i]) = Range(F[i - 1]) \cup Range(seqs[i])
    <3>1. /\ F[i] = F[i - 1] \o seqs[i] /\ F[i - 1] \in Seq(S) /\ seqs[i] \in Seq(S)
      <4>1. i \in 1 .. n /\ i - 1 \in 0 .. n
        BY <2>3, <2>4
      <4>2. seqs[i] \in Seq(S)
        BY <1>1, <4>1
      <4> QED BY <1>2, <4>1, <4>2
    <3> QED BY <3>1, RangeConcatenation
  <2>7. \A k : k \in 1 .. i <=> k \in 1 .. (i - 1) \/ k = i
    BY <2>3, <2>4
  <2>8. Same(i)
    BY <2>5, <2>6, <2>7
  <2> QED BY <2>3, <2>8
<1>4. n \in 0 .. n
  OBVIOUS
<1>5. Same(n)
  <2> HIDE DEF Same
  <2> QED BY <1>3, <1>4
<1> QED BY <1>1, <1>2, <1>4, <1>5

\* The missing results, and no others.
LEMMA MissingFacts ==
  ASSUME NEW cs \in Seq(CallId), NEW S
  PROVE  /\ Missing(cs, S) \in Seq(Message)
         /\ \A m : m \in Range(Missing(cs, S)) <=>
                     \E c \in Range(cs) : c \notin S /\ m = Tool(c)
<1> DEFINE seqs == [k \in 1 .. Len(cs) |-> IF cs[k] \in S THEN <<>> ELSE <<Tool(cs[k])>>]
<1>1. /\ Len(cs) \in Nat /\ \A k \in 1 .. Len(cs) : cs[k] \in CallId
      /\ \A c \in Range(cs) : \E k \in 1 .. Len(cs) : c = cs[k]
      /\ \A k \in 1 .. Len(cs) : cs[k] \in Range(cs)
  BY DEF Range
<1>2. \A k \in 1 .. Len(cs) :
        (IF cs[k] \in S THEN <<>> ELSE <<Tool(cs[k])>>) \in Seq(Message)
  <2>1. \A k \in 1 .. Len(cs) : Tool(cs[k]) \in Message
    BY <1>1, MessageTypes
  <2>2. \A m \in Message : <<m>> \in Seq(Message)
    OBVIOUS
  <2> QED BY <2>1, <2>2
<1>3. seqs \in Seq(Seq(Message)) /\ Len(seqs) = Len(cs)
  BY <1>1, <1>2
<1>4. \A k \in 1 .. Len(cs) : \A m : m \in Range(seqs[k]) <=> cs[k] \notin S /\ m = Tool(cs[k])
  <2>1. \A m : Range(<<m>>) = {m}
    BY DEF Range
  <2>2. Range(<<>>) = {}
    BY DEF Range
  <2> QED BY <2>1, <2>2
<1>5. Missing(cs, S) = FlattenSeq(seqs)
  BY DEF Missing
<1> HIDE DEF seqs
<1>6. /\ FlattenSeq(seqs) \in Seq(Message)
      /\ \A m : m \in Range(FlattenSeq(seqs)) <=>
                  \E k \in 1 .. Len(cs) : m \in Range(seqs[k])
  BY <1>3, FlattenElements
<1>7. ASSUME NEW m
      PROVE  m \in Range(FlattenSeq(seqs)) <=>
               \E c \in Range(cs) : c \notin S /\ m = Tool(c)
  <2>1. m \in Range(FlattenSeq(seqs)) <=>
          \E k \in 1 .. Len(cs) : cs[k] \notin S /\ m = Tool(cs[k])
    BY <1>4, <1>6
  <2> QED BY <1>1, <2>1
<1> QED BY <1>5, <1>6, <1>7

\* What becomes of message i.
Block(ms, i) ==
  IF ms[i].role = "assistant"
  THEN <<ms[i]>> \o Missing(ms[i].calls, AnsweredNext(ms, i))
  ELSE <<ms[i]>>

\* An assistant message is followed by its missing results.
LEMMA BlockOfCalls ==
  ASSUME NEW ms \in Seq(Message), NEW i \in 1 .. Len(ms), ms[i].role = "assistant"
  PROVE  LET b == Block(ms, i) IN
         /\ b \in Seq(Message) /\ Len(b) \in Nat \ {0} /\ b[1] = ms[i]
         /\ \A k \in 2 .. Len(b) : \E c \in Range(ms[i].calls) : b[k] = Tool(c)
         /\ \A c \in Range(ms[i].calls) : c \notin AnsweredNext(ms, i) =>
              \E k \in 2 .. Len(b) : b[k] = Tool(c)
<1> DEFINE M == Missing(ms[i].calls, AnsweredNext(ms, i))
           b == <<ms[i]>> \o M
<1>1. ms[i] \in Message /\ ms[i].calls \in Seq(CallId)
  <2>1. ms[i] \in Message
    OBVIOUS
  <2> QED BY <2>1 DEF Message
<1>2. /\ M \in Seq(Message)
      /\ \A m : m \in Range(M) <=>
                  \E c \in Range(ms[i].calls) : c \notin AnsweredNext(ms, i) /\ m = Tool(c)
  BY <1>1, MissingFacts
<1> HIDE DEF M
<1>3. /\ b \in Seq(Message) /\ Len(M) \in Nat /\ Len(b) = 1 + Len(M) /\ b[1] = ms[i]
      /\ \A k \in 1 .. Len(M) : b[1 + k] = M[k]
  <2>1. <<ms[i]>> \in Seq(Message) /\ Len(<<ms[i]>>) = 1 /\ <<ms[i]>>[1] = ms[i]
    BY <1>1
  <2> QED BY <1>2, <2>1, ConcatFacts
<1>4. ASSUME NEW k \in 2 .. Len(b)
      PROVE  \E c \in Range(ms[i].calls) : b[k] = Tool(c)
  <2>1. k - 1 \in 1 .. Len(M) /\ k = 1 + (k - 1)
    BY <1>3
  <2>2. b[k] \in Range(M)
    BY <1>2, <1>3, <2>1 DEF Range
  <2> QED BY <1>2, <2>2
<1>5. ASSUME NEW c \in Range(ms[i].calls), c \notin AnsweredNext(ms, i)
      PROVE  \E k \in 2 .. Len(b) : b[k] = Tool(c)
  <2>1. Tool(c) \in Range(M)
    BY <1>2, <1>5
  <2>2. PICK k \in 1 .. Len(M) : M[k] = Tool(c)
    BY <1>2, <2>1 DEF Range
  <2>3. 1 + k \in 2 .. Len(b)
    BY <1>3, <2>2
  <2> QED BY <1>3, <2>2, <2>3
<1>6. Block(ms, i) = b
  BY DEF Block, M
<1> QED BY <1>3, <1>4, <1>5, <1>6

\* Other messages stay alone.
LEMMA BlockOfNone ==
  ASSUME NEW ms \in Seq(Message), NEW i \in 1 .. Len(ms), ms[i].role # "assistant"
  PROVE  /\ Block(ms, i) = <<ms[i]>> /\ Block(ms, i) \in Seq(Message)
         /\ Len(Block(ms, i)) = 1 /\ Block(ms, i)[1] = ms[i]
<1>1. ms[i] \in Message
  OBVIOUS
<1> QED BY <1>1 DEF Block

\* A run of results may go on in the second part.
LEMMA AcrossUnbroken ==
  ASSUME NEW p \in Seq(Message), NEW q \in Seq(Message),
         NEW i \in 1 .. Len(p), Unbroken(p, i, Len(p)),
         NEW k \in 1 .. Len(q), \A l \in 1 .. k : q[l].role = "tool"
  PROVE  Unbroken(p \o q, i, Len(p) + k)
<1> DEFINE w == p \o q
<1>1. /\ Len(p) \in Nat /\ Len(q) \in Nat
      /\ \A l \in 1 .. Len(p) : w[l] = p[l]
      /\ \A l \in 1 .. Len(q) : w[Len(p) + l] = q[l]
  BY ConcatFacts
<1> HIDE DEF w
<1> SUFFICES ASSUME NEW l \in (i + 1) .. (Len(p) + k) PROVE w[l].role = "tool"
  BY DEF Unbroken, w
<1>2. CASE l <= Len(p)
  <2>1. l \in 1 .. Len(p) /\ l \in (i + 1) .. Len(p)
    BY <1>1, <1>2
  <2> QED BY <1>1, <2>1 DEF Unbroken
<1>3. CASE ~(l <= Len(p))
  <2>1. l - Len(p) \in 1 .. k /\ l - Len(p) \in 1 .. Len(q) /\ l = Len(p) + (l - Len(p))
    BY <1>1, <1>3
  <2> QED BY <1>1, <2>1
<1> QED BY <1>2, <1>3

\* The calls in w, made of the first i messages, have results in w or still
\* find them behind i.
CallsPending(ms, i, w) ==
  \A p \in 1 .. Len(w) : w[p].role = "assistant" =>
    \A c \in Range(w[p].calls) :
      c \in AnsweredNext(w, p) \/ (Unbroken(w, p, Len(w)) /\ c \in AnsweredNext(ms, i))

\* And the results right behind i find their calls at the end of w.
ResultsPending(ms, i, w) ==
  \A c \in AnsweredNext(ms, i) :
    \E p \in 1 .. Len(w) : /\ w[p].role = "assistant"
                           /\ c \in Range(w[p].calls)
                           /\ Unbroken(w, p, Len(w))

\* The run of results behind i - 1, when message i is one.
LEMMA NextAnswerStep ==
  ASSUME NEW ms \in Seq(Message), NEW i \in 1 .. Len(ms)
  PROVE  /\ ms[i].role # "tool" => AnsweredNext(ms, i - 1) = {}
         /\ ms[i].role = "tool" =>
              AnsweredNext(ms, i - 1) = {ms[i].calls[1]} \cup AnsweredNext(ms, i)
<1>1. Len(ms) \in Nat
  OBVIOUS
<1>2. \A k : k \in (i - 1 + 1) .. Len(ms) <=> k \in i .. Len(ms)
  OBVIOUS
<1>3. \A k \in i .. Len(ms) : Unbroken(ms, i - 1, k) => ms[i].role = "tool"
  BY <1>1 DEF Unbroken
<1>4. CASE ms[i].role # "tool"
  <2>1. \A c : c \notin AnsweredNext(ms, i - 1)
    BY <1>2, <1>3, <1>4, NextAnswer
  <2> QED BY <1>4, <2>1
<1>5. CASE ms[i].role = "tool"
  <2>1. Unbroken(ms, i - 1, i)
    BY <1>5 DEF Unbroken
  <2>2. \A k \in (i + 1) .. Len(ms) : Unbroken(ms, i - 1, k) <=> Unbroken(ms, i, k)
    BY <1>1, <1>5 DEF Unbroken
  <2>3. ASSUME NEW c, c \in AnsweredNext(ms, i - 1)
        PROVE  c \in {ms[i].calls[1]} \cup AnsweredNext(ms, i)
    <3>1. PICK k \in i .. Len(ms) : ms[k].calls[1] = c /\ Unbroken(ms, i - 1, k)
      BY <1>2, <2>3, NextAnswer
    <3>2. CASE k = i
      BY <3>1, <3>2
    <3>3. CASE k # i
      <4>1. k \in (i + 1) .. Len(ms)
        BY <1>1, <3>3
      <4> QED BY <2>2, <3>1, <4>1, NextAnswer
    <3> QED BY <3>2, <3>3
  <2>4. ms[i].calls[1] \in AnsweredNext(ms, i - 1)
    <3>1. i \in (i - 1 + 1) .. Len(ms)
      BY <1>1
    <3> QED BY <2>1, <3>1, NextAnswer
  <2>5. ASSUME NEW c, c \in AnsweredNext(ms, i) PROVE c \in AnsweredNext(ms, i - 1)
    <3>1. PICK k \in (i + 1) .. Len(ms) : ms[k].calls[1] = c /\ Unbroken(ms, i, k)
      BY <2>5, NextAnswer
    <3>2. k \in (i - 1 + 1) .. Len(ms)
      BY <1>1
    <3> QED BY <2>2, <3>1, <3>2, NextAnswer
  <2> QED BY <1>5, <2>3, <2>4, <2>5
<1> QED BY <1>4, <1>5

\* One more block keeps every call answered or waiting.
LEMMA CallsPendingStep ==
  ASSUME NEW ms \in Seq(Message), NEW i \in 1 .. Len(ms), NEW g \in Seq(Message),
         CallsPending(ms, i - 1, g)
  PROVE  CallsPending(ms, i, g \o Block(ms, i))
<1> DEFINE b == Block(ms, i)
           w == g \o b
           n == Len(g)
           Done(p, c) ==
             c \in AnsweredNext(w, p) \/ (Unbroken(w, p, Len(w)) /\ c \in AnsweredNext(ms, i))
<1>1. b \in Seq(Message) /\ Len(b) \in Nat \ {0} /\ b[1] = ms[i]
  BY BlockOfCalls, BlockOfNone
<1>2. /\ n \in Nat /\ Len(w) = n + Len(b)
      /\ \A p \in 1 .. n : w[p] = g[p]
      /\ \A k \in 1 .. Len(b) : w[n + k] = b[k]
      /\ \A p \in 1 .. Len(w) : p \in 1 .. n \/ \E k \in 1 .. Len(b) : p = n + k
  BY <1>1, ConcatFacts
<1>3. ASSUME NEW p \in 1 .. n, g[p].role = "assistant", NEW c \in Range(g[p].calls)
      PROVE  Done(p, c)
  <2>1. CASE c \in AnsweredNext(g, p)
    <3>1. p \in 0 .. Len(g)
      BY <1>2
    <3> QED BY <1>1, <2>1, <3>1, ConcatAnswers
  <2>2. CASE Unbroken(g, p, n) /\ c \in AnsweredNext(ms, i - 1)
    <3>1. ms[i].role = "tool" /\ c \in {ms[i].calls[1]} \cup AnsweredNext(ms, i)
      BY <2>2, NextAnswerStep
    <3>2. b = <<ms[i]>> /\ Len(b) = 1 /\ b[1].role = "tool"
      BY <1>1, <3>1, BlockOfNone
    <3>3. Unbroken(w, p, n + 1) /\ n + 1 = Len(w) /\ w[n + 1] = ms[i]
      <4>1. 1 \in 1 .. Len(b) /\ \A l \in 1 .. 1 : b[l].role = "tool"
        BY <3>2
      <4> QED BY <1>1, <1>2, <2>2, <3>2, <4>1, AcrossUnbroken
    <3>4. n + 1 \in (p + 1) .. Len(w)
      BY <1>2, <3>3
    <3>5. ms[i].calls[1] \in AnsweredNext(w, p)
      BY <3>3, <3>4, NextAnswer
    <3> QED BY <3>1, <3>3, <3>5
  <2> QED BY <1>3, <2>1, <2>2 DEF CallsPending
<1>4. ASSUME NEW k \in 1 .. Len(b), b[k].role = "assistant", NEW c \in Range(b[k].calls)
      PROVE  Done(n + k, c)
  <2>1. ms[i].role = "assistant"
    <3>1. CASE ms[i].role # "assistant"
      BY <1>1, <1>4, <3>1, BlockOfNone
    <3> QED BY <3>1
  <2>2. /\ \A l \in 2 .. Len(b) : \E d \in Range(ms[i].calls) : b[l] = Tool(d)
        /\ \A d \in Range(ms[i].calls) : d \notin AnsweredNext(ms, i) =>
              \E l \in 2 .. Len(b) : b[l] = Tool(d)
    BY <2>1, BlockOfCalls
  <2>3. \A l \in 2 .. Len(b) : b[l].role = "tool"
    <3>1. \A d : Tool(d).role = "tool"
      BY DEF Tool
    <3> HIDE DEF b
    <3> QED BY <2>2, <3>1
  <2>4. k = 1 /\ c \in Range(ms[i].calls)
    <3>1. k \notin 2 .. Len(b)
      BY <1>4, <2>3
    <3> QED BY <1>1, <1>4, <3>1
  <2>5. ASSUME NEW l \in 2 .. Len(b) PROVE Unbroken(w, n + 1, n + l)
    <3>1. Unbroken(b, 1, l)
      BY <1>1, <2>3, <2>5 DEF Unbroken
    <3>2. l \in 1 .. Len(b) /\ 1 \in Nat
      BY <2>5
    <3> QED BY <1>1, <3>1, <3>2, ConcatUnbroken
  <2>6. CASE c \in AnsweredNext(ms, i)
    <3>1. Unbroken(w, n + 1, Len(w))
      <4>1. CASE Len(b) = 1
        BY <1>2, <4>1 DEF Unbroken
      <4>2. CASE Len(b) # 1
        <5>1. Len(b) \in 2 .. Len(b)
          <6>1. \A x \in Nat \ {0} : x # 1 => x \in 2 .. x
            OBVIOUS
          <6> HIDE DEF b
          <6> QED BY <1>1, <4>2, <6>1
        <5> QED BY <1>2, <2>5, <5>1
      <4> QED BY <4>1, <4>2
    <3> QED BY <2>4, <2>6, <3>1
  <2>7. CASE c \notin AnsweredNext(ms, i)
    <3>1. PICK l \in 2 .. Len(b) : b[l] = Tool(c)
      BY <2>2, <2>4, <2>7
    <3>2. /\ n + l \in (n + 1 + 1) .. Len(w) /\ l \in 1 .. Len(b)
      BY <1>1, <1>2
    <3>3. w[n + l].calls[1] = c
      BY <1>2, <3>1, <3>2 DEF Tool
    <3>4. c \in AnsweredNext(w, n + 1)
      BY <2>5, <3>2, <3>3, NextAnswer
    <3> QED BY <2>4, <3>4
  <2> QED BY <2>6, <2>7
<1> HIDE DEF w, b
<1>5. ASSUME NEW p \in 1 .. Len(w), w[p].role = "assistant", NEW c \in Range(w[p].calls)
      PROVE  Done(p, c)
  <2>1. CASE p \in 1 .. n
    BY <1>2, <1>3, <1>5, <2>1
  <2>2. ASSUME NEW k \in 1 .. Len(b), p = n + k PROVE Done(p, c)
    BY <1>2, <1>4, <1>5, <2>2
  <2> QED BY <1>2, <2>1, <2>2
<1> QED BY <1>5 DEF CallsPending, w, b

\* ResultsHaveCalls in terms of runs of results.
LEMMA CalledResults ==
  ASSUME NEW w,
         \A k \in 1 .. Len(w) : w[k].role = "tool" =>
           \E p \in 1 .. (k - 1) : /\ w[p].role = "assistant"
                                   /\ w[k].calls[1] \in Range(w[p].calls)
                                   /\ Unbroken(w, p, k)
  PROVE  ResultsHaveCalls(w)
BY DEF ResultsHaveCalls, Unbroken

\* One more block keeps every result with its call.
LEMMA ResultsPendingStep ==
  ASSUME NEW ms \in Seq(Message), NEW i \in 1 .. Len(ms), NEW g \in Seq(Message),
         ResultsHaveCalls(ms), ResultsHaveCalls(g), ResultsPending(ms, i - 1, g)
  PROVE  /\ ResultsHaveCalls(g \o Block(ms, i))
         /\ ResultsPending(ms, i, g \o Block(ms, i))
<1> DEFINE b == Block(ms, i)
           w == g \o b
           n == Len(g)
           Caller(p, k, c) == /\ w[p].role = "assistant"
                              /\ c \in Range(w[p].calls)
                              /\ Unbroken(w, p, k)
<1>1. b \in Seq(Message) /\ Len(b) \in Nat \ {0} /\ b[1] = ms[i]
  BY BlockOfCalls, BlockOfNone
<1>2. /\ n \in Nat /\ Len(w) = n + Len(b)
      /\ \A p \in 1 .. n : w[p] = g[p]
      /\ \A k \in 1 .. Len(b) : w[n + k] = b[k]
      /\ \A p \in 1 .. Len(w) : p \in 1 .. n \/ \E k \in 1 .. Len(b) : p = n + k
  BY <1>1, ConcatFacts
<1>3. ASSUME NEW k \in 1 .. n, w[k].role = "tool"
      PROVE  \E p \in 1 .. (k - 1) : Caller(p, k, w[k].calls[1])
  <2>1. g[k] = w[k]
    BY <1>2
  <2>2. PICK p \in 1 .. (k - 1) : /\ g[p].role = "assistant"
                                  /\ w[k].calls[1] \in Range(g[p].calls)
                                  /\ Unbroken(g, p, k)
    BY <1>3, <2>1 DEF ResultsHaveCalls, Unbroken
  <2>3. p \in 1 .. n /\ p \in Nat /\ w[p] = g[p]
    BY <1>2
  <2>4. Unbroken(w, p, k)
    BY <1>1, <1>3, <2>2, <2>3, ConcatUnbroken
  <2> QED BY <2>2, <2>3, <2>4
<1>4. CASE ms[i].role = "assistant"
  <2>1. /\ \A l \in 2 .. Len(b) : \E d \in Range(ms[i].calls) : b[l] = Tool(d)
    BY <1>4, BlockOfCalls
  <2>2. \A l \in 2 .. Len(b) : b[l].role = "tool" /\ b[l].calls[1] \in Range(ms[i].calls)
    <3>1. \A d : Tool(d).role = "tool" /\ Tool(d).calls[1] = d
      BY DEF Tool
    <3> QED BY <2>1, <3>1
  <2>3. w[n + 1] = ms[i] /\ n + 1 \in 1 .. Len(w)
    BY <1>1, <1>2
  <2>4. ASSUME NEW l \in 1 .. Len(b) PROVE Unbroken(w, n + 1, n + l)
    <3>1. Unbroken(b, 1, l)
      BY <1>1, <2>2, <2>4 DEF Unbroken
    <3> QED BY <1>1, <3>1, ConcatUnbroken
  <2>5. ASSUME NEW l \in 1 .. Len(b), w[n + l].role = "tool"
        PROVE  \E p \in 1 .. (n + l - 1) : Caller(p, n + l, w[n + l].calls[1])
    <3>1. w[n + l] = b[l] /\ l # 1
      BY <1>1, <1>2, <1>4, <2>5
    <3>2. l \in 2 .. Len(b) /\ n + 1 \in 1 .. (n + l - 1)
      BY <1>1, <1>2, <3>1
    <3> QED BY <1>4, <2>2, <2>3, <2>4, <3>1, <3>2
  <2>6. ResultsHaveCalls(w)
    <3> HIDE DEF w, b
    <3>1. ASSUME NEW k \in 1 .. Len(w), w[k].role = "tool"
          PROVE  \E p \in 1 .. (k - 1) : Caller(p, k, w[k].calls[1])
      <4>1. CASE k \in 1 .. n
        BY <1>3, <3>1, <4>1
      <4>2. ASSUME NEW l \in 1 .. Len(b), k = n + l
            PROVE  \E p \in 1 .. (k - 1) : Caller(p, k, w[k].calls[1])
        <5> HIDE DEF Caller, n
        <5>1. w[n + l].role = "tool"
          BY <3>1, <4>2
        <5>2. PICK p \in 1 .. (n + l - 1) : Caller(p, n + l, w[n + l].calls[1])
          BY <2>5, <5>1
        <5>3. Caller(p, k, w[k].calls[1])
          BY <4>2, <5>2
        <5>4. p \in 1 .. (k - 1)
          <6>1. k - 1 = n + l - 1
            BY <1>2, <4>2
          <6> QED BY <5>2, <6>1
        <5> QED BY <5>3, <5>4
      <4> QED BY <1>2, <4>1, <4>2
    <3> QED BY <3>1, CalledResults
  <2>7. ASSUME NEW c \in AnsweredNext(ms, i) PROVE c \in Range(ms[i].calls)
    <3>1. PICK k \in (i + 1) .. Len(ms) : ms[k].calls[1] = c /\ Unbroken(ms, i, k)
      BY <2>7, NextAnswer
    <3> QED BY <1>4, <3>1, OwnResults
  <2>8. Unbroken(w, n + 1, Len(w))
    <3>1. Len(b) \in 1 .. Len(b)
      BY <1>1
    <3> QED BY <1>2, <2>4, <3>1
  <2>9. ResultsPending(ms, i, w)
    <3> HIDE DEF w, b
    <3> QED BY <1>4, <2>3, <2>7, <2>8 DEF ResultsPending
  <2> QED BY <2>6, <2>9
<1>5. CASE ms[i].role # "assistant"
  <2>1. Len(b) = 1 /\ Len(w) = n + 1 /\ w[n + 1] = ms[i] /\ n + 1 \in 1 .. Len(w)
    BY <1>1, <1>2, <1>5, BlockOfNone, SMTT(30)
  <2>2. CASE ms[i].role = "tool"
    <3>1. AnsweredNext(ms, i - 1) = {ms[i].calls[1]} \cup AnsweredNext(ms, i)
      BY <2>2, NextAnswerStep
    <3>2. ASSUME NEW c \in AnsweredNext(ms, i - 1)
          PROVE  \E p \in 1 .. n : Caller(p, n + 1, c)
      <4>1. PICK p \in 1 .. n : /\ g[p].role = "assistant"
                                /\ c \in Range(g[p].calls)
                                /\ Unbroken(g, p, n)
        BY <3>2 DEF ResultsPending
      <4>2. \A l \in 1 .. 1 : b[l].role = "tool"
        BY <1>1, <2>2
      <4>3. Unbroken(w, p, n + 1)
        <5>1. 1 \in 1 .. Len(b)
          BY <2>1
        <5> QED BY <1>1, <4>1, <4>2, <5>1, AcrossUnbroken
      <4> QED BY <1>2, <4>1, <4>3
    <3>3. \E p \in 1 .. n : Caller(p, n + 1, ms[i].calls[1])
      BY <3>1, <3>2
    <3>4. \A p \in 1 .. Len(w) : p \in 1 .. n \/ p = n + 1
      BY <1>2, <2>1
    <3>5. \A p \in 1 .. n : p \in 1 .. (n + 1 - 1) /\ p \in 1 .. Len(w)
      BY <1>2, <2>1
    <3> HIDE DEF w, b
    <3>6. ResultsHaveCalls(w)
      <4>1. ASSUME NEW k \in 1 .. Len(w), w[k].role = "tool"
            PROVE  \E p \in 1 .. (k - 1) : Caller(p, k, w[k].calls[1])
        <5> HIDE DEF Caller
        <5> QED BY <1>3, <2>1, <3>3, <3>4, <3>5, <4>1
      <4> QED BY <4>1, CalledResults
    <3>7. ResultsPending(ms, i, w)
      BY <2>1, <3>1, <3>2, <3>5 DEF ResultsPending
    <3> QED BY <3>6, <3>7 DEF w, b
  <2>3. CASE ms[i].role # "tool"
    <3>1. AnsweredNext(ms, i) = {}
      <4>1. SUFFICES ASSUME NEW c \in AnsweredNext(ms, i) PROVE FALSE
        OBVIOUS
      <4>2. PICK k \in (i + 1) .. Len(ms) : ms[k].calls[1] = c /\ Unbroken(ms, i, k)
        BY <4>1, NextAnswer
      <4>3. k \in 1 .. Len(ms) /\ ms[k].role = "tool"
        BY <4>2 DEF Unbroken
      <4>4. PICK j \in 1 .. (k - 1) : ms[j].role = "assistant" /\ Unbroken(ms, j, k)
        BY <4>3 DEF ResultsHaveCalls, Unbroken
      <4>5. ~(j < i)
        BY <2>3, <4>2, <4>3, <4>4 DEF Unbroken
      <4>6. ~(i < j)
        BY <4>2, <4>3, <4>4 DEF Unbroken
      <4> QED BY <1>5, <4>4, <4>5, <4>6
    <3>2. \A p \in 1 .. Len(w) : p \in 1 .. n \/ p = n + 1
      BY <1>2, <2>1
    <3> HIDE DEF w, b
    <3>3. ResultsHaveCalls(w)
      <4>1. ASSUME NEW k \in 1 .. Len(w), w[k].role = "tool"
            PROVE  \E p \in 1 .. (k - 1) : Caller(p, k, w[k].calls[1])
        <5> HIDE DEF Caller
        <5> QED BY <1>3, <2>1, <2>3, <3>2, <4>1
      <4> QED BY <4>1, CalledResults
    <3>4. ResultsPending(ms, i, w)
      BY <3>1 DEF ResultsPending
    <3> QED BY <3>3, <3>4 DEF w, b
  <2> QED BY <2>2, <2>3
<1> QED BY <1>4, <1>5

\* Induction up to n.
LEMMA UpTo ==
  ASSUME NEW n \in Nat, NEW S, 0 \in S, \A i \in 1 .. n : i - 1 \in S => i \in S
  PROVE  n \in S
<1> DEFINE Bad == {i \in 0 .. n : i \notin S}
<1>1. SUFFICES ASSUME Bad # {} PROVE FALSE
  OBVIOUS
<1>2. PICK i \in Bad : \A j \in Bad : i <= j
  <2>1. Bad \in SUBSET Nat
    OBVIOUS
  <2> HIDE DEF Bad
  <2> QED BY <1>1, <2>1, LeastNumber
<1>3. i \in 1 .. n /\ i - 1 \in 0 .. n /\ ~(i <= i - 1)
  BY <1>2
<1>4. i - 1 \in S
  BY <1>2, <1>3
<1> QED BY <1>2, <1>3, <1>4

\* The calls and the elements of a block.
LEMMA BlockCalls ==
  ASSUME NEW ms \in Seq(Message), NEW i \in 1 .. Len(ms)
  PROVE  LET b == Block(ms, i) IN
         /\ b \in Seq(Message)
         /\ Unique(b)
         /\ \A c : c \in CallsOf(b) <=> ms[i].role = "assistant" /\ c \in Range(ms[i].calls)
         /\ \A m \in Range(b) :
              \/ m = ms[i]
              \/ ms[i].role = "assistant" /\ \E c \in Range(ms[i].calls) : m = Tool(c)
<1> DEFINE b == Block(ms, i)
<1>1. /\ b \in Seq(Message) /\ Len(b) \in Nat \ {0} /\ b[1] = ms[i]
      /\ \A k \in 2 .. Len(b) :
           ms[i].role = "assistant" /\ \E c \in Range(ms[i].calls) : b[k] = Tool(c)
  <2>1. CASE ms[i].role = "assistant"
    BY <2>1, BlockOfCalls
  <2>2. CASE ms[i].role # "assistant"
    <3>1. \A k : k \notin 2 .. 1
      OBVIOUS
    <3> QED BY <2>2, <3>1, BlockOfNone
  <2> QED BY <2>1, <2>2
<1> HIDE DEF b
<1>2. \A k \in 1 .. Len(b) : k = 1 \/ k \in 2 .. Len(b)
  BY <1>1
<1>3. 1 \in 1 .. Len(b)
  <2>1. \A x \in Nat \ {0} : 1 \in 1 .. x
    OBVIOUS
  <2> QED BY <1>1, <2>1
<1>4. \A k \in 1 .. Len(b) : b[k].role = "assistant" => k = 1
  <2>1. \A c : Tool(c).role = "tool"
    BY DEF Tool
  <2> QED BY <1>1, <1>2, <2>1
<1>5. Unique(b)
  BY <1>4 DEF Unique
<1>6. ASSUME NEW c
      PROVE  c \in CallsOf(b) <=> ms[i].role = "assistant" /\ c \in Range(ms[i].calls)
  <2>1. c \in CallsOf(b) <=>
          \E k \in 1 .. Len(b) : b[k].role = "assistant" /\ c \in Range(b[k].calls)
    BY Asks
  <2> QED BY <1>1, <1>3, <1>4, <2>1
<1>7. ASSUME NEW m \in Range(b)
      PROVE  \/ m = ms[i]
             \/ ms[i].role = "assistant" /\ \E c \in Range(ms[i].calls) : m = Tool(c)
  <2>1. PICK k \in 1 .. Len(b) : m = b[k]
    BY <1>1 DEF Range
  <2> QED BY <1>1, <1>2, <2>1
<1> QED BY <1>1, <1>5, <1>6, <1>7 DEF b

\* The repaired sequence is the blocks one after the other.
LEMMA RepairedPrefixes ==
  ASSUME NEW ms \in Seq(Message)
  PROVE  /\ \E F \in [0 .. Len(ms) -> Seq(Message)] :
              /\ F[0] = <<>>
              /\ \A i \in 1 .. Len(ms) : F[i] = F[i - 1] \o Block(ms, i)
              /\ RepairCalls(ms) = F[Len(ms)]
         /\ \A m \in Range(RepairCalls(ms)) :
              \E i \in 1 .. Len(ms) : m \in Range(Block(ms, i))
<1> DEFINE blocks == [i \in 1 .. Len(ms) |-> Block(ms, i)]
<1>1. Len(ms) \in Nat /\ \A i \in 1 .. Len(ms) : Block(ms, i) \in Seq(Message)
  BY BlockCalls
<1>2. /\ blocks \in Seq(Seq(Message)) /\ Len(blocks) = Len(ms)
      /\ \A i \in 1 .. Len(ms) : blocks[i] = Block(ms, i)
  BY <1>1
<1>3. RepairCalls(ms) = FlattenSeq(blocks)
  BY DEF RepairCalls, Block
<1> HIDE DEF blocks
<1>4. \E F \in [0 .. Len(blocks) -> Seq(Message)] :
         /\ F[0] = <<>>
         /\ \A i \in 1 .. Len(blocks) : F[i] = F[i - 1] \o blocks[i]
         /\ FlattenSeq(blocks) = F[Len(blocks)]
  BY <1>2, FlattenFacts
<1>5. \A m \in Range(FlattenSeq(blocks)) :
         \E i \in 1 .. Len(blocks) : m \in Range(blocks[i])
  BY <1>2, FlattenElements
<1> QED BY <1>2, <1>3, <1>4, <1>5

\* What the repair makes of messages: every call has its result; results keep
\* their calls, and calls stay unique; no call is added.
LEMMA RepairFacts ==
  ASSUME NEW ms \in Seq(Message)
  PROVE  /\ RepairCalls(ms) \in Seq(Message)
         /\ CallsHaveResults(RepairCalls(ms))
         /\ ResultsHaveCalls(ms) => ResultsHaveCalls(RepairCalls(ms))
         /\ Unique(ms) => Unique(RepairCalls(ms))
         /\ CallsOf(RepairCalls(ms)) \subseteq CallsOf(ms)
         /\ \A m \in Range(RepairCalls(ms)) :
              m \in Range(ms) \/ \E c \in CallsOf(ms) : m = Tool(c)
<1>1. PICK n \in Nat : n = Len(ms)
  OBVIOUS
<1>2. PICK F \in [0 .. n -> Seq(Message)] :
           /\ F[0] = <<>>
           /\ \A i \in 1 .. n : F[i] = F[i - 1] \o Block(ms, i)
           /\ RepairCalls(ms) = F[n]
  BY <1>1, RepairedPrefixes
<1>3. ASSUME NEW i \in 1 .. n
      PROVE  i - 1 \in 0 .. n /\ i \in 0 .. n /\ i \in 1 .. Len(ms)
  BY <1>1
<1>4. n \in 0 .. n /\ 0 \in 0 .. n
  OBVIOUS
<1> DEFINE A == {i \in 0 .. n : CallsPending(ms, i, F[i])}
           B == {i \in 0 .. n : ResultsHaveCalls(F[i]) /\ ResultsPending(ms, i, F[i])}
           C == {i \in 0 .. n :
                   \A c \in CallsOf(F[i]) :
                     \E j \in 1 .. i : ms[j].role = "assistant" /\ c \in Range(ms[j].calls)}
           D == {i \in C : Unique(F[i])}
<1>5. n \in A
  <2>1. CallsPending(ms, 0, F[0])
    BY <1>2 DEF CallsPending
  <2>2. ASSUME NEW i \in 1 .. n, CallsPending(ms, i - 1, F[i - 1])
        PROVE  CallsPending(ms, i, F[i])
    BY <1>2, <1>3, <2>2, CallsPendingStep
  <2>3. 0 \in A /\ \A i \in 1 .. n : i - 1 \in A => i \in A
    BY <1>3, <1>4, <2>1, <2>2
  <2> HIDE DEF A
  <2> QED BY <2>3, UpTo
<1>6. ASSUME ResultsHaveCalls(ms) PROVE n \in B
  <2>1. ResultsHaveCalls(F[0])
    BY <1>2 DEF ResultsHaveCalls
  <2>2. ResultsPending(ms, 0, F[0])
    <3>1. ASSUME NEW c \in AnsweredNext(ms, 0) PROVE FALSE
      <4>1. PICK k \in (0 + 1) .. Len(ms) : Unbroken(ms, 0, k)
        BY <3>1, NextAnswer
      <4>2. k \in 1 .. Len(ms) /\ 1 \in 1 .. Len(ms) /\ ms[1].role = "tool"
        BY <1>1, <4>1 DEF Unbroken
      <4> QED BY <1>6, <4>2 DEF ResultsHaveCalls
    <3> QED BY <3>1 DEF ResultsPending
  <2>3. ASSUME NEW i \in 1 .. n, ResultsHaveCalls(F[i - 1]), ResultsPending(ms, i - 1, F[i - 1])
        PROVE  ResultsHaveCalls(F[i]) /\ ResultsPending(ms, i, F[i])
    BY <1>2, <1>3, <1>6, <2>3, ResultsPendingStep
  <2>4. 0 \in B /\ \A i \in 1 .. n : i - 1 \in B => i \in B
    BY <1>3, <1>4, <2>1, <2>2, <2>3
  <2> HIDE DEF B
  <2> QED BY <2>4, UpTo
<1>7. 0 \in C
  <2>1. CallsOf(F[0]) = {}
    BY <1>2, PlainPieces, PlainWellFormed
  <2> QED BY <1>4, <2>1
<1>8. ASSUME NEW i \in 1 .. n
      PROVE  /\ F[i - 1] \in Seq(Message) /\ Block(ms, i) \in Seq(Message)
             /\ CallsOf(F[i]) = CallsOf(F[i - 1]) \cup CallsOf(Block(ms, i))
  BY <1>2, <1>3, BlockCalls, ConcatCalls
<1>9. ASSUME NEW i \in 1 .. n, i - 1 \in C
      PROVE  i \in C
  <2> SUFFICES ASSUME NEW c \in CallsOf(F[i])
               PROVE  \E j \in 1 .. i : ms[j].role = "assistant" /\ c \in Range(ms[j].calls)
    BY <1>3
  <2>1. CASE c \in CallsOf(F[i - 1])
    <3>1. PICK j \in 1 .. (i - 1) : ms[j].role = "assistant" /\ c \in Range(ms[j].calls)
      BY <1>9, <2>1
    <3> QED BY <3>1
  <2>2. CASE c \in CallsOf(Block(ms, i))
    <3>1. i \in 1 .. i
      BY <1>3
    <3> QED BY <1>3, <2>2, <3>1, BlockCalls
  <2> QED BY <1>8, <2>1, <2>2
<1>10. n \in C
  <2> HIDE DEF C
  <2> QED BY <1>7, <1>9, UpTo
<1>11. ASSUME Unique(ms) PROVE n \in D
  <2>1. 0 \in D
    <3>1. Unique(F[0])
      BY <1>2, PlainPieces, PlainWellFormed DEF WellFormed
    <3> QED BY <1>7, <3>1
  <2>2. ASSUME NEW i \in 1 .. n, i - 1 \in D PROVE i \in D
    <3>1. i - 1 \in C /\ Unique(F[i - 1])
      BY <2>2
    <3>2. ASSUME NEW c, c \in CallsOf(F[i - 1]), c \in CallsOf(Block(ms, i)) PROVE FALSE
      <4>1. PICK j \in 1 .. (i - 1) : ms[j].role = "assistant" /\ c \in Range(ms[j].calls)
        BY <3>1, <3>2
      <4>2. ms[i].role = "assistant" /\ c \in Range(ms[i].calls)
        BY <1>3, <3>2, BlockCalls
      <4>3. i \in 1 .. Len(ms) /\ j \in 1 .. Len(ms) /\ i # j
        BY <1>1
      <4> QED BY <1>11, <4>1, <4>2, <4>3 DEF Unique
    <3>3. Unique(Block(ms, i))
      BY <1>3, BlockCalls
    <3>4. Unique(F[i])
      <4>1. CallsOf(F[i - 1]) \cap CallsOf(Block(ms, i)) = {}
        BY <3>2
      <4>2. Unique(F[i - 1] \o Block(ms, i))
        BY <1>8, <3>1, <3>3, <4>1, ConcatUnique
      <4> QED BY <1>2, <4>2
    <3>5. i \in C
      BY <1>9, <3>1
    <3> QED BY <3>4, <3>5
  <2> HIDE DEF D
  <2> QED BY <2>1, <2>2, UpTo
<1>12. RepairCalls(ms) = F[n] /\ F[n] \in Seq(Message)
  BY <1>2, <1>4
<1>13. CallsHaveResults(F[n])
  <2>1. AnsweredNext(ms, n) = {}
    <3>1. ASSUME NEW c \in AnsweredNext(ms, n) PROVE FALSE
      <4>1. PICK k \in (n + 1) .. Len(ms) : Unbroken(ms, n, k)
        BY <3>1, NextAnswer
      <4> QED BY <1>1, <4>1
    <3> QED BY <3>1
  <2>2. CallsPending(ms, n, F[n])
    BY <1>5
  <2> QED BY <2>1, <2>2 DEF CallsPending, CallsHaveResults
<1>14. ASSUME NEW c \in CallsOf(F[n]) PROVE c \in CallsOf(ms)
  BY <1>1, <1>10, Asks
<1>15. ASSUME NEW m \in Range(RepairCalls(ms))
       PROVE  m \in Range(ms) \/ \E c \in CallsOf(ms) : m = Tool(c)
  <2>1. PICK i \in 1 .. Len(ms) : m \in Range(Block(ms, i))
    BY RepairedPrefixes
  <2>2. CASE m = ms[i]
    <3>1. ms[i] \in Range(ms)
      BY DEF Range
    <3> QED BY <2>2, <3>1
  <2>3. ASSUME ms[i].role = "assistant", NEW c \in Range(ms[i].calls), m = Tool(c)
        PROVE  c \in CallsOf(ms)
    BY <2>3, Asks
  <2> QED BY <2>1, <2>2, <2>3, BlockCalls
<1> QED BY <1>6, <1>11, <1>12, <1>13, <1>14, <1>15

------------------------------------------------------------------------------
(* What the actions make of the session and of prompts.                    *)

\* A non-empty set of numbers up to n has a greatest one.
LEMMA GreatestNumber ==
  ASSUME NEW n \in Nat, NEW S \in SUBSET (0 .. n), S # {}
  PROVE  \E i \in S : \A j \in S : j <= i
<1> DEFINE T == {n - i : i \in S}
<1>1. T \in SUBSET Nat /\ T # {}
  <2>1. \A i \in S : n - i \in Nat /\ n - i \in T
    OBVIOUS
  <2>2. \E i \in S : TRUE
    OBVIOUS
  <2> QED BY <2>1, <2>2
<1>2. PICK t \in T : \A u \in T : t <= u
  <2> HIDE DEF T
  <2> QED BY <1>1, LeastNumber
<1>3. PICK i \in S : t = n - i
  BY <1>2
<1>4. ASSUME NEW j \in S PROVE j <= i
  <2>1. n - j \in T
    OBVIOUS
  <2>2. n - i <= n - j
    BY <1>2, <1>3, <2>1
  <2>3. i \in 0 .. n /\ j \in 0 .. n
    OBVIOUS
  <2> HIDE DEF T
  <2> QED BY <2>2, <2>3
<1> QED BY <1>4

\* An abort at the loop condition finds no call without a result.
LEMMA UnansweredNone ==
  ASSUME NEW ms \in Seq(Message), CallsHaveResults(ms)
  PROVE  Unanswered(ms) = <<>>
<1> DEFINE asked == {i \in 1 .. Len(ms) : ms[i].role = "assistant" /\ ms[i].calls # <<>>}
           last == CHOOSE i \in asked : \A j \in asked : j <= i
<1>1. CASE asked = {}
  BY <1>1 DEF Unanswered
<1>2. CASE asked # {}
  <2>1. Len(ms) \in Nat /\ asked \in SUBSET (0 .. Len(ms))
    OBVIOUS
  <2>2. \E i \in asked : \A j \in asked : j <= i
    <3> HIDE DEF asked
    <3> QED BY <1>2, <2>1, GreatestNumber
  <2>3. last \in asked
    <3> HIDE DEF asked
    <3> QED BY <2>2
  <2>4. Unanswered(ms) = Missing(ms[last].calls, AnsweredAfter(ms, last))
    BY <1>2 DEF Unanswered
  <2>5. last \in 1 .. Len(ms) /\ ms[last].role = "assistant"
    <3> HIDE DEF last
    <3> QED BY <2>3
  <2> HIDE DEF last, asked
  <2>6. ms[last].calls \in Seq(CallId)
    <3>1. ms[last] \in Message
      BY <2>5
    <3> QED BY <3>1 DEF Message
  <2>7. ASSUME NEW c \in Range(ms[last].calls) PROVE c \in AnsweredAfter(ms, last)
    <3>1. c \in AnsweredNext(ms, last)
      BY <2>5 DEF CallsHaveResults
    <3>2. PICK k \in (last + 1) .. Len(ms) : ms[k].calls[1] = c /\ Unbroken(ms, last, k)
      BY <3>1, NextAnswer
    <3>3. ms[k].role = "tool"
      BY <2>5, <3>2 DEF Unbroken
    <3> QED BY <3>2, <3>3, LaterAnswer
  <2>8. /\ Missing(ms[last].calls, AnsweredAfter(ms, last)) \in Seq(Message)
        /\ Range(Missing(ms[last].calls, AnsweredAfter(ms, last))) = {}
    BY <2>6, <2>7, MissingFacts
  <2>9. \A s \in Seq(Message) : Range(s) = {} => s = <<>>
    <3>1. ASSUME NEW s \in Seq(Message), Range(s) = {} PROVE s = <<>>
      <4>1. \A k \in 1 .. Len(s) : s[k] \in Range(s)
        BY DEF Range
      <4>2. Len(s) = 0
        BY <3>1, <4>1
      <4> QED BY <4>2
    <3> QED BY <3>1
  <2> QED BY <2>4, <2>8, <2>9
<1> QED BY <1>1, <1>2

\* What has a result keeps it when messages follow, and results that follow
\* count.
LEMMA AppendedAnswers ==
  ASSUME NEW p \in Seq(Message), NEW q \in Seq(Message), NEW i \in 0 .. Len(p)
  PROVE  /\ AnsweredAfter(p, i) \subseteq AnsweredAfter(p \o q, i)
         /\ \A k \in 1 .. Len(q) : \A c : q[k] = Tool(c) => c \in AnsweredAfter(p \o q, i)
<1> DEFINE w == p \o q
<1>1. /\ Len(p) \in Nat /\ Len(q) \in Nat /\ Len(w) = Len(p) + Len(q)
      /\ \A l \in 1 .. Len(p) : w[l] = p[l]
      /\ \A l \in 1 .. Len(q) : w[Len(p) + l] = q[l]
  BY ConcatFacts
<1> HIDE DEF w
<1>2. ASSUME NEW c \in AnsweredAfter(p, i) PROVE c \in AnsweredAfter(w, i)
  <2>1. PICK k \in (i + 1) .. Len(p) : p[k].calls[1] = c /\ p[k].role = "tool"
    BY LaterAnswer
  <2>2. k \in (i + 1) .. Len(w) /\ w[k] = p[k]
    BY <1>1
  <2> QED BY <2>1, <2>2, LaterAnswer
<1>3. ASSUME NEW k \in 1 .. Len(q), NEW c, q[k] = Tool(c)
      PROVE  c \in AnsweredAfter(w, i)
  <2>1. Len(p) + k \in (i + 1) .. Len(w) /\ w[Len(p) + k] = q[k]
    BY <1>1
  <2>2. Tool(c).role = "tool" /\ Tool(c).calls[1] = c
    BY DEF Tool
  <2> QED BY <1>3, <2>1, <2>2, LaterAnswer
<1> QED BY <1>2, <1>3 DEF w

\* Messages without calls change nothing, before or behind others.
LEMMA PlainBeside ==
  ASSUME NEW p \in Seq(Message), NEW q \in Seq(Message), Plain(p)
  PROVE  /\ CallsHaveResults(q) => CallsHaveResults(p \o q) /\ CallsHaveResults(q \o p)
         /\ ResultsHaveCalls(q) => ResultsHaveCalls(p \o q) /\ ResultsHaveCalls(q \o p)
         /\ Unique(q) => Unique(p \o q) /\ Unique(q \o p)
         /\ WellFormed(q) => WellFormed(p \o q) /\ WellFormed(q \o p)
         /\ CallsOf(p \o q) = CallsOf(q) /\ CallsOf(q \o p) = CallsOf(q)
         /\ \A m \in Range(p \o q) \cup Range(q \o p) : m \in Range(q) \/ m.calls = <<>>
<1>1. WellFormed(p) /\ CallsOf(p) = {}
  BY PlainWellFormed
<1>2. CallsOf(p \o q) = CallsOf(q) /\ CallsOf(q \o p) = CallsOf(q)
  <2>1. /\ CallsOf(p \o q) = CallsOf(p) \cup CallsOf(q)
        /\ CallsOf(q \o p) = CallsOf(q) \cup CallsOf(p)
    BY ConcatCalls
  <2> QED BY <1>1, <2>1
<1>3. CallsHaveResults(q) => CallsHaveResults(p \o q) /\ CallsHaveResults(q \o p)
  BY <1>1, ConcatCallsHaveResults DEF WellFormed
<1>4. ResultsHaveCalls(q) => ResultsHaveCalls(p \o q) /\ ResultsHaveCalls(q \o p)
  BY <1>1, ConcatResultsHaveCalls DEF WellFormed
<1>5. Unique(q) => Unique(p \o q) /\ Unique(q \o p)
  <2>1. CallsOf(p) \cap CallsOf(q) = {} /\ CallsOf(q) \cap CallsOf(p) = {}
    BY <1>1
  <2> QED BY <1>1, <2>1, ConcatUnique DEF WellFormed
<1>6. ASSUME NEW m \in Range(p) PROVE m.calls = <<>>
  BY <1>6 DEF Plain, Range
<1>7. /\ Range(p \o q) = Range(p) \cup Range(q)
      /\ Range(q \o p) = Range(p) \cup Range(q)
  BY RangeConcatenation
<1> QED BY <1>2, <1>3, <1>4, <1>5, <1>6, <1>7 DEF WellFormed

\* The sequences without calls that the loop adds.
LEMMA PlainTypes ==
  /\ <<>> \in Seq(Message) /\ <<System>> \in Seq(Message) /\ <<User>> \in Seq(Message)
  /\ Summary \in Seq(Message) /\ <<Assistant(<<>>)>> \in Seq(Message)
  /\ <<Assistant(<<>>), User>> \in Seq(Message)
<1>1. <<>> \in Seq(CallId)
  OBVIOUS
<1>2. System \in Message /\ User \in Message /\ Assistant(<<>>) \in Message
  BY <1>1, MessageTypes
<1> QED BY <1>2, MessageTypes

\* A system prompt before ms.
LEMMA SystemFirst ==
  ASSUME NEW ms \in Seq(Message)
  PROVE  /\ <<System>> \o ms \in Seq(Message) /\ <<System>> \o ms # <<>>
         /\ Head(<<System>> \o ms) = System
<1>1. System \in Message
  BY MessageTypes
<1> QED BY <1>1

\* Session.buildMessages makes a well-formed prompt of a session whose results
\* have their calls, even when calls lack results.
LEMMA BuildFacts ==
  ASSUME NEW ms \in Seq(Message), ResultsHaveCalls(ms), Unique(ms)
  PROVE  LET w == BuildMessages(ms) IN
         /\ w \in Seq(Message) /\ w # <<>> /\ Head(w) = System /\ WellFormed(w)
         /\ \A m \in Range(w) :
              m \in Range(ms) \/ m.calls = <<>> \/ \E c \in CallsOf(ms) : m = Tool(c)
<1> DEFINE w == BuildMessages(ms)
           s == IF summary THEN Summary ELSE <<>>
           q == RepairCalls(ms)
<1>1. /\ q \in Seq(Message) /\ WellFormed(q)
      /\ \A m \in Range(q) : m \in Range(ms) \/ \E c \in CallsOf(ms) : m = Tool(c)
  BY RepairFacts DEF WellFormed
<1>2. Plain(s) /\ s \in Seq(Message)
  BY PlainPieces, PlainTypes
<1>3. w = <<System>> \o (s \o q)
  <2>1. w = <<System>> \o s \o q
    BY DEF BuildMessages
  <2>2. <<System>> \in Seq(Message)
    BY PlainTypes
  <2> HIDE DEF w, s, q
  <2> QED BY <1>1, <1>2, <2>1, <2>2
<1> HIDE DEF w, s, q
<1>4. /\ s \o q \in Seq(Message) /\ WellFormed(s \o q)
      /\ \A m \in Range(s \o q) : m \in Range(q) \/ m.calls = <<>>
  BY <1>1, <1>2, PlainBeside, ConcatFacts
<1>5. /\ WellFormed(w)
      /\ \A m \in Range(w) : m \in Range(s \o q) \/ m.calls = <<>>
  BY <1>3, <1>4, PlainBeside, PlainPieces, PlainTypes
<1>6. w \in Seq(Message) /\ w # <<>> /\ Head(w) = System
  BY <1>3, <1>4, SystemFirst
<1> QED BY <1>1, <1>4, <1>5, <1>6 DEF w

\* The calls of a sub-agent's first request have results.
LEMMA ChildFacts ==
  ASSUME session \in Seq(Message)
  PROVE  ChildPrompt \in Seq(Message) /\ CallsHaveResults(ChildPrompt)
<1> DEFINE a == IF Len(session) > Inherited THEN Len(session) - Inherited + 1 ELSE 1
           ms == Append(LastOf(Inherited, session), User)
<1>1. Inherited \in Nat \ {0} /\ Len(session) \in Nat
  BY ThresholdAssumption
<1>2. a \in 1 .. (Len(session) + 1)
  BY <1>1
<1>3. LastOf(Inherited, session) \in Seq(Message)
  <2>1. LastOf(Inherited, session) = SubSeq(session, a, Len(session))
    BY DEF LastOf
  <2> HIDE DEF a
  <2> QED BY <1>2, <2>1, RestOf DEF Rest
<1>4. ms \in Seq(Message)
  BY <1>3, MessageTypes
<1>5. ChildPrompt = <<System>> \o RepairCalls(ms)
  BY DEF ChildPrompt
<1> HIDE DEF ms
<1>6. RepairCalls(ms) \in Seq(Message) /\ CallsHaveResults(RepairCalls(ms))
  BY <1>4, RepairFacts
<1> QED BY <1>5, <1>6, PlainBeside, PlainPieces, PlainTypes, SystemFirst

\* The repair does not touch a system prompt.
LEMMA RepairBehindSystem ==
  ASSUME NEW s \in Seq(Message)
  PROVE  RepairResults(<<System>> \o s) = <<System>> \o RepairResults(s)
<1> DEFINE w == <<System>> \o s
<1>1. <<System>> \in Seq(Message) /\ Len(<<System>>) = 1 /\ <<System>>[1] = System
  BY PlainTypes
<1>2. /\ Len(s) \in Nat /\ w \in Seq(Message) /\ Len(w) = 1 + Len(s) /\ w[1] = System
      /\ \A k \in 1 .. Len(s) : w[1 + k] = s[k]
      /\ \A k \in 1 .. Len(s) : s[k] \in Message
  BY <1>1, ConcatFacts
<1>3. CallsOf(w) = CallsOf(s)
  BY <1>1, PlainBeside, PlainPieces
<1> HIDE DEF w
<1> DEFINE R == RepairResults(s)
           V == RepairResults(w)
<1>4. /\ R \in Seq(Message) /\ Len(R) = Len(s)
      /\ \A k \in 1 .. Len(s) :
           R[k] = IF s[k].role = "tool" /\ s[k].calls[1] \notin CallsOf(s) THEN User ELSE s[k]
  BY <1>2, MessageTypes DEF RepairResults
<1>5. /\ V \in Seq(Message) /\ Len(V) = Len(w)
      /\ \A k \in 1 .. Len(w) :
           V[k] = IF w[k].role = "tool" /\ w[k].calls[1] \notin CallsOf(w) THEN User ELSE w[k]
  BY <1>2, MessageTypes DEF RepairResults
<1> HIDE DEF R, V
<1>6. /\ <<System>> \o R \in Seq(Message) /\ Len(<<System>> \o R) = 1 + Len(s)
      /\ (<<System>> \o R)[1] = System
      /\ \A k \in 1 .. Len(s) : (<<System>> \o R)[1 + k] = R[k]
  BY <1>1, <1>4, ConcatFacts
<1>7. ASSUME NEW k \in 1 .. Len(w) PROVE V[k] = (<<System>> \o R)[k]
  <2>1. CASE k = 1
    BY <1>2, <1>5, <1>6, <2>1 DEF System
  <2>2. CASE k # 1
    <3>1. PICK l \in 1 .. Len(s) : k = 1 + l
      <4>1. k - 1 \in 1 .. Len(s) /\ k = 1 + (k - 1)
        BY <1>2, <2>2
      <4> QED BY <4>1
    <3> QED BY <1>2, <1>3, <1>4, <1>5, <1>6, <3>1
  <2> QED BY <2>1, <2>2
<1>8. V = <<System>> \o R
  BY <1>2, <1>5, <1>6, <1>7
<1> QED BY <1>8 DEF V, R, w

\* Truncation leaves a prompt well formed.
LEMMA TruncatedFacts ==
  ASSUME NEW ms \in Seq(Message), WellFormed(ms), ms # <<>>, Head(ms) = System,
         NEW cut \in Nat, cut + 1 + Recent <= Len(ms)
  PROVE  LET w == Truncated(ms, cut) IN
         /\ w \in Seq(Message) /\ w # <<>> /\ Head(w) = System /\ WellFormed(w)
         /\ \A m \in Range(w) : m \in Range(ms) \/ m.calls = <<>>
<1> DEFINE w == Truncated(ms, cut)
           s == SubSeq(ms, cut + 2, Len(ms))
           R == RepairResults(s)
<1>1. cut + 2 \in 1 .. (Len(ms) + 1)
  BY RecentAssumption
<1>2. Rest(s, ms, cut + 2 - 1)
  BY <1>1, RestOf
<1>3. s \in Seq(Message)
  BY <1>2 DEF Rest
<1>4. w = <<System>> \o R
  <2>1. w = RepairResults(<<System>> \o s)
    BY DEF Truncated
  <2> HIDE DEF w, s
  <2> QED BY <1>3, <2>1, RepairBehindSystem
<1>5. /\ R \in Seq(Message) /\ WellFormed(R)
      /\ \A m \in Range(R) : m \in Range(ms) \/ m = User
  BY <1>2, RepairResultsFacts
<1> HIDE DEF w, s, R
<1>6. /\ WellFormed(w)
      /\ \A m \in Range(w) : m \in Range(R) \/ m.calls = <<>>
  BY <1>4, <1>5, PlainBeside, PlainPieces, PlainTypes
<1>7. User.calls = <<>>
  BY DEF User
<1> QED BY <1>4, <1>5, <1>6, <1>7, SystemFirst DEF w

\* And so does reactive compaction.
LEMMA CompactedFacts ==
  ASSUME NEW ms \in Seq(Message), WellFormed(ms), ms # <<>>
  PROVE  LET w == Compacted(ms) IN
         /\ w \in Seq(Message) /\ w # <<>> /\ Head(w) = System /\ WellFormed(w)
         /\ \A m \in Range(w) : m \in Range(ms) \/ m.calls = <<>>
<1> DEFINE w == Compacted(ms)
           a == 2 + (Len(ms) - 1) \div 2
           s == SubSeq(ms, a, Len(ms))
           R == RepairResults(s)
<1>1. Len(ms) \in Nat /\ Len(ms) # 0
  OBVIOUS
<1>2. a \in 1 .. (Len(ms) + 1)
  BY <1>1
<1>3. Rest(s, ms, a - 1)
  BY <1>2, RestOf
<1>4. /\ R \in Seq(Message) /\ WellFormed(R)
      /\ \A m \in Range(R) : m \in Range(ms) \/ m = User
  <2> HIDE DEF s, a
  <2> QED BY <1>3, RepairResultsFacts
<1>5. w = <<System>> \o (Summary \o R)
  <2>1. w = <<System>> \o Summary \o R
    BY DEF Compacted, NewerHalf
  <2> HIDE DEF w, R
  <2> QED BY <1>4, <2>1, PlainTypes
<1> HIDE DEF w, s, R
<1>6. /\ Summary \o R \in Seq(Message) /\ WellFormed(Summary \o R)
      /\ \A m \in Range(Summary \o R) : m \in Range(R) \/ m.calls = <<>>
  BY <1>4, PlainBeside, PlainPieces, PlainTypes, ConcatFacts
<1>7. /\ WellFormed(w)
      /\ \A m \in Range(w) : m \in Range(Summary \o R) \/ m.calls = <<>>
  BY <1>5, <1>6, PlainBeside, PlainPieces, PlainTypes
<1>8. User.calls = <<>>
  BY DEF User
<1> QED BY <1>4, <1>5, <1>6, <1>7, <1>8, SystemFirst DEF w

------------------------------------------------------------------------------
(* The inductive invariant.                                                *)

Resting == {"idle"} \cup Over
Asking == {"start", "compact", "llm", "recompact"}
Prompted == {"head"} \cup Asking

\* The calls of a response.
CallsIn(r, i, n) == [k \in 1 .. n |-> <<r, i, k>>]

\* No message of ms has a call of run r.
Foreign(r, ms) == \A m \in Range(ms) : \A c \in Range(m.calls) : c[1] # r

\* The calls in ms are of run r.
Own(r, ms) == \A m \in Range(ms) : \A c \in Range(m.calls) : c[1] = r

\* What ms may hold of calls of r when it stands at where in iteration i.
Stamped(r, where, i, ms) ==
  /\ where \in {"idle", "mention"} => Foreign(r, ms)
  /\ \A m \in Range(ms) : \A c \in Range(m.calls) : c[1] = r =>
       /\ where \in Asking => c[2] < i
       /\ where \in {"head", "tools"} => c[2] <= i

\* The calls of r in the first n messages of s have results in s.
AnsweredUpTo(r, n, s) ==
  \A i \in 1 .. n : s[i].role = "assistant" =>
    \A c \in Range(s[i].calls) : c[1] = r => c \in AnsweredAfter(s, i)

SessionOf(r, where, st, s) ==
  /\ Stamped(r, where, st.iteration, s)
  /\ where \notin {"threw", "tools"} => AnsweredUpTo(r, Len(s), s)
  /\ where = "tools" => AnsweredUpTo(r, Len(s) - 1, s)

PromptOf(r, where, st, s) ==
  /\ Stamped(r, where, st.iteration, st.messages)
  /\ where \in Prompted => WellFormed(st.messages)
  /\ where \in Prompted \cup {"tools"} =>
       /\ st.messages # <<>>
       /\ Head(st.messages) = System
       /\ \A m \in Range(st.messages) : m.calls # <<>> /\ m.calls[1][1] = r => m \in Range(s)

\* While its tools run, the last message, of the prompt and of the session, is
\* the response, and the results are all that is missing.
ToolsOf(r, st, s) ==
  /\ \A m \in Range(s) : m.role = "tool" =>
       \A c \in Range(m.calls) : c[1] = r => c[2] < st.iteration
  /\ \E n \in 1 .. MaxCalls :
       LET cs == CallsIn(r, st.iteration, n) IN
       /\ Last(st.messages) = Assistant(cs)
       /\ WellFormed(st.messages \o Results(cs))
       /\ s # <<>> /\ s[Len(s)] = Assistant(cs)
       /\ ResultsHaveCalls(s \o Results(cs))

CountsOf(where, st) ==
  /\ where \in Asking \cup {"tools"} => st.iteration \in 1 .. MaxIter
  /\ where = "head" => st.iteration <= MaxIter
  /\ where # "ending" => st.errors < Doom

RunOK(r, where, st, s) ==
  /\ CountsOf(where, st)
  /\ SessionOf(r, where, st, s)
  /\ PromptOf(r, where, st, s)
  /\ where = "tools" => ToolsOf(r, st, s)

OneResultIn(s) == \A i, j \in 1 .. Len(s) : s[i].role = "tool" /\ s[j] = s[i] => i = j

SessionOK(s) == ResultsHaveCalls(s) /\ Unique(s) /\ OneResultIn(s)

IInv ==
  /\ TypeOK
  /\ \A q, r \in Run : pc[q] \notin Resting /\ pc[r] \notin Resting => q = r
  /\ SessionOK(session)
  /\ \A r \in Run : RunOK(r, pc[r], loop[r], session) /\ CallsHaveResults(child[r])

------------------------------------------------------------------------------
(* One run acts.                                                           *)

\* The types of the fields of a LoopState.
LEMMA StateTypes ==
  ASSUME NEW st \in LoopState
  PROVE  /\ st.messages \in Seq(Message) /\ st.iteration \in 0 .. (MaxIter + 1)
         /\ st.compacted \in BOOLEAN /\ st.recovered \in 0 .. MaxRecovery
         /\ st.errors \in 0 .. Doom /\ st.same \in 0 .. Repeat
BY DEF LoopState

\* The constants are positive numbers.
LEMMA ConstantTypes ==
  /\ MaxIter \in Nat \ {0} /\ MaxRecovery \in Nat \ {0} /\ Doom \in Nat \ {0}
  /\ Repeat \in Nat \ {0} /\ MaxCalls \in Nat \ {0}
BY MaxIterAssumption, ThresholdAssumption

\* The calls of a message are calls.
LEMMA CallTypes ==
  ASSUME NEW ms \in Seq(Message), NEW m \in Range(ms)
  PROVE  /\ m \in Message /\ m.calls \in Seq(CallId)
         /\ \A c \in Range(m.calls) : c[1] \in Run /\ c[2] \in 1 .. MaxIter
         /\ m.calls # <<>> => m.calls[1] \in Range(m.calls)
<1>1. m \in Message
  BY DEF Range
<1>2. m.calls \in Seq(CallId)
  BY <1>1 DEF Message
<1>3. \A c \in Range(m.calls) : c \in CallId
  BY <1>2 DEF Range
<1>4. \A c \in CallId : c[1] \in Run /\ c[2] \in 1 .. MaxIter
  BY DEF CallId
<1>5. m.calls # <<>> => m.calls[1] \in Range(m.calls)
  <2>1. ASSUME m.calls # <<>> PROVE 1 \in 1 .. Len(m.calls)
    BY <1>2, <2>1
  <2> QED BY <2>1 DEF Range
<1> QED BY <1>1, <1>2, <1>3, <1>4, <1>5

\* Messages without calls have none of r.
LEMMA PlainForeign ==
  ASSUME NEW ms, Plain(ms), NEW r
  PROVE  Foreign(r, ms)
BY DEF Plain, Foreign, Range

\* Messages without calls of r change nothing for r, unless its tools run.
LEMMA SessionKept ==
  ASSUME NEW s \in Seq(Message), NEW ms \in Seq(Message), NEW r, NEW where, NEW st,
         SessionOf(r, where, st, s), Foreign(r, ms), where # "tools"
  PROVE  SessionOf(r, where, st, s \o ms)
<1>1. Range(s \o ms) = Range(s) \cup Range(ms)
  BY RangeConcatenation
<1>2. Stamped(r, where, st.iteration, s \o ms)
  BY <1>1 DEF SessionOf, Stamped, Foreign
<1>3. ASSUME where # "threw" PROVE AnsweredUpTo(r, Len(s \o ms), s \o ms)
  <2> SUFFICES ASSUME NEW i \in 1 .. Len(s \o ms), (s \o ms)[i].role = "assistant",
                      NEW c \in Range((s \o ms)[i].calls), c[1] = r
               PROVE  c \in AnsweredAfter(s \o ms, i)
    BY DEF AnsweredUpTo
  <2>1. CASE i \in 1 .. Len(s)
    <3>1. (s \o ms)[i] = s[i] /\ i \in 0 .. Len(s)
      BY <2>1, ConcatFacts
    <3>2. c \in AnsweredAfter(s, i)
      BY <1>3, <2>1, <3>1 DEF SessionOf, AnsweredUpTo
    <3> QED BY <3>1, <3>2, AppendedAnswers
  <2>2. ASSUME NEW k \in 1 .. Len(ms), i = Len(s) + k PROVE FALSE
    <3>1. (s \o ms)[i] = ms[k] /\ ms[k] \in Range(ms)
      BY <2>2, ConcatFacts DEF Range
    <3> QED BY <3>1 DEF Foreign
  <2> QED BY <2>1, <2>2, ConcatFacts
<1> QED BY <1>2, <1>3 DEF SessionOf

\* Messages that are no results bring no second result.
LEMMA NoMoreResults ==
  ASSUME NEW s \in Seq(Message), NEW ms \in Seq(Message), OneResultIn(s),
         \A i \in 1 .. Len(ms) : ms[i].role # "tool"
  PROVE  OneResultIn(s \o ms)
<1> DEFINE w == s \o ms
<1>1. /\ Len(s) \in Nat /\ Len(ms) \in Nat
      /\ \A i \in 1 .. Len(s) : w[i] = s[i]
      /\ \A i \in 1 .. Len(ms) : w[Len(s) + i] = ms[i]
      /\ \A i \in 1 .. Len(w) :
           i \in 1 .. Len(s) \/ \E k \in 1 .. Len(ms) : i = Len(s) + k
  BY ConcatFacts
<1> HIDE DEF w
<1>2. \A i \in 1 .. Len(w) : w[i].role = "tool" => i \in 1 .. Len(s)
  BY <1>1
<1>3. ASSUME NEW i \in 1 .. Len(w), NEW j \in 1 .. Len(w), w[i].role = "tool", w[j] = w[i]
      PROVE  i = j
  <2>1. i \in 1 .. Len(s) /\ j \in 1 .. Len(s)
    BY <1>2, <1>3
  <2>2. s[i].role = "tool" /\ s[j] = s[i]
    BY <1>1, <1>3, <2>1
  <2> QED BY <2>1, <2>2 DEF OneResultIn
<1> QED BY <1>3 DEF OneResultIn, w

\* Messages without calls keep the session as it must be.
LEMMA PlainSession ==
  ASSUME NEW s \in Seq(Message), NEW ms \in Seq(Message), SessionOK(s), Plain(ms)
  PROVE  SessionOK(s \o ms)
<1>1. ResultsHaveCalls(s \o ms) /\ Unique(s \o ms)
  BY PlainBeside DEF SessionOK
<1>2. OneResultIn(s \o ms)
  BY NoMoreResults DEF SessionOK, Plain
<1> QED BY <1>1, <1>2 DEF SessionOK

\* A step of run r keeps the invariant if it does so for r and the session,
\* and no other run is under way.
LEMMA StepOf ==
  ASSUME IInv, NEW r \in Run, \A q \in Run : q # r => pc[q] \in Resting,
         NEW where \in Where, NEW st \in LoopState, NEW ch \in Seq(Message),
         NEW ms \in Seq(Message),
         Own(r, ms),
         pc' = [pc EXCEPT ![r] = where],
         loop' = [loop EXCEPT ![r] = st],
         child' = [child EXCEPT ![r] = ch],
         session' = session \o ms,
         summary' \in BOOLEAN, aborted' \in SUBSET Run,
         SessionOK(session \o ms),
         RunOK(r, where, st, session \o ms),
         CallsHaveResults(ch)
  PROVE  IInv'
<1>1. TypeOK
  BY DEF IInv
<1>2. /\ session \in Seq(Message) /\ pc \in [Run -> Where] /\ loop \in [Run -> LoopState]
      /\ child \in [Run -> Seq(Message)]
  BY <1>1 DEF TypeOK
<1>3. session \o ms \in Seq(Message)
  BY <1>2, ConcatFacts
<1>4. TypeOK'
  BY <1>2, <1>3 DEF TypeOK
<1>5. /\ pc'[r] = where /\ loop'[r] = st /\ child'[r] = ch
      /\ \A q \in Run : q # r => pc'[q] = pc[q] /\ loop'[q] = loop[q] /\ child'[q] = child[q]
  BY <1>2
<1>6. \A p, q \in Run : pc'[p] \notin Resting /\ pc'[q] \notin Resting => p = q
  BY <1>5
<1>7. ASSUME NEW q \in Run, q # r
      PROVE  RunOK(q, pc[q], loop[q], session \o ms) /\ CallsHaveResults(child[q])
  <2>1. RunOK(q, pc[q], loop[q], session) /\ CallsHaveResults(child[q])
    BY DEF IInv
  <2>2. Foreign(q, ms)
    BY <1>7 DEF Foreign, Own
  <2>3. pc[q] \in Resting /\ pc[q] \notin Prompted /\ pc[q] # "tools"
    BY <1>7 DEF Resting, Prompted, Asking, Over
  <2>4. SessionOf(q, pc[q], loop[q], session \o ms)
    BY <1>2, <2>1, <2>2, <2>3, SessionKept DEF RunOK
  <2>5. PromptOf(q, pc[q], loop[q], session \o ms)
    BY <2>1, <2>3 DEF RunOK, PromptOf
  <2> QED BY <2>1, <2>3, <2>4, <2>5 DEF RunOK
<1>8. ASSUME NEW q \in Run
      PROVE  RunOK(q, pc'[q], loop'[q], session') /\ CallsHaveResults(child'[q])
  BY <1>5, <1>7
<1> QED BY <1>4, <1>6, <1>8 DEF IInv

------------------------------------------------------------------------------
(* What a step means for the run that takes it.                            *)

\* The run goes on with a prompt whose calls were in the old one.
LEMMA GoesOn ==
  ASSUME NEW s \in Seq(Message), NEW ms \in Seq(Message), Plain(ms),
         NEW r, NEW v, NEW w, v \in Prompted, w \in Prompted,
         NEW st \in LoopState, NEW su \in LoopState,
         RunOK(r, v, st, s),
         su.iteration = st.iteration, su.errors = st.errors,
         v \in Asking,
         WellFormed(su.messages), su.messages # <<>>, Head(su.messages) = System,
         \A m \in Range(su.messages) : m \in Range(st.messages) \/ m.calls = <<>>
  PROVE  RunOK(r, w, su, s \o ms)
<1>1. /\ v \notin {"idle", "mention", "ending", "threw", "tools"}
      /\ w \notin {"idle", "mention", "ending", "threw", "tools"}
  BY DEF Prompted, Asking
<1>2. CountsOf(w, su)
  <2>1. st.iteration \in 1 .. MaxIter /\ st.errors < Doom
    BY <1>1 DEF RunOK, CountsOf
  <2> QED BY <1>1, <2>1, ConstantTypes DEF CountsOf
<1>3. Range(s \o ms) = Range(s) \cup Range(ms)
  BY RangeConcatenation
<1>4. \A m \in Range(su.messages) : m \in Range(st.messages) \/ Range(m.calls) = {}
  BY DEF Range
<1>5. ASSUME NEW t, Stamped(r, v, st.iteration, t), t \in Seq(Message)
      PROVE  Stamped(r, w, su.iteration, t)
  <2> SUFFICES ASSUME NEW m \in Range(t), NEW c \in Range(m.calls), c[1] = r
               PROVE  c[2] < st.iteration /\ c[2] <= st.iteration
    BY <1>1 DEF Stamped
  <2>1. c[2] < st.iteration
    BY <1>5 DEF Stamped
  <2>2. c[2] \in Nat /\ st.iteration \in Nat
    BY <1>5, CallTypes, StateTypes, ConstantTypes, SMTT(30)
  <2> QED BY <2>1, <2>2
<1>6. SessionOf(r, w, su, s)
  <2>1. Stamped(r, w, su.iteration, s)
    BY <1>5 DEF RunOK, SessionOf
  <2> QED BY <1>1, <2>1 DEF RunOK, SessionOf
<1>7. SessionOf(r, w, su, s \o ms)
  BY <1>1, <1>6, PlainForeign, SessionKept
<1>8. PromptOf(r, w, su, s \o ms)
  <2>1. Stamped(r, w, su.iteration, st.messages)
    BY <1>5, StateTypes DEF RunOK, PromptOf
  <2>2. Stamped(r, w, su.iteration, su.messages)
    BY <1>1, <1>4, <2>1 DEF Stamped
  <2>3. ASSUME NEW m \in Range(su.messages), m.calls # <<>>, m.calls[1][1] = r
        PROVE  m \in Range(s \o ms)
    <3>1. m \in Range(st.messages)
      BY <2>3
    <3> QED BY <1>3, <2>3, <3>1 DEF RunOK, PromptOf
  <2> QED BY <2>2, <2>3 DEF PromptOf
<1> QED BY <1>1, <1>2, <1>7, <1>8 DEF RunOK

\* The run leaves its loop.
LEMMA Ends ==
  ASSUME NEW s \in Seq(Message), NEW ms \in Seq(Message), Plain(ms),
         NEW r, NEW v \in Prompted, NEW st, NEW su, RunOK(r, v, st, s)
  PROVE  RunOK(r, "ending", su, s \o ms)
<1>1. v \notin {"idle", "mention", "ending", "threw", "tools"}
  BY DEF Prompted, Asking
<1>2. \A t : Stamped(r, "ending", su.iteration, t)
  BY DEF Stamped, Asking
<1>3. SessionOf(r, "ending", su, s)
  BY <1>1, <1>2 DEF RunOK, SessionOf
<1>4. SessionOf(r, "ending", su, s \o ms)
  BY <1>3, PlainForeign, SessionKept
<1> QED BY <1>2, <1>4 DEF RunOK, PromptOf, CountsOf, Prompted, Asking

\* The run is over.
LEMMA Leaves ==
  ASSUME NEW s \in Seq(Message), NEW r, NEW v, NEW w \in Over, NEW st,
         v \notin Over, v = "tools" => w = "threw", RunOK(r, v, st, s)
  PROVE  RunOK(r, w, Fresh(<<>>), s)
<1>1. w \notin Prompted /\ w \notin {"idle", "mention", "ending", "tools", "head"}
  BY DEF Prompted, Asking, Over
<1>2. \A i, t : Stamped(r, w, i, t)
  BY <1>1 DEF Stamped, Asking, Prompted
<1>3. SessionOf(r, w, Fresh(<<>>), s)
  BY <1>1, <1>2 DEF RunOK, SessionOf, Over
<1>4. Fresh(<<>>).errors = 0 /\ 0 < Doom
  BY ConstantTypes DEF Fresh
<1> QED BY <1>1, <1>2, <1>3, <1>4 DEF RunOK, PromptOf, CountsOf, Prompted

\* Every run starts in a LoopState.
LEMMA FreshState ==
  ASSUME NEW ms \in Seq(Message)
  PROVE  Fresh(ms) \in LoopState
BY ConstantTypes DEF Fresh, LoopState

\* The elements of a sequence.
LEMMA InRange ==
  ASSUME NEW t \in Seq(Message), NEW i \in 1 .. Len(t)
  PROVE  t[i] \in Range(t)
BY DEF Range

\* A run begins with a prompt built from the session.
LEMMA Begins ==
  ASSUME NEW s \in Seq(Message), NEW r, NEW st, RunOK(r, "idle", st, s),
         NEW t \in Seq(Message), t = s \o <<User>>,
         NEW ms \in Seq(Message), WellFormed(ms), ms # <<>>, Head(ms) = System,
         \A m \in Range(ms) :
           m \in Range(t) \/ m.calls = <<>> \/ \E c \in CallsOf(t) : m = Tool(c)
  PROVE  RunOK(r, "head", Fresh(ms), t)
<1>1. /\ Fresh(ms).messages = ms /\ Fresh(ms).iteration = 0 /\ Fresh(ms).errors = 0
      /\ 0 < Doom /\ 0 <= MaxIter
  BY ConstantTypes DEF Fresh
<1>2. Plain(<<User>>) /\ <<User>> \in Seq(Message)
  BY PlainPieces, PlainTypes
<1>3. SessionOf(r, "idle", st, t)
  BY <1>2, PlainForeign, SessionKept DEF RunOK
<1>4. Foreign(r, t)
  BY <1>3 DEF SessionOf, Stamped
<1>5. \A c \in CallsOf(t) : c[1] # r
  <2>1. ASSUME NEW c \in CallsOf(t) PROVE c[1] # r
    <3>1. PICK i \in 1 .. Len(t) : c \in Range(t[i].calls)
      BY <2>1, Asks
    <3>2. t[i] \in Range(t)
      BY InRange
    <3> QED BY <1>4, <3>1, <3>2 DEF Foreign
  <2> QED BY <2>1
<1>6. Foreign(r, ms)
  <2> SUFFICES ASSUME NEW m \in Range(ms), NEW c \in Range(m.calls) PROVE c[1] # r
    BY DEF Foreign
  <2>1. CASE m \in Range(t)
    BY <1>4, <2>1 DEF Foreign
  <2>2. CASE m.calls = <<>>
    BY <2>2 DEF Range
  <2>3. ASSUME NEW d \in CallsOf(t), m = Tool(d) PROVE c[1] # r
    <3>1. Range(m.calls) = {d}
      BY <2>3 DEF Tool, Range
    <3> QED BY <1>5, <3>1
  <2> QED BY <2>1, <2>2, <2>3
<1>7. CountsOf("head", Fresh(ms))
  BY <1>1 DEF CountsOf, Asking
<1>8. SessionOf(r, "head", Fresh(ms), t)
  BY <1>3, <1>4 DEF SessionOf, Stamped, Foreign
<1>9. PromptOf(r, "head", Fresh(ms), t)
  <2>1. \A m \in Range(ms) : m.calls # <<>> => m.calls[1][1] # r
    BY <1>6, CallTypes DEF Foreign
  <2>2. Stamped(r, "head", 0, ms)
    BY <1>6 DEF Stamped, Foreign
  <2> QED BY <1>1, <2>1, <2>2 DEF PromptOf
<1> QED BY <1>7, <1>8, <1>9 DEF RunOK

\* An iteration begins.
LEMMA NewIteration ==
  ASSUME NEW s \in Seq(Message), NEW r, NEW st \in LoopState, NEW su,
         RunOK(r, "head", st, s), st.iteration < MaxIter,
         su = [st EXCEPT !.iteration = @ + 1]
  PROVE  su \in LoopState /\ RunOK(r, "start", su, s)
<1>1. /\ st.iteration \in Nat /\ st.iteration < MaxIter /\ MaxIter \in Nat
      /\ st.messages \in Seq(Message)
  BY StateTypes, ConstantTypes
<1>2. /\ su.messages = st.messages /\ su.errors = st.errors
      /\ su.iteration = st.iteration + 1 /\ su \in LoopState
  BY <1>1 DEF LoopState
<1>3. ASSUME NEW t \in Seq(Message), Stamped(r, "head", st.iteration, t)
      PROVE  Stamped(r, "start", su.iteration, t)
  <2> SUFFICES ASSUME NEW m \in Range(t), NEW c \in Range(m.calls), c[1] = r
               PROVE  c[2] < st.iteration + 1
    BY <1>2 DEF Stamped
  <2>1. c[2] <= st.iteration
    BY <1>3 DEF Stamped
  <2>2. c[2] \in Nat
    BY CallTypes, ConstantTypes
  <2> QED BY <1>1, <2>1, <2>2
<1>4. CountsOf("start", su)
  BY <1>1, <1>2 DEF RunOK, CountsOf
<1>5. SessionOf(r, "start", su, s)
  BY <1>3 DEF RunOK, SessionOf
<1>6. PromptOf(r, "start", su, s)
  <2>1. Stamped(r, "start", su.iteration, su.messages)
    BY <1>1, <1>2, <1>3 DEF RunOK, PromptOf
  <2> QED BY <1>2, <2>1 DEF RunOK, PromptOf, Prompted
<1> QED BY <1>2, <1>4, <1>5, <1>6 DEF RunOK

\* The calls of a response are new.
LEMMA CallsInFacts ==
  ASSUME NEW r \in Run, NEW i \in 1 .. MaxIter, NEW n \in 1 .. MaxCalls
  PROVE  LET cs == CallsIn(r, i, n) IN
         /\ cs \in Seq(CallId) /\ Len(cs) = n /\ cs # <<>>
         /\ \A k \in 1 .. n : cs[k] = <<r, i, k>>
         /\ \A c \in Range(cs) : c[1] = r /\ c[2] = i /\ \E k \in 1 .. n : c = cs[k]
<1> DEFINE cs == CallsIn(r, i, n)
<1>1. \A k \in 1 .. n : <<r, i, k>> \in CallId
  BY ConstantTypes DEF CallId
<1>2. /\ cs \in Seq(CallId) /\ Len(cs) = n /\ cs # <<>>
      /\ \A k \in 1 .. n : cs[k] = <<r, i, k>>
  BY <1>1, ConstantTypes DEF CallsIn
<1>3. \A c \in Range(cs) : \E k \in 1 .. n : c = cs[k]
  BY <1>2 DEF Range
<1> HIDE DEF cs
<1>4. \A c \in Range(cs) : c[1] = r /\ c[2] = i /\ \E k \in 1 .. n : c = cs[k]
  BY <1>2, <1>3
<1> QED BY <1>2, <1>4 DEF cs

\* A message added at the end.
LEMMA AppendFacts ==
  ASSUME NEW p \in Seq(Message), NEW m \in Message
  PROVE  LET w == p \o <<m>> IN
         /\ w \in Seq(Message) /\ w # <<>>
         /\ Len(p) \in Nat /\ Len(w) = Len(p) + 1 /\ w[Len(p) + 1] = m /\ w[Len(w)] = m
         /\ \A k \in 1 .. Len(p) : w[k] = p[k]
         /\ Range(w) = Range(p) \cup {m}
         /\ p # <<>> => Head(w) = Head(p)
<1> DEFINE w == p \o <<m>>
<1>1. <<m>> \in Seq(Message) /\ Range(<<m>>) = {m}
  BY DEF Range
<1>2. Range(w) = Range(p) \cup {m}
  <2>1. Range(w) = Range(p) \cup Range(<<m>>)
    BY <1>1, RangeConcatenation, ZenonT(60)
  <2> QED BY <1>1, <2>1
<1>3. /\ w \in Seq(Message) /\ w # <<>>
      /\ Len(p) \in Nat /\ Len(w) = Len(p) + 1 /\ w[Len(p) + 1] = m /\ w[Len(w)] = m
      /\ \A k \in 1 .. Len(p) : w[k] = p[k]
      /\ p # <<>> => Head(w) = Head(p)
  OBVIOUS
<1> QED BY <1>2, <1>3

\* A prompt keeps its first message when messages follow.
LEMMA HeadOfConcat ==
  ASSUME NEW p \in Seq(Message), NEW q \in Seq(Message), p # <<>>
  PROVE  p \o q # <<>> /\ Head(p \o q) = Head(p)
OBVIOUS

\* Results of other calls bring no second result.
LEMMA MoreResults ==
  ASSUME NEW s \in Seq(Message), NEW rs \in Seq(Message), OneResultIn(s), OneResultIn(rs),
         \A j \in 1 .. Len(s), k \in 1 .. Len(rs) : s[j] # rs[k]
  PROVE  OneResultIn(s \o rs)
<1> DEFINE w == s \o rs
<1>1. /\ Len(s) \in Nat /\ Len(rs) \in Nat
      /\ \A i \in 1 .. Len(s) : w[i] = s[i]
      /\ \A i \in 1 .. Len(rs) : w[Len(s) + i] = rs[i]
      /\ \A i \in 1 .. Len(w) :
           i \in 1 .. Len(s) \/ \E k \in 1 .. Len(rs) : i = Len(s) + k
  BY ConcatFacts
<1> HIDE DEF w
<1> SUFFICES ASSUME NEW j \in 1 .. Len(w), NEW k \in 1 .. Len(w),
                    w[j].role = "tool", w[k] = w[j]
             PROVE  j = k
  BY DEF OneResultIn, w
<1>2. CASE j \in 1 .. Len(s) /\ k \in 1 .. Len(s)
  BY <1>1, <1>2 DEF OneResultIn
<1>3. ASSUME NEW a \in 1 .. Len(rs), NEW b \in 1 .. Len(rs), j = Len(s) + a, k = Len(s) + b
      PROVE  j = k
  <2>1. rs[a].role = "tool" /\ rs[b] = rs[a]
    BY <1>1, <1>3
  <2> QED BY <1>3, <2>1 DEF OneResultIn
<1>4. ASSUME j \in 1 .. Len(s), NEW l \in 1 .. Len(rs), k = Len(s) + l PROVE FALSE
  BY <1>1, <1>4
<1>5. ASSUME k \in 1 .. Len(s), NEW l \in 1 .. Len(rs), j = Len(s) + l PROVE FALSE
  BY <1>1, <1>5
<1> QED BY <1>1, <1>2, <1>3, <1>4, <1>5

\* Before the response no call of its iteration exists.
LEMMA CallsAreStamped ==
  ASSUME NEW r, NEW i \in Nat, NEW ms \in Seq(Message), Stamped(r, "llm", i, ms)
  PROVE  /\ \A c \in CallsOf(ms) : c[1] = r => c[2] # i
         /\ Stamped(r, "tools", i, ms)
<1>1. ASSUME NEW m \in Range(ms), NEW c \in Range(m.calls), c[1] = r
      PROVE  c[2] # i /\ c[2] <= i
  <2>1. c[2] < i
    BY <1>1 DEF Stamped, Asking
  <2>2. c[2] \in Nat
    BY CallTypes, ConstantTypes
  <2> QED BY <2>1, <2>2
<1>2. ASSUME NEW c \in CallsOf(ms), c[1] = r PROVE c[2] # i
  <2>1. PICK j \in 1 .. Len(ms) : c \in Range(ms[j].calls)
    BY Asks
  <2> QED BY <1>1, <1>2, <2>1, InRange
<1>3. Stamped(r, "tools", i, ms)
  BY <1>1 DEF Stamped, Asking
<1> QED BY <1>2, <1>3

\* The LLM's response asks for calls.
LEMMA Responds ==
  ASSUME NEW s \in Seq(Message), NEW r \in Run, NEW st \in LoopState, NEW n \in 1 .. MaxCalls,
         RunOK(r, "llm", st, s), SessionOK(s), NEW cs, cs = CallsIn(r, st.iteration, n),
         NEW su, su = [st EXCEPT !.messages = @ \o <<Assistant(cs)>>]
  PROVE  /\ su \in LoopState /\ <<Assistant(cs)>> \in Seq(Message)
         /\ Own(r, <<Assistant(cs)>>)
         /\ SessionOK(s \o <<Assistant(cs)>>)
         /\ RunOK(r, "tools", su, s \o <<Assistant(cs)>>)
<1> DEFINE a == <<Assistant(cs)>>
           w == s \o a
           ps == st.messages
           vs == ps \o a
           i == st.iteration
<1>1. /\ i \in 1 .. MaxIter /\ i \in Nat /\ st.errors < Doom /\ ps \in Seq(Message)
  BY StateTypes, ConstantTypes DEF RunOK, CountsOf, Asking
<1>2. /\ cs \in Seq(CallId) /\ Len(cs) = n /\ cs # <<>>
      /\ \A k \in 1 .. n : cs[k] = <<r, i, k>>
      /\ \A c \in Range(cs) : c[1] = r /\ c[2] = i /\ \E k \in 1 .. n : c = cs[k]
  BY <1>1, CallsInFacts, SMTT(30)
<1>3. /\ a \in Seq(Message) /\ Len(a) = 1 /\ a[1] = Assistant(cs)
      /\ Assistant(cs).role = "assistant" /\ Assistant(cs).calls = cs
      /\ Range(a) = {Assistant(cs)}
  <2>1. Assistant(cs) \in Message
    BY <1>2, MessageTypes
  <2>2. Range(a) = {Assistant(cs)}
    BY DEF Range
  <2> QED BY <2>1, <2>2 DEF Assistant
<1>4. /\ vs \in Seq(Message) /\ su.messages = vs /\ su.iteration = i /\ su.errors = st.errors
      /\ su \in LoopState
  <2>1. vs \in Seq(Message)
    BY <1>1, <1>3, ConcatFacts
  <2>2. su = [st EXCEPT !.messages = vs]
    OBVIOUS
  <2> HIDE DEF vs
  <2> QED BY <2>1, <2>2 DEF LoopState
<1>5. /\ w \in Seq(Message) /\ Len(w) = Len(s) + 1 /\ w # <<>> /\ w[Len(w)] = Assistant(cs)
      /\ \A k \in 1 .. Len(s) : w[k] = s[k]
      /\ Len(s) \in Nat
      /\ Range(w) = Range(s) \cup {Assistant(cs)}
  BY <1>2, MessageTypes, AppendFacts
<1> HIDE DEF ps
<1>6. /\ vs # <<>> /\ vs[Len(vs)] = Assistant(cs)
      /\ Range(vs) = Range(ps) \cup {Assistant(cs)}
      /\ ps # <<>> => Head(vs) = Head(ps)
  BY <1>1, <1>2, MessageTypes, AppendFacts
<1> HIDE DEF a
<1>7. /\ Stamped(r, "llm", i, s) /\ Stamped(r, "llm", i, ps)
      /\ AnsweredUpTo(r, Len(s), s)
      /\ WellFormed(ps) /\ ps # <<>> /\ Head(ps) = System
      /\ \A m \in Range(ps) : m.calls # <<>> /\ m.calls[1][1] = r => m \in Range(s)
  BY DEF RunOK, SessionOf, PromptOf, Prompted, Asking, ps
<1>8. CallsOf(s) \cap Range(cs) = {} /\ CallsOf(ps) \cap Range(cs) = {}
  BY <1>1, <1>2, <1>7, CallsAreStamped, SMTT(30)
<1> DEFINE e == a \o Results(cs)
<1>9. /\ e \in Seq(Message) /\ WellFormed(e) /\ CallsOf(e) = Range(cs)
      /\ Results(cs) \in Seq(Message)
  BY <1>2, <1>3, ExchangeWellFormed, ResultsFacts, ConcatFacts DEF a
<1>10. w \o Results(cs) = s \o e /\ vs \o Results(cs) = ps \o e
  <2>1. s \o a \o Results(cs) = s \o (a \o Results(cs))
    BY <1>3, <1>9, ConcatAssociative, SMTT(30)
  <2>2. ps \o a \o Results(cs) = ps \o (a \o Results(cs))
    <3>1. ps \in Seq(Message) /\ a \in Seq(Message) /\ Results(cs) \in Seq(Message)
      BY <1>1, <1>3, <1>9
    <3> QED BY <3>1, ConcatAssociative, SMTT(30)
  <2> QED BY <2>1, <2>2
<1> HIDE DEF w, vs, e
<1>11. SessionOK(w)
  <2>1. Unique(a) /\ CallsOf(a) = Range(cs) /\ ResultsHaveCalls(a)
    <3>1. Unique(a) /\ ResultsHaveCalls(a)
      BY <1>3 DEF Unique, ResultsHaveCalls
    <3>2. \A c : c \in CallsOf(a) <=> c \in Range(cs)
      BY <1>3, Asks
    <3> QED BY <3>1, <3>2
  <2>2. Unique(w)
    BY <1>3, <1>8, <2>1, ConcatUnique DEF SessionOK, w
  <2>3. ResultsHaveCalls(w)
    BY <1>3, <2>1, ConcatResultsHaveCalls DEF SessionOK, w
  <2>4. OneResultIn(w)
    BY <1>3, NoMoreResults DEF SessionOK, w
  <2> QED BY <2>2, <2>3, <2>4 DEF SessionOK
<1>12. Stamped(r, "tools", i, w) /\ Stamped(r, "tools", i, vs)
  <2>1. Stamped(r, "tools", i, s) /\ Stamped(r, "tools", i, ps)
    BY <1>1, <1>7, CallsAreStamped
  <2> QED BY <1>1, <1>2, <1>3, <1>5, <1>6, <2>1 DEF Stamped, Asking
<1>13. AnsweredUpTo(r, Len(w) - 1, w)
  <2> SUFFICES ASSUME NEW k \in 1 .. Len(s), w[k].role = "assistant",
                      NEW c \in Range(w[k].calls), c[1] = r
               PROVE  c \in AnsweredAfter(w, k)
    BY <1>5 DEF AnsweredUpTo
  <2>1. c \in AnsweredAfter(s, k) /\ k \in 0 .. Len(s)
    BY <1>5, <1>7 DEF AnsweredUpTo
  <2> QED BY <1>3, <2>1, AppendedAnswers DEF w
<1>14. SessionOf(r, "tools", su, w)
  BY <1>4, <1>12, <1>13 DEF SessionOf
<1>15. PromptOf(r, "tools", su, w)
  <2>1. vs # <<>> /\ Head(vs) = System
    BY <1>6, <1>7
  <2>2. \A m \in Range(vs) : m.calls # <<>> /\ m.calls[1][1] = r => m \in Range(w)
    BY <1>5, <1>6, <1>7
  <2> QED BY <1>4, <1>12, <2>1, <2>2 DEF PromptOf, Prompted, Asking
<1>16. ToolsOf(r, su, w)
  <2>1. ASSUME NEW m \in Range(w), m.role = "tool", NEW c \in Range(m.calls), c[1] = r
        PROVE  c[2] < i
    BY <1>3, <1>5, <1>7, <2>1 DEF Stamped, Asking
  <2>2. /\ Last(vs) = Assistant(cs) /\ w # <<>> /\ w[Len(w)] = Assistant(cs)
    BY <1>5, <1>6 DEF Last
  <2>3. WellFormed(vs \o Results(cs))
    BY <1>1, <1>7, <1>8, <1>9, <1>10, ConcatWellFormed
  <2>4. ResultsHaveCalls(w \o Results(cs))
    BY <1>9, <1>10, ConcatResultsHaveCalls DEF WellFormed, SessionOK
  <2> QED BY <1>4, <2>1, <2>2, <2>3, <2>4 DEF ToolsOf
<1>17. CountsOf("tools", su)
  BY <1>1, <1>4 DEF CountsOf
<1>18. Own(r, a)
  BY <1>2, <1>3 DEF Own
<1> QED BY <1>3, <1>4, <1>11, <1>14, <1>15, <1>16, <1>17, <1>18 DEF RunOK, w, a

\* The results are recorded.
LEMMA Settles ==
  ASSUME NEW s \in Seq(Message), NEW r \in Run, NEW st \in LoopState,
         RunOK(r, "tools", st, s), SessionOK(s), NEW rs, rs = Results(Last(st.messages).calls),
         NEW su, su.messages = st.messages \o rs, su.iteration = st.iteration,
         NEW v \in {"head", "ending"}, v = "head" => su.errors < Doom
  PROVE  /\ rs \in Seq(Message)
         /\ Own(r, rs)
         /\ SessionOK(s \o rs)
         /\ RunOK(r, v, su, s \o rs)
<1> DEFINE w == s \o rs
           ps == st.messages
           vs == ps \o rs
           i == st.iteration
<1>1. /\ i \in 1 .. MaxIter /\ i \in Nat /\ ps \in Seq(Message) /\ MaxIter \in Nat
  BY StateTypes, ConstantTypes DEF RunOK, CountsOf
<1>2. PICK n \in 1 .. MaxCalls :
        LET cs == CallsIn(r, i, n) IN
        /\ Last(ps) = Assistant(cs)
        /\ WellFormed(ps \o Results(cs))
        /\ s # <<>> /\ s[Len(s)] = Assistant(cs)
        /\ ResultsHaveCalls(s \o Results(cs))
  BY DEF RunOK, ToolsOf
<1> HIDE DEF i, ps
<1> DEFINE cs == CallsIn(r, i, n)
<1>3. /\ cs \in Seq(CallId) /\ Len(cs) = n
      /\ \A k \in 1 .. n : cs[k] = <<r, i, k>>
      /\ \A c \in Range(cs) : c[1] = r /\ c[2] = i /\ \E k \in 1 .. n : c = cs[k]
  <2>1. i \in 1 .. MaxIter
    BY <1>1
  <2>2. /\ CallsIn(r, i, n) \in Seq(CallId) /\ Len(CallsIn(r, i, n)) = n
        /\ \A k \in 1 .. n : CallsIn(r, i, n)[k] = <<r, i, k>>
        /\ \A c \in Range(CallsIn(r, i, n)) :
             c[1] = r /\ c[2] = i /\ \E k \in 1 .. n : c = CallsIn(r, i, n)[k]
    BY <2>1, CallsInFacts
  <2> QED BY <2>2
<1> HIDE DEF cs
<1>4. Assistant(cs).role = "assistant" /\ Assistant(cs).calls = cs
  BY DEF Assistant
<1>5. /\ rs = Results(cs) /\ WellFormed(vs) /\ s # <<>> /\ s[Len(s)] = Assistant(cs)
      /\ ResultsHaveCalls(w)
  BY <1>2, <1>4 DEF cs, ps
<1>6. /\ rs \in Seq(Message) /\ Len(rs) = n
      /\ \A k \in 1 .. n : /\ rs[k] = Tool(cs[k]) /\ rs[k].role = "tool"
                            /\ rs[k].calls = <<cs[k]>> /\ Range(rs[k].calls) = {cs[k]}
  <2>1. \A c : Tool(c).role = "tool" /\ Tool(c).calls = <<c>> /\ Range(Tool(c).calls) = {c}
    BY DEF Tool, Range
  <2>2. /\ rs \in Seq(Message) /\ Len(rs) = n
        /\ \A k \in 1 .. n : rs[k] = Tool(cs[k])
    BY <1>3, <1>5, ResultsFacts
  <2> QED BY <2>1, <2>2
<1>7. /\ w \in Seq(Message) /\ Len(s) \in Nat
      /\ \A k \in 1 .. Len(s) : w[k] = s[k]
      /\ \A k \in 1 .. n : w[Len(s) + k] = rs[k]
      /\ \A k \in 1 .. Len(w) : k \in 1 .. Len(s) \/ \E l \in 1 .. n : k = Len(s) + l
      /\ Range(w) = Range(s) \cup Range(rs)
  <2>1. Range(w) = Range(s) \cup Range(rs)
    BY <1>6, RangeConcatenation
  <2>2. /\ w \in Seq(Message) /\ Len(s) \in Nat
        /\ \A k \in 1 .. Len(s) : w[k] = s[k]
        /\ \A k \in 1 .. Len(rs) : w[Len(s) + k] = rs[k]
        /\ \A k \in 1 .. Len(w) :
             k \in 1 .. Len(s) \/ \E l \in 1 .. Len(rs) : k = Len(s) + l
    BY <1>6, ConcatFacts
  <2>3. Len(rs) = n
    BY <1>6
  <2> HIDE DEF w
  <2> QED BY <2>1, <2>2, <2>3
<1>8. Range(vs) = Range(ps) \cup Range(rs)
  BY <1>1, <1>6, RangeConcatenation
<1>9. \A m \in Range(rs) : \A c \in Range(m.calls) : c[1] = r /\ c[2] = i
  <2>1. ASSUME NEW m \in Range(rs), NEW c \in Range(m.calls) PROVE c[1] = r /\ c[2] = i
    <3>1. PICK k \in 1 .. n : m = rs[k]
      BY <1>6, <2>1 DEF Range
    <3>2. c = cs[k]
      BY <1>6, <2>1, <3>1
    <3> QED BY <1>3, <3>2
  <2> QED BY <2>1
<1> HIDE DEF w, vs
<1>10. OneResultIn(w)
  <2>1. ASSUME NEW j \in 1 .. Len(s), NEW k \in 1 .. n, s[j] = rs[k] PROVE FALSE
    <3>1. s[j] \in Range(s)
      BY InRange
    <3>2. s[j].role = "tool" /\ Range(s[j].calls) = {cs[k]} /\ cs[k][1] = r /\ cs[k][2] = i
      <4>1. /\ rs[k].role = "tool" /\ Range(rs[k].calls) = {cs[k]}
            /\ cs[k] = <<r, i, k>>
        BY <1>3, <1>6
      <4> QED BY <2>1, <4>1
    <3>3. cs[k][2] < i
      BY <3>1, <3>2 DEF RunOK, ToolsOf, i
    <3> QED BY <1>1, <3>2, <3>3
  <2>2. ASSUME NEW k \in 1 .. n, NEW l \in 1 .. n, rs[k] = rs[l] PROVE k = l
    <3>1. cs[k] = cs[l]
      BY <1>6, <2>2
    <3> QED BY <1>3, <3>1
  <2>3. OneResultIn(rs)
    BY <1>6, <2>2 DEF OneResultIn
  <2> QED BY <1>6, <2>1, <2>3, MoreResults DEF SessionOK, w
<1>11. SessionOK(w)
  <2>1. Unique(rs) /\ CallsOf(rs) = {}
    <3>1. \A c : c \notin CallsOf(rs)
      BY <1>6, Asks
    <3> QED BY <1>6, <3>1 DEF Unique
  <2>2. Unique(w)
    BY <1>6, <2>1, ConcatUnique DEF SessionOK, w
  <2> QED BY <1>5, <1>10, <2>2 DEF SessionOK
<1>12. AnsweredUpTo(r, Len(w), w)
  <2> SUFFICES ASSUME NEW k \in 1 .. Len(w), w[k].role = "assistant",
                      NEW c \in Range(w[k].calls), c[1] = r
               PROVE  c \in AnsweredAfter(w, k)
    BY DEF AnsweredUpTo
  <2>1. k \in 1 .. Len(s) /\ w[k] = s[k] /\ k \in 0 .. Len(s)
    <3>1. k \notin 1 .. Len(s) => w[k].role = "tool"
      BY <1>6, <1>7, ZenonT(60)
    <3> QED BY <1>7, <3>1
  <2>2. CASE k = Len(s)
    <3>1. PICK l \in 1 .. n : c = cs[l]
      BY <1>3, <1>4, <1>5, <2>1, <2>2
    <3>2. l \in 1 .. Len(rs) /\ rs[l] = Tool(c)
      BY <1>6, <3>1
    <3> QED BY <1>6, <2>1, <3>2, AppendedAnswers DEF w
  <2>3. CASE k # Len(s)
    <3>1. k \in 1 .. (Len(s) - 1)
      BY <1>7, <2>1, <2>3
    <3>2. c \in AnsweredAfter(s, k)
      BY <2>1, <3>1 DEF RunOK, SessionOf, AnsweredUpTo
    <3> QED BY <1>6, <2>1, <3>2, AppendedAnswers DEF w
  <2> QED BY <2>2, <2>3
<1>13. Stamped(r, v, i, w) /\ Stamped(r, v, i, vs)
  <2>1. Stamped(r, "tools", i, s) /\ Stamped(r, "tools", i, ps)
    BY DEF RunOK, SessionOf, PromptOf, i, ps
  <2>2. ASSUME NEW m \in Range(w) \cup Range(vs), NEW c \in Range(m.calls), c[1] = r
        PROVE  c[2] <= i
    BY <1>1, <1>7, <1>8, <1>9, <2>1, <2>2 DEF Stamped
  <2> QED BY <2>2 DEF Stamped, Asking
<1>14. SessionOf(r, v, su, w)
  BY <1>12, <1>13 DEF SessionOf, i
<1>15. PromptOf(r, v, su, w)
  <2>1. /\ ps # <<>> /\ Head(ps) = System
        /\ \A m \in Range(ps) : m.calls # <<>> /\ m.calls[1][1] = r => m \in Range(s)
    BY DEF RunOK, PromptOf, ps
  <2>2. vs # <<>> /\ Head(vs) = System
    BY <1>1, <1>6, <2>1, HeadOfConcat DEF vs
  <2>3. \A m \in Range(vs) : m.calls # <<>> /\ m.calls[1][1] = r => m \in Range(w)
    BY <1>7, <1>8, <2>1
  <2>4. su.messages = vs /\ su.iteration = i
    BY DEF vs, ps, i
  <2> QED BY <1>5, <1>13, <2>2, <2>3, <2>4 DEF PromptOf
<1>16. CountsOf(v, su)
  BY <1>1 DEF CountsOf, Asking, i
<1>17. Own(r, rs)
  BY <1>9 DEF Own
<1> QED BY <1>6, <1>11, <1>14, <1>15, <1>16, <1>17 DEF RunOK, w

------------------------------------------------------------------------------
(* The actions.                                                            *)

\* What the invariant says of run r, and of the others when r is under way.
LEMMA Here ==
  ASSUME IInv, NEW r \in Run
  PROVE  /\ session \in Seq(Message) /\ summary \in BOOLEAN /\ aborted \in SUBSET Run
         /\ pc[r] \in Where /\ loop[r] \in LoopState /\ child[r] \in Seq(Message)
         /\ RunOK(r, pc[r], loop[r], session) /\ CallsHaveResults(child[r])
         /\ SessionOK(session)
         /\ pc = [pc EXCEPT ![r] = pc[r]]
         /\ loop = [loop EXCEPT ![r] = loop[r]]
         /\ child = [child EXCEPT ![r] = child[r]]
         /\ pc[r] \notin Resting => \A q \in Run : q # r => pc[q] \in Resting
<1>1. /\ session \in Seq(Message) /\ summary \in BOOLEAN /\ aborted \in SUBSET Run
      /\ pc \in [Run -> Where] /\ loop \in [Run -> LoopState] /\ child \in [Run -> Seq(Message)]
  BY DEF IInv, TypeOK
<1>2. /\ pc = [pc EXCEPT ![r] = pc[r]]
      /\ loop = [loop EXCEPT ![r] = loop[r]]
      /\ child = [child EXCEPT ![r] = child[r]]
  BY <1>1
<1>3. pc[r] \notin Resting => \A q \in Run : q # r => pc[q] \in Resting
  BY DEF IInv
<1>4. RunOK(r, pc[r], loop[r], session) /\ CallsHaveResults(child[r]) /\ SessionOK(session)
  BY DEF IInv
<1> QED BY <1>1, <1>2, <1>3, <1>4

\* Adding no messages changes nothing.
LEMMA NothingAdded ==
  /\ <<>> \in Seq(Message) /\ Plain(<<>>)
  /\ \A s \in Seq(Message) : s \o <<>> = s
  /\ Range(<<>>) = {}
<1>1. <<>> \in Seq(Message) /\ \A s \in Seq(Message) : s \o <<>> = s
  OBVIOUS
<1>2. Range(<<>>) = {}
  BY DEF Range
<1> QED BY <1>1, <1>2, PlainPieces

\* Messages without calls have none of other runs.
LEMMA PlainMessages ==
  ASSUME NEW ms, Plain(ms), NEW r
  PROVE  Own(r, ms)
BY DEF Plain, Range, Own

\* A step that leaves the session as it is.
LEMMA StepAside ==
  ASSUME IInv, NEW r \in Run, \A q \in Run : q # r => pc[q] \in Resting,
         NEW where \in Where, NEW st \in LoopState, NEW ch \in Seq(Message),
         pc' = [pc EXCEPT ![r] = where],
         loop' = [loop EXCEPT ![r] = st],
         child' = [child EXCEPT ![r] = ch],
         session' = session,
         summary' \in BOOLEAN, aborted' \in SUBSET Run,
         RunOK(r, where, st, session),
         CallsHaveResults(ch)
  PROVE  IInv'
<1>1. session \in Seq(Message) /\ SessionOK(session)
  BY Here
<1>2. <<>> \in Seq(Message) /\ session \o <<>> = session /\ Range(<<>>) = {}
  BY <1>1, NothingAdded
<1>3. SessionOK(session \o <<>>) /\ RunOK(r, where, st, session \o <<>>)
  BY <1>1, <1>2
<1>4. session' = session \o <<>>
  BY <1>2
<1>5. Own(r, <<>>)
  BY <1>2 DEF Own
<1> QED BY <1>2, <1>3, <1>4, <1>5, StepOf

\* A step that adds messages without calls to the session.
LEMMA StepPlain ==
  ASSUME IInv, NEW r \in Run, \A q \in Run : q # r => pc[q] \in Resting,
         NEW where \in Where, NEW st \in LoopState,
         NEW ms \in Seq(Message), Plain(ms),
         pc' = [pc EXCEPT ![r] = where],
         loop' = [loop EXCEPT ![r] = st],
         session' = session \o ms,
         child' = child, summary' \in BOOLEAN, aborted' \in SUBSET Run,
         RunOK(r, where, st, session \o ms)
  PROVE  IInv'
<1>1. /\ session \in Seq(Message) /\ SessionOK(session)
      /\ child[r] \in Seq(Message) /\ CallsHaveResults(child[r])
      /\ child = [child EXCEPT ![r] = child[r]]
  BY Here
<1>2. SessionOK(session \o ms)
  BY <1>1, PlainSession
<1>3. child' = [child EXCEPT ![r] = child[r]]
  BY <1>1
<1>4. Own(r, ms)
  BY PlainMessages
<1> QED BY <1>1, <1>2, <1>3, <1>4, StepOf

\* A run starts: no call of its own is in the session yet.
LEMMA StartRunKeeps ==
  ASSUME IInv, NEW r \in Run, StartRun(r)
  PROVE  IInv'
<1>1. /\ pc[r] = "idle" /\ \A q \in Run : pc[q] \in Resting
      /\ session' = Append(session, User)
      /\ loop' = [loop EXCEPT ![r] = Fresh(BuildMessages(session'))]
      /\ pc' = [pc EXCEPT ![r] = "head"]
      /\ UNCHANGED <<summary, child, aborted>>
  BY DEF StartRun, MayStart, Goto, Resting
<1>2. /\ session \in Seq(Message) /\ SessionOK(session)
      /\ RunOK(r, "idle", loop[r], session)
      /\ summary \in BOOLEAN /\ aborted \in SUBSET Run
  BY <1>1, Here
<1>3. <<User>> \in Seq(Message) /\ Plain(<<User>>)
  BY PlainPieces, PlainTypes
<1>4. PICK t \in Seq(Message) : t = session \o <<User>>
  BY <1>2, <1>3, ConcatFacts
<1>5. session' = t
  BY <1>1, <1>2, <1>4
<1>6. SessionOK(t)
  BY <1>2, <1>3, <1>4, PlainSession
<1>7. PICK ms \in Seq(Message) : ms = BuildMessages(t)
  BY <1>6, BuildFacts DEF SessionOK
<1>8. /\ ms # <<>> /\ Head(ms) = System /\ WellFormed(ms)
      /\ \A m \in Range(ms) :
           m \in Range(t) \/ m.calls = <<>> \/ \E c \in CallsOf(t) : m = Tool(c)
  BY <1>6, <1>7, BuildFacts DEF SessionOK
<1>9. RunOK(r, "head", Fresh(ms), t)
  BY <1>2, <1>4, <1>8, Begins
<1>10. Fresh(ms) \in LoopState
  BY FreshState
<1>11. loop' = [loop EXCEPT ![r] = Fresh(ms)]
  BY <1>1, <1>5, <1>7
<1>12. session' = session \o <<User>> /\ RunOK(r, "head", Fresh(ms), session \o <<User>>)
  BY <1>4, <1>5, <1>9
<1>13. "head" \in Where
  BY DEF Where
<1> QED BY <1>1, <1>2, <1>3, <1>10, <1>11, <1>12, <1>13, StepPlain

\* A mention starts: its prompt is repaired.
LEMMA StartMentionKeeps ==
  ASSUME IInv, NEW r \in Run, StartMention(r)
  PROVE  IInv'
<1>1. /\ pc[r] = "idle" /\ \A q \in Run : pc[q] \in Resting
      /\ child' = [child EXCEPT ![r] = ChildPrompt]
      /\ pc' = [pc EXCEPT ![r] = "mention"]
      /\ UNCHANGED <<session, summary, loop, aborted>>
  BY DEF StartMention, MayStart, Goto, Resting
<1>2. /\ session \in Seq(Message) /\ RunOK(r, "idle", loop[r], session)
      /\ loop[r] \in LoopState /\ loop = [loop EXCEPT ![r] = loop[r]]
      /\ summary \in BOOLEAN /\ aborted \in SUBSET Run
  BY <1>1, Here
<1>3. ChildPrompt \in Seq(Message) /\ CallsHaveResults(ChildPrompt)
  BY <1>2, ChildFacts
<1>4. RunOK(r, "mention", loop[r], session)
  <2>1. \A i, ms : Stamped(r, "idle", i, ms) => Stamped(r, "mention", i, ms)
    BY DEF Stamped, Asking
  <2> QED BY <1>2, <2>1
          DEF RunOK, CountsOf, SessionOf, PromptOf, Prompted, Asking
<1>5. "mention" \in Where
  BY DEF Where
<1>6. loop' = [loop EXCEPT ![r] = loop[r]]
  BY <1>1, <1>2
<1> QED BY <1>1, <1>2, <1>3, <1>4, <1>5, <1>6, StepAside

\* A run is over: its calls have results unless it threw in its tools.
LEMMA LeaveKeeps ==
  ASSUME IInv, NEW r \in Run, NEW where \in Over, pc[r] \notin Resting,
         pc[r] = "tools" => where = "threw",
         Leave(r, where), UNCHANGED <<session, summary>>
  PROVE  IInv'
<1>1. /\ session \in Seq(Message) /\ RunOK(r, pc[r], loop[r], session)
      /\ \A q \in Run : q # r => pc[q] \in Resting
      /\ summary \in BOOLEAN /\ aborted \in SUBSET Run
  BY Here
<1>2. /\ pc' = [pc EXCEPT ![r] = where]
      /\ loop' = [loop EXCEPT ![r] = Fresh(<<>>)]
      /\ child' = [child EXCEPT ![r] = <<>>]
      /\ aborted' \in SUBSET Run
  BY <1>1 DEF Leave, Goto
<1>3. RunOK(r, where, Fresh(<<>>), session)
  BY <1>1, Leaves DEF Resting
<1>4. /\ <<>> \in Seq(Message) /\ CallsHaveResults(<<>>) /\ Fresh(<<>>) \in LoopState
      /\ where \in Where
  BY PlainTypes, PlainPieces, PlainWellFormed, FreshState DEF WellFormed, Where
<1>5. summary' \in BOOLEAN /\ session' = session
  BY <1>1
<1> QED BY <1>1, <1>2, <1>3, <1>4, <1>5, StepAside

\* An iteration begins: every call so far is of an earlier one.
LEMMA IterateKeeps ==
  ASSUME IInv, NEW r \in Run, Iterate(r)
  PROVE  IInv'
<1>1. /\ pc[r] = "head" /\ loop[r].iteration < MaxIter
      /\ loop' = [loop EXCEPT ![r].iteration = @ + 1]
      /\ pc' = [pc EXCEPT ![r] = "start"]
      /\ UNCHANGED <<session, summary, child, aborted>>
  BY DEF Iterate, Goto
<1>2. pc[r] \notin Resting /\ "start" \in Where
  BY <1>1 DEF Resting, Over, Where
<1>3. /\ session \in Seq(Message) /\ RunOK(r, "head", loop[r], session)
      /\ \A q \in Run : q # r => pc[q] \in Resting
      /\ loop[r] \in LoopState /\ summary \in BOOLEAN /\ aborted \in SUBSET Run
      /\ child[r] \in Seq(Message) /\ CallsHaveResults(child[r])
      /\ child = [child EXCEPT ![r] = child[r]]
  BY <1>1, <1>2, Here
<1>4. PICK st : st = [loop[r] EXCEPT !.iteration = @ + 1]
  OBVIOUS
<1>5. st \in LoopState /\ RunOK(r, "start", st, session)
  BY <1>1, <1>3, <1>4, NewIteration
<1>6. loop' = [loop EXCEPT ![r] = st] /\ child' = [child EXCEPT ![r] = child[r]]
  BY <1>1, <1>3, <1>4
<1> QED BY <1>1, <1>2, <1>3, <1>5, <1>6, StepAside

\* The count of iterations may pass MaxIter by one.
LEMMA LateIteration ==
  ASSUME NEW st \in LoopState, st.iteration <= MaxIter,
         NEW su, su = [st EXCEPT !.iteration = @ + 1]
  PROVE  su \in LoopState
<1>1. st.iteration + 1 \in 0 .. (MaxIter + 1)
  BY StateTypes, ConstantTypes
<1> QED BY <1>1 DEF LoopState

\* The run leaves its loop without a message.
LEMMA EndsAside ==
  ASSUME NEW s \in Seq(Message), NEW r, NEW v \in Prompted, NEW st, NEW su,
         RunOK(r, v, st, s)
  PROVE  RunOK(r, "ending", su, s)
<1>1. RunOK(r, "ending", su, s \o <<>>)
  BY NothingAdded, Ends
<1> QED BY <1>1, NothingAdded

\* The iterations are used up.
LEMMA ExhaustedKeeps ==
  ASSUME IInv, NEW r \in Run, Exhausted(r)
  PROVE  IInv'
<1>1. /\ pc[r] = "head" /\ loop[r].iteration = MaxIter
      /\ loop' = [loop EXCEPT ![r].iteration = @ + 1]
      /\ pc' = [pc EXCEPT ![r] = "ending"]
      /\ UNCHANGED <<session, summary, child, aborted>>
  BY DEF Exhausted, Goto
<1>2. pc[r] \notin Resting /\ "ending" \in Where /\ "head" \in Prompted
  BY <1>1 DEF Resting, Over, Where, Prompted
<1>3. /\ session \in Seq(Message) /\ RunOK(r, "head", loop[r], session)
      /\ \A q \in Run : q # r => pc[q] \in Resting
      /\ loop[r] \in LoopState /\ summary \in BOOLEAN /\ aborted \in SUBSET Run
      /\ child[r] \in Seq(Message) /\ CallsHaveResults(child[r])
      /\ child = [child EXCEPT ![r] = child[r]]
  BY <1>1, <1>2, Here
<1>4. PICK st : st = [loop[r] EXCEPT !.iteration = @ + 1]
  OBVIOUS
<1>5. st \in LoopState
  <2>1. loop[r].iteration <= MaxIter
    BY <1>1, ConstantTypes
  <2> QED BY <1>3, <1>4, <2>1, LateIteration
<1>6. loop' = [loop EXCEPT ![r] = st] /\ child' = [child EXCEPT ![r] = child[r]]
  BY <1>1, <1>3, <1>4
<1>7. RunOK(r, "ending", st, session)
  BY <1>2, <1>3, EndsAside
<1> QED BY <1>1, <1>2, <1>3, <1>5, <1>6, <1>7, StepAside

\* The loop sees the abort: nothing is left to synthesise.
LEMMA StopAbortedKeeps ==
  ASSUME IInv, NEW r \in Run, StopAborted(r)
  PROVE  IInv'
<1>1. /\ pc[r] = "head" /\ loop[r].iteration < MaxIter
      /\ Add(r, [loop[r] EXCEPT !.iteration = @ + 1], Unanswered(loop[r].messages))
      /\ pc' = [pc EXCEPT ![r] = "ending"]
      /\ UNCHANGED <<summary, child, aborted>>
  BY DEF StopAborted, Goto
<1>2. pc[r] \notin Resting /\ "ending" \in Where /\ "head" \in Prompted
  BY <1>1 DEF Resting, Over, Where, Prompted
<1>3. /\ session \in Seq(Message) /\ RunOK(r, "head", loop[r], session)
      /\ \A q \in Run : q # r => pc[q] \in Resting
      /\ loop[r] \in LoopState /\ summary \in BOOLEAN /\ aborted \in SUBSET Run
      /\ child[r] \in Seq(Message) /\ CallsHaveResults(child[r])
      /\ child = [child EXCEPT ![r] = child[r]]
  BY <1>1, <1>2, Here
<1>4. loop[r].messages \in Seq(Message) /\ CallsHaveResults(loop[r].messages)
  BY <1>2, <1>3, StateTypes DEF RunOK, PromptOf, WellFormed
<1>5. Unanswered(loop[r].messages) = <<>>
  BY <1>4, UnansweredNone
<1>6. PICK sv : sv = [loop[r] EXCEPT !.iteration = @ + 1]
  OBVIOUS
<1>7. sv \in LoopState
  <2>1. loop[r].iteration <= MaxIter
    BY <1>1, <1>3, StateTypes, ConstantTypes
  <2> QED BY <1>3, <1>6, <2>1, LateIteration
<1>8. /\ loop' = [loop EXCEPT ![r] = [sv EXCEPT !.messages = @ \o <<>>]]
      /\ session' = session \o <<>>
  BY <1>1, <1>5, <1>6 DEF Add
<1>9. PICK st : st = [sv EXCEPT !.messages = @ \o <<>>]
  OBVIOUS
<1>10. st \in LoopState
  <2>1. sv.messages \in Seq(Message)
    BY <1>7, StateTypes
  <2>2. sv.messages \o <<>> = sv.messages
    BY <2>1, NothingAdded
  <2> QED BY <1>7, <1>9, <2>1, <2>2 DEF LoopState
<1>11. RunOK(r, "ending", st, session)
  BY <1>2, <1>3, EndsAside
<1>12. session' = session /\ loop' = [loop EXCEPT ![r] = st]
  BY <1>3, <1>8, <1>9, NothingAdded
<1>13. child' = [child EXCEPT ![r] = child[r]]
  BY <1>1, <1>3
<1> QED BY <1>1, <1>2, <1>3, <1>10, <1>11, <1>12, <1>13, StepAside

\* The state of a run with the messages ms.
LEMMA WithMessages ==
  ASSUME NEW st \in LoopState, NEW ms \in Seq(Message)
  PROVE  LET su == [st EXCEPT !.messages = ms] IN
         /\ su \in LoopState /\ su.messages = ms
         /\ su.iteration = st.iteration /\ su.errors = st.errors
BY DEF LoopState

\* The request is prepared: a queued message joins the session, and the
\* truncated prompt is repaired.
LEMMA PrepareKeeps ==
  ASSUME IInv, NEW r \in Run, NEW queued \in {<<>>, <<User>>},
         NEW cut \in 0 .. Len(loop[r].messages), Prepare(r, queued, cut)
  PROVE  IInv'
<1> DEFINE ms == loop[r].messages
           where == IF cut > 2 /\ ~summary THEN "compact" ELSE "llm"
           new == IF cut = 0 THEN ms ELSE Truncated(ms, cut)
<1>1. /\ pc[r] = "start"
      /\ session' = session \o queued
      /\ cut = 0 \/ cut + 1 + Recent <= Len(ms)
      /\ loop' = [loop EXCEPT ![r].messages = new]
      /\ pc' = [pc EXCEPT ![r] = where]
      /\ UNCHANGED <<summary, child, aborted>>
  BY DEF Prepare, Goto
<1>2. pc[r] \notin Resting /\ where \in Where /\ where \in Prompted /\ "start" \in Prompted
  BY <1>1 DEF Resting, Over, Where, Prompted, Asking
<1>3. /\ session \in Seq(Message) /\ RunOK(r, "start", loop[r], session)
      /\ \A q \in Run : q # r => pc[q] \in Resting
      /\ loop[r] \in LoopState /\ summary \in BOOLEAN /\ aborted \in SUBSET Run
  BY <1>1, <1>2, Here
<1>4. queued \in Seq(Message) /\ Plain(queued)
  BY PlainPieces, PlainTypes
<1>5. ms \in Seq(Message) /\ WellFormed(ms) /\ ms # <<>> /\ Head(ms) = System
  BY <1>2, <1>3, StateTypes DEF RunOK, PromptOf
<1>6. cut \in Nat
  BY <1>5
<1> HIDE DEF ms, where
<1>7. /\ new \in Seq(Message) /\ WellFormed(new) /\ new # <<>> /\ Head(new) = System
      /\ \A m \in Range(new) : m \in Range(ms) \/ m.calls = <<>>
  <2>1. CASE cut = 0
    BY <1>5, <2>1
  <2>2. CASE cut # 0
    BY <1>1, <1>5, <1>6, <2>2, TruncatedFacts
  <2> QED BY <2>1, <2>2
<1> HIDE DEF new
<1>8. PICK st : st = [loop[r] EXCEPT !.messages = new]
  OBVIOUS
<1>9. /\ st \in LoopState /\ st.messages = new
      /\ st.iteration = loop[r].iteration /\ st.errors = loop[r].errors
  BY <1>3, <1>7, <1>8, WithMessages
<1>10. RunOK(r, where, st, session \o queued)
  BY <1>2, <1>3, <1>4, <1>7, <1>9, GoesOn DEF Asking, ms
<1>11. loop' = [loop EXCEPT ![r] = st] /\ child' = child
  BY <1>1, <1>8
<1> QED BY <1>1, <1>2, <1>3, <1>4, <1>9, <1>10, <1>11, StepPlain

\* The prompt stays as it is.
LEMMA GoesOnAside ==
  ASSUME NEW s \in Seq(Message), NEW r, NEW v \in Asking, NEW w \in Prompted,
         NEW st \in LoopState, RunOK(r, v, st, s)
  PROVE  RunOK(r, w, st, s)
<1>1. v \in Prompted
  BY DEF Prompted
<1>2. WellFormed(st.messages) /\ st.messages # <<>> /\ Head(st.messages) = System
  BY <1>1 DEF RunOK, PromptOf
<1>3. RunOK(r, w, st, s \o <<>>)
  BY <1>1, <1>2, NothingAdded, GoesOn
<1> QED BY <1>3, NothingAdded

\* The summary arrives.
LEMMA SummarisedKeeps ==
  ASSUME IInv, NEW r \in Run, Summarised(r)
  PROVE  IInv'
<1>1. /\ pc[r] = "compact" /\ summary' \in BOOLEAN
      /\ pc' = [pc EXCEPT ![r] = "llm"]
      /\ UNCHANGED <<session, loop, child, aborted>>
  BY DEF Summarised, Goto
<1>2. pc[r] \notin Resting /\ "llm" \in Where /\ "llm" \in Prompted /\ "compact" \in Asking
  BY <1>1 DEF Resting, Over, Where, Prompted, Asking
<1>3. /\ session \in Seq(Message) /\ RunOK(r, "compact", loop[r], session)
      /\ \A q \in Run : q # r => pc[q] \in Resting
      /\ loop[r] \in LoopState /\ aborted \in SUBSET Run
      /\ child[r] \in Seq(Message) /\ CallsHaveResults(child[r])
      /\ child = [child EXCEPT ![r] = child[r]]
      /\ loop = [loop EXCEPT ![r] = loop[r]]
  BY <1>1, <1>2, Here
<1>4. RunOK(r, "llm", loop[r], session)
  BY <1>2, <1>3, GoesOnAside
<1>5. /\ loop' = [loop EXCEPT ![r] = loop[r]] /\ child' = [child EXCEPT ![r] = child[r]]
      /\ session' = session /\ aborted' \in SUBSET Run
  BY <1>1, <1>3
<1> QED BY <1>1, <1>2, <1>3, <1>4, <1>5, StepAside

\* The prompt was too long.
LEMMA TooLongKeeps ==
  ASSUME IInv, NEW r \in Run, TooLong(r)
  PROVE  IInv'
<1>1. /\ pc[r] = "llm"
      /\ pc' = [pc EXCEPT ![r] = "recompact"]
      /\ UNCHANGED <<session, summary, loop, child, aborted>>
  BY DEF TooLong, Goto
<1>2. /\ pc[r] \notin Resting /\ "recompact" \in Where /\ "recompact" \in Prompted
      /\ "llm" \in Asking
  BY <1>1 DEF Resting, Over, Where, Prompted, Asking
<1>3. /\ session \in Seq(Message) /\ RunOK(r, "llm", loop[r], session)
      /\ \A q \in Run : q # r => pc[q] \in Resting
      /\ loop[r] \in LoopState /\ summary \in BOOLEAN /\ aborted \in SUBSET Run
      /\ child[r] \in Seq(Message) /\ CallsHaveResults(child[r])
      /\ child = [child EXCEPT ![r] = child[r]]
      /\ loop = [loop EXCEPT ![r] = loop[r]]
  BY <1>1, <1>2, Here
<1>4. RunOK(r, "recompact", loop[r], session)
  BY <1>2, <1>3, GoesOnAside
<1>5. /\ loop' = [loop EXCEPT ![r] = loop[r]] /\ child' = [child EXCEPT ![r] = child[r]]
      /\ session' = session /\ aborted' \in SUBSET Run /\ summary' \in BOOLEAN
  BY <1>1, <1>3
<1> QED BY <1>1, <1>2, <1>3, <1>4, <1>5, StepAside

\* A final text.
LEMMA AnswerKeeps ==
  ASSUME IInv, NEW r \in Run, Answer(r)
  PROVE  IInv'
<1> DEFINE ms == <<Assistant(<<>>)>>
           st == [loop[r] EXCEPT !.messages = @ \o ms]
<1>1. /\ pc[r] = "llm" /\ session' = session \o ms
      /\ loop' = [loop EXCEPT ![r] = st]
      /\ pc' = [pc EXCEPT ![r] = "ending"]
      /\ UNCHANGED <<summary, child, aborted>>
  BY DEF Answer, Goto, Add
<1>2. pc[r] \notin Resting /\ "ending" \in Where /\ "llm" \in Prompted
  BY <1>1 DEF Resting, Over, Where, Prompted, Asking
<1>3. /\ session \in Seq(Message) /\ RunOK(r, "llm", loop[r], session)
      /\ \A q \in Run : q # r => pc[q] \in Resting
      /\ loop[r] \in LoopState /\ summary \in BOOLEAN /\ aborted \in SUBSET Run
  BY <1>1, <1>2, Here
<1>4. ms \in Seq(Message) /\ Plain(ms)
  BY PlainPieces, PlainTypes
<1> HIDE DEF ms
<1>5. st \in LoopState
  <2>1. loop[r].messages \o ms \in Seq(Message)
    BY <1>3, <1>4, StateTypes, ConcatFacts
  <2> QED BY <1>3, <2>1, WithMessages
<1> HIDE DEF st
<1>6. RunOK(r, "ending", st, session \o ms)
  BY <1>2, <1>3, <1>4, Ends
<1>7. child' = child /\ summary' \in BOOLEAN /\ aborted' \in SUBSET Run
  BY <1>1, <1>3
<1> QED BY <1>1, <1>2, <1>3, <1>4, <1>5, <1>6, <1>7, StepPlain

\* A text is continued.
LEMMA ContinueKeeps ==
  ASSUME IInv, NEW r \in Run, Continue(r)
  PROVE  IInv'
<1> DEFINE ms == <<Assistant(<<>>), User>>
           old == loop[r].messages
           new == old \o ms
<1>1. /\ pc[r] = "llm" /\ session' = session \o ms
      /\ loop[r].recovered < MaxRecovery
      /\ loop' = [loop EXCEPT ![r] =
                    [[loop[r] EXCEPT !.recovered = @ + 1] EXCEPT !.messages = @ \o ms]]
      /\ pc' = [pc EXCEPT ![r] = "head"]
      /\ UNCHANGED <<summary, child, aborted>>
  BY DEF Continue, Goto, Add
<1>2. /\ pc[r] \notin Resting /\ "head" \in Where /\ "llm" \in Prompted /\ "llm" \in Asking
      /\ "head" \in Prompted
  BY <1>1 DEF Resting, Over, Where, Prompted, Asking
<1>3. /\ session \in Seq(Message) /\ RunOK(r, "llm", loop[r], session)
      /\ \A q \in Run : q # r => pc[q] \in Resting
      /\ loop[r] \in LoopState /\ summary \in BOOLEAN /\ aborted \in SUBSET Run
  BY <1>1, <1>2, Here
<1>4. ms \in Seq(Message) /\ Plain(ms)
  BY PlainPieces, PlainTypes
<1>5. old \in Seq(Message) /\ WellFormed(old) /\ old # <<>> /\ Head(old) = System
  BY <1>2, <1>3, StateTypes DEF RunOK, PromptOf
<1> HIDE DEF ms, old
<1>6. /\ new \in Seq(Message) /\ WellFormed(new) /\ new # <<>> /\ Head(new) = System
      /\ \A m \in Range(new) : m \in Range(old) \/ m.calls = <<>>
  <2>1. new \in Seq(Message)
    BY <1>4, <1>5, ConcatFacts
  <2>2. new # <<>> /\ Head(new) = System
    BY <1>4, <1>5, HeadOfConcat
  <2>3. WellFormed(new) /\ \A m \in Range(new) : m \in Range(old) \/ m.calls = <<>>
    BY <1>4, <1>5, PlainBeside
  <2> QED BY <2>1, <2>2, <2>3
<1>7. PICK sv : sv = [loop[r] EXCEPT !.recovered = @ + 1]
  OBVIOUS
<1>8. /\ sv \in LoopState /\ sv.messages = old
      /\ sv.iteration = loop[r].iteration /\ sv.errors = loop[r].errors
  <2>1. loop[r].recovered + 1 \in 0 .. MaxRecovery
    BY <1>1, <1>3, StateTypes, ConstantTypes, SMTT(30)
  <2> QED BY <1>3, <1>7, <2>1 DEF LoopState, old
<1>9. PICK st : st = [sv EXCEPT !.messages = new]
  OBVIOUS
<1> HIDE DEF new
<1>10. /\ st \in LoopState /\ st.messages = new
       /\ st.iteration = loop[r].iteration /\ st.errors = loop[r].errors
  BY <1>6, <1>8, <1>9, WithMessages
<1>11. RunOK(r, "head", st, session \o ms)
  BY <1>2, <1>3, <1>4, <1>6, <1>10, GoesOn DEF old
<1>12. loop' = [loop EXCEPT ![r] = st] /\ child' = child
  BY <1>1, <1>7, <1>8, <1>9 DEF new
<1>13. summary' \in BOOLEAN /\ aborted' \in SUBSET Run
  BY <1>1, <1>3
<1> QED BY <1>1, <1>2, <1>3, <1>4, <1>10, <1>11, <1>12, <1>13, StepPlain

\* Calls: from here on their results are missing.
LEMMA CallToolsKeeps ==
  ASSUME IInv, NEW r \in Run, NEW n \in 1 .. MaxCalls, CallTools(r, n)
  PROVE  IInv'
<1>1. PICK cs : cs = CallsIn(r, loop[r].iteration, n)
  OBVIOUS
<1>2. PICK st : st = [loop[r] EXCEPT !.messages = @ \o <<Assistant(cs)>>]
  OBVIOUS
<1>3. /\ pc[r] = "llm" /\ session' = session \o <<Assistant(cs)>>
      /\ loop' = [loop EXCEPT ![r] = st]
      /\ pc' = [pc EXCEPT ![r] = "tools"]
      /\ UNCHANGED <<summary, child, aborted>>
  BY <1>1, <1>2 DEF CallTools, Goto, Add, CallsIn
<1>4. pc[r] \notin Resting /\ "tools" \in Where
  BY <1>3 DEF Resting, Over, Where
<1>5. /\ session \in Seq(Message) /\ RunOK(r, "llm", loop[r], session) /\ SessionOK(session)
      /\ \A q \in Run : q # r => pc[q] \in Resting
      /\ loop[r] \in LoopState /\ summary \in BOOLEAN /\ aborted \in SUBSET Run
      /\ child[r] \in Seq(Message) /\ CallsHaveResults(child[r])
      /\ child = [child EXCEPT ![r] = child[r]]
  BY <1>3, <1>4, Here
<1>6. /\ st \in LoopState /\ <<Assistant(cs)>> \in Seq(Message)
      /\ Own(r, <<Assistant(cs)>>)
      /\ SessionOK(session \o <<Assistant(cs)>>)
      /\ RunOK(r, "tools", st, session \o <<Assistant(cs)>>)
  <2>1. PICK sv \in LoopState : sv = loop[r]
    BY <1>5
  <2>2. st = [sv EXCEPT !.messages = @ \o <<Assistant(cs)>>] /\ cs = CallsIn(r, sv.iteration, n)
    BY <1>1, <1>2, <2>1
  <2>3. RunOK(r, "llm", sv, session)
    BY <1>5, <2>1
  <2>4. session \in Seq(Message) /\ SessionOK(session)
    BY <1>5
  <2> QED BY <2>2, <2>3, <2>4, Responds, SMTT(30)
<1>7. /\ child' = [child EXCEPT ![r] = child[r]]
      /\ summary' \in BOOLEAN /\ aborted' \in SUBSET Run
  BY <1>3, <1>5
<1>8. PICK ms : ms = <<Assistant(cs)>>
  OBVIOUS
<1>9. /\ ms \in Seq(Message) /\ SessionOK(session \o ms) /\ session' = session \o ms
      /\ Own(r, ms)
      /\ RunOK(r, "tools", st, session \o ms)
  BY <1>3, <1>6, <1>8
<1> QED BY <1>3, <1>4, <1>5, <1>6, <1>7, <1>9, StepOf

\* The newer half is repaired behind the summary.
LEMMA ReactiveCompactKeeps ==
  ASSUME IInv, NEW r \in Run, ReactiveCompact(r)
  PROVE  IInv'
<1> DEFINE ms == loop[r].messages
           new == Compacted(ms)
<1>1. /\ pc[r] = "recompact" /\ summary' \in BOOLEAN
      /\ loop' = [loop EXCEPT ![r] =
                    [[loop[r] EXCEPT !.messages = new] EXCEPT !.compacted = TRUE]]
      /\ pc' = [pc EXCEPT ![r] = "head"]
      /\ UNCHANGED <<session, child, aborted>>
  <2>1. loop \in [Run -> LoopState]
    BY DEF IInv, TypeOK
  <2>2. PICK v : v = Compacted(loop[r].messages)
    OBVIOUS
  <2>3. loop' = [loop EXCEPT ![r].messages = v, ![r].compacted = TRUE]
    BY <2>2 DEF ReactiveCompact
  <2>4. loop' = [loop EXCEPT ![r] = [[loop[r] EXCEPT !.messages = v] EXCEPT !.compacted = TRUE]]
    BY <2>1, <2>3
  <2> QED BY <2>2, <2>4 DEF ReactiveCompact, Goto
<1>2. /\ pc[r] \notin Resting /\ "head" \in Where /\ "recompact" \in Prompted
      /\ "recompact" \in Asking /\ "head" \in Prompted
  BY <1>1 DEF Resting, Over, Where, Prompted, Asking
<1>3. /\ session \in Seq(Message) /\ RunOK(r, "recompact", loop[r], session)
      /\ \A q \in Run : q # r => pc[q] \in Resting
      /\ loop[r] \in LoopState /\ aborted \in SUBSET Run
  BY <1>1, <1>2, Here
<1>4. ms \in Seq(Message) /\ WellFormed(ms) /\ ms # <<>>
  BY <1>2, <1>3, StateTypes DEF RunOK, PromptOf
<1> HIDE DEF ms
<1>5. /\ new \in Seq(Message) /\ WellFormed(new) /\ new # <<>> /\ Head(new) = System
      /\ \A m \in Range(new) : m \in Range(ms) \/ m.calls = <<>>
  BY <1>4, CompactedFacts
<1> HIDE DEF new
<1>6. PICK sv : sv = [loop[r] EXCEPT !.messages = new]
  OBVIOUS
<1>7. /\ sv \in LoopState /\ sv.messages = new
      /\ sv.iteration = loop[r].iteration /\ sv.errors = loop[r].errors
  BY <1>3, <1>5, <1>6, WithMessages
<1>8. PICK st : st = [sv EXCEPT !.compacted = TRUE]
  OBVIOUS
<1>9. /\ st \in LoopState /\ st.messages = new
      /\ st.iteration = loop[r].iteration /\ st.errors = loop[r].errors
  BY <1>7, <1>8 DEF LoopState
<1>10. RunOK(r, "head", st, session \o <<>>)
  BY <1>2, <1>3, <1>5, <1>9, NothingAdded, GoesOn DEF ms
<1>11. /\ loop' = [loop EXCEPT ![r] = st] /\ child' = child /\ session' = session \o <<>>
       /\ aborted' \in SUBSET Run
  BY <1>1, <1>3, <1>6, <1>8, NothingAdded
<1> QED BY <1>1, <1>2, <1>3, <1>9, <1>10, <1>11, NothingAdded, StepPlain

\* A sub-agent starts: its prompt is repaired.
LEMMA DelegateKeeps ==
  ASSUME IInv, NEW r \in Run, Delegate(r)
  PROVE  IInv'
<1>1. /\ pc[r] = "tools"
      /\ child' = [child EXCEPT ![r] = ChildPrompt]
      /\ UNCHANGED <<session, summary, pc, loop, aborted>>
  BY DEF Delegate
<1>2. pc[r] \notin Resting
  BY <1>1 DEF Resting, Over
<1>3. /\ session \in Seq(Message) /\ RunOK(r, pc[r], loop[r], session)
      /\ \A q \in Run : q # r => pc[q] \in Resting
      /\ pc[r] \in Where
      /\ loop[r] \in LoopState /\ summary \in BOOLEAN /\ aborted \in SUBSET Run
      /\ pc = [pc EXCEPT ![r] = pc[r]]
      /\ loop = [loop EXCEPT ![r] = loop[r]]
  BY <1>2, Here
<1>4. ChildPrompt \in Seq(Message) /\ CallsHaveResults(ChildPrompt)
  BY <1>3, ChildFacts
<1>5. /\ pc' = [pc EXCEPT ![r] = pc[r]] /\ loop' = [loop EXCEPT ![r] = loop[r]]
      /\ session' = session /\ aborted' \in SUBSET Run /\ summary' \in BOOLEAN
  BY <1>1, <1>3
<1> QED BY <1>1, <1>3, <1>4, <1>5, StepAside

\* The counters of errors and of equal calls stay within their limits.
LEMMA CountedStates ==
  ASSUME NEW st \in LoopState, NEW n \in Nat, NEW failed \in BOOLEAN, NEW k \in Nat,
         st.errors < Doom, NEW sv \in Counted(st, n, failed, k)
  PROVE  /\ sv \in LoopState /\ sv.messages = st.messages /\ sv.iteration = st.iteration
<1>1. PICK s \in {k} \cup (IF k = n THEN {st.same + n} ELSE {}) :
        sv = [st EXCEPT !.errors = IF failed THEN @ + 1 ELSE 0, !.same = Least(s, Repeat)]
  BY DEF Counted
<1>2. (IF failed THEN st.errors + 1 ELSE 0) \in 0 .. Doom
  BY StateTypes, ConstantTypes
<1>3. Least(s, Repeat) \in 0 .. Repeat
  BY StateTypes, ConstantTypes DEF Least
<1>4. PICK e \in 0 .. Doom : e = IF failed THEN st.errors + 1 ELSE 0
  BY <1>2
<1>5. PICK l \in 0 .. Repeat : l = Least(s, Repeat)
  BY <1>3
<1>6. sv = [st EXCEPT !.errors = e, !.same = l]
  BY <1>1, <1>4, <1>5 DEF LoopState
<1> QED BY <1>6 DEF LoopState

\* Results: nothing is missing any more, whether the run goes on or stops.
LEMMA ToolsDoneKeeps ==
  ASSUME IInv, NEW r \in Run, NEW failed \in BOOLEAN, NEW k \in 1 .. MaxCalls,
         ToolsDone(r, failed, k)
  PROVE  IInv'
<1> DEFINE n == Len(Asked(r))
           rs == Results(Asked(r))
<1>1. /\ pc[r] = "tools"
      /\ child' = [child EXCEPT ![r] = <<>>]
      /\ UNCHANGED <<summary, aborted>>
  BY DEF ToolsDone
<1>2. PICK sv \in Counted(loop[r], n, failed, k) :
        /\ Add(r, sv, rs)
        /\ Goto(r, IF Stops(sv) THEN "ending" ELSE "head")
  BY DEF ToolsDone
<1>3. PICK where \in {"head", "ending"} : where = IF Stops(sv) THEN "ending" ELSE "head"
  OBVIOUS
<1>4. PICK st : st = [sv EXCEPT !.messages = @ \o rs]
  OBVIOUS
<1>5. /\ session' = session \o rs
      /\ loop' = [loop EXCEPT ![r] = st]
      /\ pc' = [pc EXCEPT ![r] = where]
  BY <1>2, <1>3, <1>4 DEF Add, Goto
<1>6. pc[r] \notin Resting /\ where \in Where
  BY <1>1 DEF Resting, Over, Where
<1>7. /\ session \in Seq(Message) /\ RunOK(r, "tools", loop[r], session) /\ SessionOK(session)
      /\ \A q \in Run : q # r => pc[q] \in Resting
      /\ loop[r] \in LoopState /\ summary \in BOOLEAN /\ aborted \in SUBSET Run
  BY <1>1, <1>6, Here
<1>8. loop[r].errors < Doom /\ loop[r].messages \in Seq(Message)
  BY <1>7, StateTypes DEF RunOK, CountsOf
<1>9. n \in Nat
  <2>1. loop[r].iteration \in 1 .. MaxIter
    BY <1>7 DEF RunOK, CountsOf
  <2>2. PICK m \in 1 .. MaxCalls :
          Last(loop[r].messages) = Assistant(CallsIn(r, loop[r].iteration, m))
    BY <1>7 DEF RunOK, ToolsOf
  <2>3. Asked(r) = CallsIn(r, loop[r].iteration, m)
    BY <2>2 DEF Asked, Assistant
  <2>4. Len(CallsIn(r, loop[r].iteration, m)) = m
    BY <2>1, CallsInFacts
  <2> QED BY <2>3, <2>4
<1> HIDE DEF n
<1>10. /\ sv \in LoopState /\ sv.messages = loop[r].messages
       /\ sv.iteration = loop[r].iteration
  <2>1. k \in Nat
    BY ConstantTypes
  <2> QED BY <1>2, <1>7, <1>8, <1>9, <2>1, CountedStates
<1> HIDE DEF rs
<1>11. /\ st.messages = loop[r].messages \o rs /\ st.iteration = loop[r].iteration
       /\ st.errors = sv.errors
  <2>1. PICK ms : ms = loop[r].messages \o rs
    OBVIOUS
  <2>2. st = [sv EXCEPT !.messages = ms]
    BY <1>4, <1>10, <2>1
  <2>3. st.messages = ms /\ st.iteration = sv.iteration /\ st.errors = sv.errors
    BY <1>10, <2>2 DEF LoopState
  <2> QED BY <1>10, <2>1, <2>3
<1>12. where = "head" => st.errors < Doom
  BY <1>3, <1>10, <1>11, StateTypes, ConstantTypes DEF Stops
<1>13. rs = Results(Last(loop[r].messages).calls)
  BY DEF rs, Asked
<1>14. /\ rs \in Seq(Message)
       /\ Own(r, rs)
       /\ SessionOK(session \o rs)
       /\ RunOK(r, where, st, session \o rs)
  <2>1. PICK old \in LoopState : old = loop[r]
    BY <1>7
  <2>2. /\ RunOK(r, "tools", old, session) /\ rs = Results(Last(old.messages).calls)
        /\ st.messages = old.messages \o rs /\ st.iteration = old.iteration
    BY <1>7, <1>11, <1>13, <2>1
  <2>3. session \in Seq(Message) /\ SessionOK(session)
    BY <1>7
  <2>4. where = "head" => st.errors < Doom
    BY <1>12
  <2> QED BY <2>2, <2>3, <2>4, Settles
<1>15. st \in LoopState
  <2>1. PICK ms \in Seq(Message) : ms = loop[r].messages \o rs
    BY <1>8, <1>14, ConcatFacts
  <2>2. st = [sv EXCEPT !.messages = ms]
    BY <1>4, <1>10, <2>1
  <2> QED BY <1>10, <2>2, WithMessages
<1>16. summary' \in BOOLEAN /\ aborted' \in SUBSET Run
  BY <1>1, <1>7
<1>17. <<>> \in Seq(Message) /\ CallsHaveResults(<<>>)
  BY PlainTypes, PlainPieces, PlainWellFormed DEF WellFormed
<1> QED BY <1>1, <1>5, <1>6, <1>7, <1>14, <1>15, <1>16, <1>17, StepOf

\* A signal fires.
LEMMA AbortKeeps ==
  ASSUME IInv, NEW r \in Run, Abort(r)
  PROVE  IInv'
<1>1. aborted' = aborted \cup {r} /\ UNCHANGED <<session, summary, pc, loop, child>>
  BY DEF Abort
<1>2. aborted' \in SUBSET Run
  BY <1>1 DEF IInv, TypeOK
<1>3. TypeOK'
  BY <1>1, <1>2 DEF IInv, TypeOK
<1>4. \A q \in Run : RunOK(q, pc'[q], loop'[q], session') /\ CallsHaveResults(child'[q])
  BY <1>1 DEF IInv
<1>5. /\ SessionOK(session')
      /\ \A p, q \in Run : pc'[p] \notin Resting /\ pc'[q] \notin Resting => p = q
  BY <1>1 DEF IInv
<1> QED BY <1>3, <1>4, <1>5 DEF IInv

\* An empty session.
LEMMA InitKeeps == Init => IInv
<1> SUFFICES ASSUME Init PROVE IInv
  OBVIOUS
<1>1. /\ session = <<>> /\ summary = FALSE /\ aborted = {}
      /\ pc = [r \in Run |-> "idle"] /\ loop = [r \in Run |-> Fresh(<<>>)]
      /\ child = [r \in Run |-> <<>>]
  BY DEF Init
<1>2. <<>> \in Seq(Message) /\ Fresh(<<>>) \in LoopState /\ Range(<<>>) = {}
  BY NothingAdded, FreshState
<1>3. TypeOK
  BY <1>1, <1>2 DEF TypeOK, Where
<1>4. WellFormed(<<>>)
  BY PlainPieces, PlainWellFormed
<1>5. SessionOK(<<>>)
  BY <1>4 DEF SessionOK, WellFormed, OneResultIn
<1>6. \A r, i : Stamped(r, "idle", i, <<>>)
  BY <1>2 DEF Stamped, Foreign
<1>7. /\ Fresh(<<>>).messages = <<>> /\ Fresh(<<>>).errors = 0 /\ 0 < Doom
  BY ConstantTypes DEF Fresh
<1>8. \A r : RunOK(r, "idle", Fresh(<<>>), <<>>)
  BY <1>6, <1>7
     DEF RunOK, CountsOf, SessionOf, PromptOf, AnsweredUpTo, Prompted, Asking
<1> QED BY <1>1, <1>3, <1>4, <1>5, <1>8 DEF IInv, Resting, WellFormed

\* Every step of a run keeps the invariant.
LEMMA StepKeeps ==
  ASSUME IInv, NEW r \in Run, Step(r)
  PROVE  IInv'
<1>1. CASE MentionDone(r)
  <2>1. PICK where \in Over : Leave(r, where)
    BY <1>1 DEF MentionDone
  <2>2. pc[r] \notin Resting /\ pc[r] # "tools" /\ UNCHANGED <<session, summary>>
    BY <1>1 DEF MentionDone, Resting, Over
  <2> QED BY <2>1, <2>2, LeaveKeeps
<1>2. CASE Iterate(r)
  BY <1>2, IterateKeeps
<1>3. CASE Exhausted(r)
  BY <1>3, ExhaustedKeeps
<1>4. CASE StopAborted(r)
  BY <1>4, StopAbortedKeeps
<1>5. ASSUME NEW queued \in {<<>>, <<User>>}, NEW cut \in 0 .. Len(loop[r].messages),
             Prepare(r, queued, cut)
      PROVE  IInv'
  BY <1>5, PrepareKeeps
<1>6. CASE Summarised(r)
  BY <1>6, SummarisedKeeps
<1>7. CASE Answer(r)
  BY <1>7, AnswerKeeps
<1>8. CASE Continue(r)
  BY <1>8, ContinueKeeps
<1>9. ASSUME NEW n \in 1 .. MaxCalls, CallTools(r, n) PROVE IInv'
  BY <1>9, CallToolsKeeps
<1>10. CASE TooLong(r)
  BY <1>10, TooLongKeeps
<1>11. CASE ReactiveCompact(r)
  BY <1>11, ReactiveCompactKeeps
<1>12. CASE Fail(r)
  <2>1. /\ pc[r] \notin Resting /\ pc[r] # "tools" /\ "done" \in Over
        /\ Leave(r, "done") /\ UNCHANGED <<session, summary>>
    BY <1>12 DEF Fail, Resting, Over
  <2> QED BY <2>1, LeaveKeeps
<1>13. CASE Delegate(r)
  BY <1>13, DelegateKeeps
<1>14. ASSUME NEW failed \in BOOLEAN, NEW k \in 1 .. MaxCalls, ToolsDone(r, failed, k)
       PROVE  IInv'
  BY <1>14, ToolsDoneKeeps
<1>15. CASE ToolsThrow(r)
  <2>1. /\ pc[r] \notin Resting /\ "threw" \in Over
        /\ Leave(r, "threw") /\ UNCHANGED <<session, summary>>
    BY <1>15 DEF ToolsThrow, Resting, Over
  <2> QED BY <2>1, LeaveKeeps
<1>16. CASE Finish(r)
  <2>1. /\ pc[r] \notin Resting /\ pc[r] # "tools" /\ "done" \in Over
        /\ Leave(r, "done") /\ UNCHANGED <<session, summary>>
    BY <1>16 DEF Finish, Resting, Over
  <2> QED BY <2>1, LeaveKeeps
<1> QED BY <1>1, <1>2, <1>3, <1>4, <1>5, <1>6, <1>7, <1>8, <1>9, <1>10, <1>11, <1>12,
           <1>13, <1>14, <1>15, <1>16 DEF Step

\* And so does every step.
LEMMA NextKeeps == IInv /\ [Next]_vars => IInv'
<1> SUFFICES ASSUME IInv, [Next]_vars PROVE IInv'
  OBVIOUS
<1>1. ASSUME NEW r \in Run, StartRun(r) PROVE IInv'
  BY <1>1, StartRunKeeps
<1>2. ASSUME NEW r \in Run, StartMention(r) PROVE IInv'
  BY <1>2, StartMentionKeeps
<1>3. ASSUME NEW r \in Run, Step(r) PROVE IInv'
  BY <1>3, StepKeeps
<1>4. ASSUME NEW r \in Run, Abort(r) PROVE IInv'
  BY <1>4, AbortKeeps
<1>5. CASE UNCHANGED vars
  <2>1. UNCHANGED <<session, summary, pc, loop, child, aborted>>
    BY <1>5 DEF vars
  <2>2. TypeOK'
    BY <2>1 DEF IInv, TypeOK
  <2>3. \A q \in Run : RunOK(q, pc'[q], loop'[q], session') /\ CallsHaveResults(child'[q])
    BY <2>1 DEF IInv
  <2>4. /\ SessionOK(session')
        /\ \A p, q \in Run : pc'[p] \notin Resting /\ pc'[q] \notin Resting => p = q
    BY <2>1 DEF IInv
  <2> QED BY <2>2, <2>3, <2>4 DEF IInv
<1> QED BY <1>1, <1>2, <1>3, <1>4, <1>5 DEF Next

\* The invariant holds in every reachable state.
THEOREM Invariance == Spec => []IInv
BY InitKeeps, NextKeeps, PTL DEF Spec

\* The state is of its type.
THEOREM TypeCorrect == Spec => []TypeOK
<1>1. IInv => TypeOK
  BY DEF IInv
<1> QED BY <1>1, Invariance, PTL

\* Every request is one the LLM API takes.
THEOREM RequestsWellFormed == Spec => []PromptsWellFormed
<1>1. ASSUME IInv, NEW r \in Run
      PROVE  /\ CallsHaveResults(child[r])
             /\ pc[r] = "llm" => /\ CallsHaveResults(loop[r].messages)
                                 /\ ResultsHaveCalls(loop[r].messages)
  <2>1. CallsHaveResults(child[r]) /\ RunOK(r, pc[r], loop[r], session)
    BY <1>1 DEF IInv
  <2>2. pc[r] = "llm" => WellFormed(loop[r].messages)
    BY <2>1 DEF RunOK, PromptOf, Prompted, Asking
  <2> QED BY <2>1, <2>2 DEF WellFormed
<1>2. IInv => PromptsWellFormed
  BY <1>1 DEF PromptsWellFormed
<1> QED BY <1>2, Invariance, PTL

\* No call gets two results.
THEOREM OneResultPerCall == Spec => []OneResult
<1>1. IInv => OneResult
  BY DEF IInv, SessionOK, OneResultIn, OneResult
<1> QED BY <1>1, Invariance, PTL

\* When a run has returned, its calls in the session have results.
THEOREM ReturnedRunsAnswered == Spec => []CallsAnswered
<1>1. ASSUME IInv, NEW r \in Run, pc[r] = "done"
      PROVE  AnsweredUpTo(r, Len(session), session)
  BY <1>1 DEF IInv, RunOK, SessionOf
<1>2. IInv => CallsAnswered
  BY <1>1 DEF CallsAnswered, AnsweredUpTo
<1> QED BY <1>2, Invariance, PTL

\* What a run shows to the LLM of its own is in the session.
THEOREM RunsRecord == Spec => []Recorded
<1>1. ASSUME IInv, NEW r \in Run, pc[r] = "llm", NEW m \in Range(loop[r].messages),
             m.calls # <<>>, m.calls[1][1] = r
      PROVE  m \in Range(session)
  BY <1>1 DEF IInv, RunOK, PromptOf, Prompted, Asking
<1>2. IInv => Recorded
  BY <1>1 DEF Recorded
<1> QED BY <1>2, Invariance, PTL

\* An abort at the loop condition never finds a call without a result.
THEOREM AbortsAddNothing ==
  Spec => [](\A r \in Run : pc[r] = "head" => Unanswered(loop[r].messages) = <<>>)
<1>1. ASSUME IInv, NEW r \in Run, pc[r] = "head"
      PROVE  Unanswered(loop[r].messages) = <<>>
  <2>1. loop[r].messages \in Seq(Message) /\ RunOK(r, "head", loop[r], session)
    BY <1>1, Here, StateTypes
  <2>2. CallsHaveResults(loop[r].messages)
    BY <2>1 DEF RunOK, PromptOf, Prompted, WellFormed
  <2> QED BY <2>1, <2>2, UnansweredNone
<1>2. IInv => \A r \in Run : pc[r] = "head" => Unanswered(loop[r].messages) = <<>>
  BY <1>1
<1> QED BY <1>2, Invariance, PTL
==============================================================================
