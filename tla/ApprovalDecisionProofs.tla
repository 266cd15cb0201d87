----------------------- MODULE ApprovalDecisionProofs -----------------------
(* Proofs about ApprovalDecision: a decision is saved before the agent hears *)
(* it and its rule is in force only after; no allow passes an emergency stop *)
(* or the handoff fence, or a card the person was not shown; and the         *)
(* daemon's receipts, reports and counts of rule uses are true.              *)
(* At the end, about the queue that handlers run on (Lane!).                 *)
EXTENDS ApprovalDecision, SessionLane, FiniteSetTheorems, WellFoundedInduction, TLAPS

---------------------------------------------------------------------------
(* The inductive invariant *)

(* The handler that waits for a save of a kind.                              *)
Waits(h, kind) ==
  \/ kind = "persist" /\ h.kind # "none" /\ h.step \in {"using", "flush", "rewriting", "undoing"}
  \/ kind = "decide" /\ h.kind = "resolve" /\ h.step = "deciding"
  \/ kind = "stage" /\ h.kind = "resolve" /\ h.step = "staging"
  \/ kind = "promote" /\ h.kind = "resolve" /\ h.step = "promoting"

NoLane(t) == \A i \in DOMAIN t : "lane" \notin t[i].for /\ t[i].kind = "persist"

(* At most one save is waited for by the lane, and the running handler waits *)
(* for that kind; only whole-snapshot saves are shared.                      *)
LanesFit(t, h) ==
  /\ \A i \in DOMAIN t : /\ "lane" \in t[i].for => Waits(h, t[i].kind)
                         /\ t[i].kind # "persist" => t[i].for = {"lane"}
  /\ \A i, j \in DOMAIN t : "lane" \in t[i].for /\ "lane" \in t[j].for => i = j

Lanes ==
  /\ LanesFit(tail, run)
  /\ image # NoImage => tail # <<>>

(* What a running save of a decision writes.                                 *)
ImageFits ==
  image # NoImage =>
    /\ Head(tail).kind = "decide" => image.receipt[run.req] = run.verdict
    /\ Head(tail).kind = "stage" => image.receipt[run.req] = "always-project"

SameKey(j, k) == j.kind # "resolve" /\ j.kind = k.kind /\ j.req = k.req
Distinct(s) == \A i, j \in DOMAIN s : SameKey(s[i], s[j]) => i = j

(* A request not answered yet is queued, held at the fence or handled: in    *)
(* one place, once.                                                          *)
Queued(r) == \E j \in Range(queue) : j.kind = "request" /\ j.req = r
Handling(r) == run.kind = "request" /\ run.step \in {"settling", "using"} /\ run.req = r
AtFence(r) == r \in Range(fenced)

Hands ==
  /\ Distinct(queue) /\ Distinct(later)
  /\ \A i, j \in DOMAIN fenced : fenced[i] = fenced[j] => i = j
  /\ \A j \in Range(later) : j.kind = "report" /\ \A k \in Range(queue) : ~SameKey(j, k)
  /\ \A r \in Requests : /\ ~(Queued(r) /\ AtFence(r))
                         /\ Handling(r) => ~Queued(r) /\ ~AtFence(r)
                         /\ Queued(r) \/ AtFence(r) \/ Handling(r) =>
                              provider[r] # "unasked" /\ told[r] = "none" /\ card[r] = <<>>

(* A report of an outside answer is queued once, and marks its card; a       *)
(* decision is of a card that was shown.                                     *)
JobsFit ==
  /\ \A j \in Range(queue) \cup Range(later) :
       j.kind = "report" => provider[j.req] = "elsewhere" /\ (j.had => mark[j.req] = "queued")
  /\ \A j \in Range(queue) : j.kind = "resolve" => card[j.req] # <<>>

Asked ==
  \A r \in Requests :
    /\ provider[r] = "unasked" => card[r] = <<>>
    /\ told[r] # "none" <=> provider[r] = "answered"

(* A card on show is undecided, and no stop has begun since it came.         *)
Cards ==
  \A r \in mem.shown :
    /\ card[r] # <<>> /\ told[r] = "none" /\ mem.receipt[r] = "none"
    /\ stop = "none" /\ stamp[r] = [gen |-> gen, during |-> FALSE]

Copies == {mem, disk} \cup ({image} \ {NoImage})

CopyFits(c) ==
  \A r \in Requests :
    /\ card[r] = <<>> => c.receipt[r] = "none"
    /\ told[r] = "person" => c.receipt[r] \in Allows
    /\ c.rule[r] = "active" => told[r] = "person"

Saved == \A c \in Copies : CopyFits(c)

RunFits ==
  /\ run.kind = "resolve" =>
       /\ card[run.req] # <<>>
       /\ run.step \in {"settling", "checkpoint"} => run.verdict \in Allows
       /\ run.verdict \in Allows /\ run.step \in {"settling", "checkpoint", "deciding", "staging"}
            => run.rev = Len(card[run.req])
       /\ run.verdict \in Allows /\ run.step \in {"checkpoint", "deciding", "staging"}
            => run.read = Last(card[run.req])
       /\ run.step = "staging" =>
            /\ run.verdict = "always-project" /\ run.req \notin mem.shown
            /\ mem.receipt[run.req] = "always-project" /\ told[run.req] = "none"
            /\ stamp[run.req] = [gen |-> run.gen, during |-> FALSE]
       /\ run.step = "promoting" => told[run.req] = "person"
  /\ run.kind = "request" /\ run.step = "using" => mem.uses[run.by] > 0

(* An allow's receipt is true but while its rule is being staged.            *)
Truth ==
  crashes = 0 => \A r \in Requests : mem.receipt[r] \in Allows =>
    told[r] = "person" \/ (run.kind = "resolve" /\ run.step = "staging" /\ run.req = r)

(* The requests that a rule has answered, or whose answer by a rule came     *)
(* after the provider had let go of them.                                    *)
Used == {r \in Requests : /\ told[r] = "rule" \/ (told[r] = "none" /\ provider[r] \in {"elsewhere", "dropped"})
                          /\ ~Queued(r) /\ ~AtFence(r) /\ ~Handling(r)}
Using(q) == run.kind = "request" /\ run.step = "using" /\ run.by = q

UsesFit ==
  crashes = 0 => \A q \in Requests :
    /\ mem.uses[q] <= Cardinality(Used) + (IF Using(q) THEN 1 ELSE 0)
    /\ mem.uses[q] > 0 => told[q] = "person"

Inv ==
  /\ TypeOK /\ Lanes /\ ImageFits /\ Hands /\ JobsFit /\ Asked /\ Cards /\ Saved /\ RunFits
  /\ Truth /\ NoReceiptElsewhere /\ UsesFit /\ ReportKept

---------------------------------------------------------------------------
(* Sequences *)

LEMMA LeastExists ==
  ASSUME NEW T, T \subseteq Nat, T # {}
  PROVE  \E x \in T : \A y \in T : x <= y
<1>1. PICK x \in T : \A y \in T : ~(<<y, x>> \in OpToRel(<, Nat))
  BY WFMin, NatLessThanWellFounded
<1>2. \A y \in Nat : y < x => <<y, x>> \in OpToRel(<, Nat)
  BY DEF OpToRel
<1>3. \A y \in T : ~(y < x)
  BY <1>1, <1>2
<1>4. \A y \in T : x <= y
  <2> TAKE y \in T
  <2>1. x \in Nat /\ y \in Nat
    OBVIOUS
  <2> QED BY <1>3, <2>1
<1> QED BY <1>4

(* The recursion of Chosen has a solution.                                   *)
Solution(q, S, f) ==
  \A i \in 0..Len(q) :
    f[i] = IF i = 0 THEN <<>> ELSE IF q[i] \in S THEN Append(f[i - 1], q[i]) ELSE f[i - 1]

LEMMA ChosenExists ==
  ASSUME NEW T, NEW q \in Seq(T), NEW S
  PROVE  \E f \in [0..Len(q) -> Seq(T)] : Solution(q, S, f)
<1> DEFINE Solves(f, n) ==
      \A i \in 0..n :
        f[i] = IF i = 0 THEN <<>> ELSE IF q[i] \in S THEN Append(f[i - 1], q[i]) ELSE f[i - 1]
<1> DEFINE Open == {n \in 0..Len(q) : ~\E f \in [0..n -> Seq(T)] : Solves(f, n)}
<1>1. Len(q) \in Nat
  OBVIOUS
<1>2. Open = {}
  <2> SUFFICES ASSUME Open # {}
               PROVE  FALSE
    OBVIOUS
  <2>1. Open \subseteq Nat
    BY <1>1
  <2>2. PICK n \in Open : \A m \in Open : n <= m
    <3> HIDE DEF Open
    <3> QED BY <2>1, LeastExists
  <2>3. n \in 0..Len(q) /\ ~\E f \in [0..n -> Seq(T)] : Solves(f, n)
    OBVIOUS
  <2>4. n # 0
    <3> SUFFICES ASSUME n = 0
                 PROVE  FALSE
      OBVIOUS
    <3> DEFINE f0 == [i \in 0..n |-> <<>>]
    <3>1. f0 \in [0..n -> Seq(T)]
      OBVIOUS
    <3>2. Solves(f0, n)
      OBVIOUS
    <3> QED BY <2>3, <3>1, <3>2
  <2>5. n - 1 \in 0..Len(q) /\ n - 1 \notin Open /\ n \in 1..Len(q)
    <3>1. n - 1 \in 0..Len(q) /\ n \in 1..Len(q) /\ ~(n <= n - 1)
      BY <1>1, <2>3, <2>4
    <3> HIDE DEF Open
    <3> QED BY <2>2, <3>1
  <2>6. PICK g \in [0..(n - 1) -> Seq(T)] : Solves(g, n - 1)
    BY <2>5
  <2> DEFINE last == IF q[n] \in S THEN Append(g[n - 1], q[n]) ELSE g[n - 1]
  <2> DEFINE f1 == [i \in 0..n |-> IF i = n THEN last ELSE g[i]]
  <2>7. last \in Seq(T)
    <3>1. g[n - 1] \in Seq(T) /\ q[n] \in T
      BY <1>1, <2>5, <2>6
    <3> QED BY <3>1
  <2> HIDE DEF last
  <2>8. \A i \in 0..n : i = n \/ i \in 0..(n - 1)
    BY <2>5
  <2>9. f1 \in [0..n -> Seq(T)]
    BY <2>6, <2>7, <2>8
  <2>10. Solves(f1, n)
    <3> SUFFICES ASSUME NEW i \in 0..n
                 PROVE  f1[i] = IF i = 0 THEN <<>> ELSE IF q[i] \in S THEN Append(f1[i - 1], q[i]) ELSE f1[i - 1]
      OBVIOUS
    <3>1. CASE i = n
      <4>1. f1[i] = last /\ f1[i - 1] = g[n - 1] /\ i # 0
        BY <2>4, <2>5, <3>1
      <4> QED BY <3>1, <4>1 DEF last
    <3>2. CASE i \in 0..(n - 1) /\ i # 0
      <4>1. i - 1 \in 0..n /\ i - 1 # n /\ i # n
        BY <2>5, <3>2
      <4>2. f1[i] = g[i] /\ f1[i - 1] = g[i - 1]
        BY <4>1
      <4>3. g[i] = IF q[i] \in S THEN Append(g[i - 1], q[i]) ELSE g[i - 1]
        BY <2>6, <3>2
      <4> QED BY <3>2, <4>2, <4>3
    <3>3. CASE i = 0
      <4>1. g[0] = <<>> /\ f1[0] = g[0]
        BY <2>4, <2>5, <2>6
      <4> QED BY <3>3, <4>1
    <3> QED BY <2>8, <3>1, <3>2, <3>3
  <2> HIDE DEF f1, Solves
  <2> QED BY <2>3, <2>9, <2>10
<1>3. Len(q) \notin Open /\ Len(q) \in 0..Len(q)
  <2> HIDE DEF Open
  <2> QED BY <1>1, <1>2
<1> QED BY <1>3 DEF Solution

(* What Chosen returns: the elements in the set, each from its own place.    *)
LEMMA ChosenFacts ==
  ASSUME NEW T, NEW q \in Seq(T), NEW S
  PROVE  /\ Chosen(q, S) \in Seq(T)
         /\ \A x : x \in Range(Chosen(q, S)) <=> x \in Range(q) /\ x \in S
         /\ \A a, b \in DOMAIN Chosen(q, S) : a # b =>
              \E m, n \in DOMAIN q : m # n /\ Chosen(q, S)[a] = q[m] /\ Chosen(q, S)[b] = q[n]
<1> DEFINE Rec(F) == [i \in 0..Len(q) |->
                        IF i = 0 THEN <<>> ELSE IF q[i] \in S THEN Append(F[i - 1], q[i]) ELSE F[i - 1]]
<1> DEFINE f == CHOOSE F : F = Rec(F)
<1>1. Chosen(q, S) = f[Len(q)]
  BY DEF Chosen
<1>2. f = Rec(f)
  <2>1. PICK g \in [0..Len(q) -> Seq(T)] : Solution(q, S, g)
    BY ChosenExists
  <2>2. g = Rec(g)
    BY <2>1 DEF Solution
  <2> HIDE DEF Rec
  <2> QED BY <2>2
<1>3. /\ f[0] = <<>>
      /\ \A i \in 1..Len(q) : f[i] = IF q[i] \in S THEN Append(f[i - 1], q[i]) ELSE f[i - 1]
  <2> HIDE DEF f
  <2>1. Len(q) \in Nat
    OBVIOUS
  <2>2. \A i \in 0..Len(q) : f[i] = IF i = 0 THEN <<>> ELSE IF q[i] \in S THEN Append(f[i - 1], q[i]) ELSE f[i - 1]
    BY <1>2
  <2> QED BY <2>1, <2>2
<1> HIDE DEF f
<1> DEFINE Good(n) ==
      /\ f[n] \in Seq(T)
      /\ \A x : (\E a \in 1..Len(f[n]) : f[n][a] = x) <=> (\E i \in 1..n : q[i] = x) /\ x \in S
      /\ \A a, b \in 1..Len(f[n]) : a # b => \E i, j \in 1..n : i # j /\ f[n][a] = q[i] /\ f[n][b] = q[j]
<1> DEFINE Bad == {n \in 0..Len(q) : ~Good(n)}
<1>4. Bad = {}
  <2> SUFFICES ASSUME Bad # {}
               PROVE  FALSE
    OBVIOUS
  <2>0. Len(q) \in Nat
    OBVIOUS
  <2>1. Bad \subseteq Nat
    BY <2>0
  <2>2. PICK n \in Bad : \A m \in Bad : n <= m
    <3> HIDE DEF Bad
    <3> QED BY <2>1, LeastExists
  <2>3. n \in 0..Len(q) /\ ~Good(n)
    OBVIOUS
  <2>4. n # 0
    <3> SUFFICES ASSUME n = 0
                 PROVE  Good(n)
      BY <2>3
    <3> QED BY <1>3
  <2>5. n - 1 \in 0..Len(q) /\ n \in 1..Len(q) /\ Good(n - 1)
    <3>1. n - 1 \in 0..Len(q) /\ n \in 1..Len(q) /\ ~(n <= n - 1)
      BY <2>0, <2>3, <2>4
    <3>2. n - 1 \notin Bad
      <4> HIDE DEF Bad
      <4> QED BY <2>2, <3>1
    <3> HIDE DEF Good
    <3> QED BY <3>1, <3>2
  <2> DEFINE p == f[n - 1]
  <2>6. /\ p \in Seq(T) /\ q[n] \in T
        /\ \A x : (\E a \in 1..Len(p) : p[a] = x) <=> (\E i \in 1..(n - 1) : q[i] = x) /\ x \in S
        /\ \A a, b \in 1..Len(p) : a # b => \E i, j \in 1..(n - 1) : i # j /\ p[a] = q[i] /\ p[b] = q[j]
    BY <2>5
  <2>7. f[n] = IF q[n] \in S THEN Append(p, q[n]) ELSE p
    BY <1>3, <2>5
  <2> HIDE DEF p
  <2>8. \A i : i \in 1..n <=> i \in 1..(n - 1) \/ i = n
    BY <2>5
  <2>9. CASE q[n] \notin S
    <3>1. f[n] = p
      BY <2>7, <2>9
    <3>2. \A x : (\E a \in 1..Len(p) : p[a] = x) <=> (\E i \in 1..n : q[i] = x) /\ x \in S
      BY <2>6, <2>8, <2>9
    <3>3. \A a, b \in 1..Len(p) : a # b => \E i, j \in 1..n : i # j /\ p[a] = q[i] /\ p[b] = q[j]
      BY <2>6, <2>8
    <3> QED BY <2>3, <2>6, <3>1, <3>2, <3>3
  <2>10. CASE q[n] \in S
    <3>1. /\ f[n] = Append(p, q[n]) /\ f[n] \in Seq(T) /\ Len(f[n]) = Len(p) + 1 /\ Len(p) \in Nat
          /\ f[n][Len(p) + 1] = q[n] /\ \A a \in 1..Len(p) : f[n][a] = p[a]
      BY <2>6, <2>7, <2>10
    <3>2. \A a : a \in 1..Len(f[n]) <=> a \in 1..Len(p) \/ a = Len(p) + 1
      BY <3>1
    <3>3. \A x : (\E a \in 1..Len(f[n]) : f[n][a] = x) <=> (\E i \in 1..n : q[i] = x) /\ x \in S
      <4> TAKE x
      <4>1. (\E a \in 1..Len(f[n]) : f[n][a] = x) <=> (\E a \in 1..Len(p) : p[a] = x) \/ x = q[n]
        BY <3>1, <3>2
      <4>2. (\E i \in 1..n : q[i] = x) <=> (\E i \in 1..(n - 1) : q[i] = x) \/ x = q[n]
        BY <2>8
      <4> QED BY <2>6, <2>10, <4>1, <4>2
    <3>4. ASSUME NEW a \in 1..Len(f[n]), NEW b \in 1..Len(f[n]), a # b
          PROVE  \E i, j \in 1..n : i # j /\ f[n][a] = q[i] /\ f[n][b] = q[j]
      <4>0. \A c \in 1..Len(p) : \E i \in 1..(n - 1) : p[c] = q[i]
        BY <2>6
      <4>00. \A i \in 1..(n - 1) : i # n /\ i \in 1..n
        BY <2>5
      <4>1. CASE a \in 1..Len(p) /\ b \in 1..Len(p)
        BY <2>6, <2>8, <3>1, <3>4, <4>1
      <4>2. CASE a \in 1..Len(p) /\ b = Len(p) + 1
        BY <2>8, <3>1, <4>0, <4>00, <4>2
      <4>3. CASE b \in 1..Len(p) /\ a = Len(p) + 1
        BY <2>8, <3>1, <4>0, <4>00, <4>3
      <4> QED BY <3>2, <3>4, <4>1, <4>2, <4>3
    <3> QED BY <2>3, <3>1, <3>3, <3>4
  <2> QED BY <2>9, <2>10
<1>5. Good(Len(q))
  <2>1. Len(q) \in 0..Len(q)
    OBVIOUS
  <2> HIDE DEF Good
  <2> QED BY <1>4, <2>1
<1>6. DOMAIN q = 1..Len(q) /\ DOMAIN f[Len(q)] = 1..Len(f[Len(q)])
  BY <1>5
<1> DEFINE c == f[Len(q)]
<1>7. /\ c \in Seq(T)
      /\ \A x : (\E a \in 1..Len(c) : c[a] = x) <=> (\E i \in 1..Len(q) : q[i] = x) /\ x \in S
      /\ \A a, b \in 1..Len(c) : a # b => \E i, j \in 1..Len(q) : i # j /\ c[a] = q[i] /\ c[b] = q[j]
  BY <1>5
<1> HIDE DEF c
<1>8. Chosen(q, S) = c
  BY <1>1 DEF c
<1>9. DOMAIN c = 1..Len(c)
  BY <1>6 DEF c
<1>10. \A x : x \in Range(c) <=> x \in Range(q) /\ x \in S
  <2>1. \A x : x \in Range(c) <=> \E a \in 1..Len(c) : c[a] = x
    BY <1>9 DEF Range
  <2>2. \A x : x \in Range(q) <=> \E i \in 1..Len(q) : q[i] = x
    BY <1>6 DEF Range
  <2> QED BY <1>7, <2>1, <2>2
<1>11. \A a, b \in DOMAIN c : a # b => \E m, n \in DOMAIN q : m # n /\ c[a] = q[m] /\ c[b] = q[n]
  <2> SUFFICES ASSUME NEW a \in DOMAIN c, NEW b \in DOMAIN c, a # b
               PROVE  \E m, n \in DOMAIN q : m # n /\ c[a] = q[m] /\ c[b] = q[n]
    OBVIOUS
  <2>1. a \in 1..Len(c) /\ b \in 1..Len(c)
    BY <1>9
  <2>2. PICK i \in 1..Len(q), j \in 1..Len(q) : i # j /\ c[a] = q[i] /\ c[b] = q[j]
    BY <1>7, <2>1
  <2> QED BY <1>6, <2>2
<1> QED BY <1>7, <1>8, <1>10, <1>11

LEMMA RangeAppend ==
  ASSUME NEW T, NEW s \in Seq(T), NEW x \in T
  PROVE  Append(s, x) \in Seq(T) /\ Range(Append(s, x)) = Range(s) \cup {x}
<1>1. /\ Append(s, x) \in Seq(T) /\ Len(Append(s, x)) = Len(s) + 1 /\ Len(s) \in Nat
      /\ DOMAIN Append(s, x) = 1..(Len(s) + 1) /\ DOMAIN s = 1..Len(s)
      /\ Append(s, x)[Len(s) + 1] = x /\ \A i \in 1..Len(s) : Append(s, x)[i] = s[i]
  OBVIOUS
<1>2. \A i : i \in 1..(Len(s) + 1) <=> i \in 1..Len(s) \/ i = Len(s) + 1
  BY <1>1
<1> DEFINE a == Append(s, x)
<1> HIDE DEF a
<1>3. DOMAIN a = 1..(Len(s) + 1) /\ a[Len(s) + 1] = x /\ \A i \in 1..Len(s) : a[i] = s[i]
  BY <1>1 DEF a
<1>4. Range(a) = Range(s) \cup {x}
  BY <1>1, <1>2, <1>3 DEF Range
<1> QED BY <1>1, <1>4 DEF a

LEMMA RangeTail ==
  ASSUME NEW T, NEW s \in Seq(T), s # <<>>
  PROVE  /\ Tail(s) \in Seq(T) /\ Head(s) \in T /\ Head(s) \in Range(s)
         /\ Range(s) = Range(Tail(s)) \cup {Head(s)}
<1>1. /\ Tail(s) \in Seq(T) /\ Head(s) \in T /\ Head(s) = s[1]
      /\ Len(s) \in Nat \ {0} /\ DOMAIN s = 1..Len(s) /\ DOMAIN Tail(s) = 1..(Len(s) - 1)
      /\ \A i \in 1..(Len(s) - 1) : Tail(s)[i] = s[i + 1]
  OBVIOUS
<1>2. \A i \in 1..Len(s) : i = 1 \/ (i - 1 \in 1..(Len(s) - 1) /\ (i - 1) + 1 = i)
  BY <1>1
<1>3. \A i \in 1..(Len(s) - 1) : i + 1 \in 1..Len(s)
  BY <1>1
<1>4. 1 \in 1..Len(s)
  BY <1>1
<1> DEFINE t == Tail(s)
<1>5. DOMAIN t = 1..(Len(s) - 1) /\ \A i \in 1..(Len(s) - 1) : t[i] = s[i + 1]
  BY <1>1
<1> HIDE DEF t
<1>6. \A x \in Range(s) : x \in Range(t) \/ x = Head(s)
  <2> SUFFICES ASSUME NEW i \in 1..Len(s)
               PROVE  s[i] \in Range(t) \/ s[i] = Head(s)
    BY <1>1 DEF Range
  <2>1. CASE i = 1
    BY <1>1, <2>1
  <2>2. CASE i # 1
    <3>1. i - 1 \in DOMAIN t /\ t[i - 1] = s[i]
      BY <1>2, <1>5, <2>2
    <3> QED BY <3>1 DEF Range
  <2> QED BY <2>1, <2>2
<1>7. \A x \in Range(t) : x \in Range(s)
  BY <1>1, <1>3, <1>5 DEF Range
<1>8. Head(s) \in Range(s)
  BY <1>1, <1>4 DEF Range
<1> QED BY <1>1, <1>6, <1>7, <1>8 DEF t

LEMMA RangeConcat ==
  ASSUME NEW T, NEW s \in Seq(T), NEW t \in Seq(T)
  PROVE  s \o t \in Seq(T) /\ Range(s \o t) = Range(s) \cup Range(t)
<1> DEFINE c == s \o t
<1>1. /\ c \in Seq(T) /\ Len(s) \in Nat /\ Len(t) \in Nat
      /\ DOMAIN c = 1..(Len(s) + Len(t)) /\ DOMAIN s = 1..Len(s) /\ DOMAIN t = 1..Len(t)
      /\ \A i \in 1..(Len(s) + Len(t)) : c[i] = IF i <= Len(s) THEN s[i] ELSE t[i - Len(s)]
  OBVIOUS
<1> HIDE DEF c
<1>2. \A x \in Range(c) : x \in Range(s) \cup Range(t)
  <2> SUFFICES ASSUME NEW i \in 1..(Len(s) + Len(t))
               PROVE  c[i] \in Range(s) \cup Range(t)
    BY <1>1 DEF Range
  <2>1. CASE i <= Len(s)
    <3>1. c[i] = s[i] /\ i \in DOMAIN s
      BY <1>1, <2>1
    <3> QED BY <3>1 DEF Range
  <2>2. CASE ~(i <= Len(s))
    <3>1. c[i] = t[i - Len(s)] /\ i - Len(s) \in DOMAIN t
      BY <1>1, <2>2
    <3> QED BY <3>1 DEF Range
  <2> QED BY <2>1, <2>2
<1>3. \A i \in DOMAIN s : s[i] \in Range(c)
  <2> TAKE i \in DOMAIN s
  <2>1. i \in DOMAIN c /\ c[i] = s[i]
    BY <1>1
  <2> QED BY <2>1 DEF Range
<1>4. \A i \in DOMAIN t : t[i] \in Range(c)
  <2> TAKE i \in DOMAIN t
  <2>1. Len(s) + i \in DOMAIN c /\ c[Len(s) + i] = t[i]
    BY <1>1
  <2> QED BY <2>1 DEF Range
<1>5. Range(c) = Range(s) \cup Range(t)
  BY <1>2, <1>3, <1>4 DEF Range
<1> QED BY <1>1, <1>5 DEF c

LEMMA DistinctAppend ==
  ASSUME NEW s \in Seq(Jobs), NEW x \in Jobs, Distinct(s), \A j \in Range(s) : ~SameKey(j, x)
  PROVE  Distinct(Append(s, x))
<1> DEFINE a == Append(s, x)
<1>1. /\ DOMAIN a = 1..(Len(s) + 1) /\ DOMAIN s = 1..Len(s) /\ Len(s) \in Nat
      /\ a[Len(s) + 1] = x /\ \A i \in 1..Len(s) : a[i] = s[i]
  OBVIOUS
<1>2. \A i : i \in 1..(Len(s) + 1) <=> i \in 1..Len(s) \/ i = Len(s) + 1
  BY <1>1
<1> HIDE DEF a
<1>3. \A i \in 1..Len(s) : ~SameKey(s[i], x) /\ ~SameKey(x, s[i])
  BY <1>1 DEF Range, SameKey
<1> SUFFICES ASSUME NEW i \in DOMAIN a, NEW j \in DOMAIN a, SameKey(a[i], a[j])
             PROVE  i = j
  BY DEF Distinct, a
<1>4. CASE i \in 1..Len(s) /\ j \in 1..Len(s)
  BY <1>1, <1>4 DEF Distinct
<1>5. CASE i = Len(s) + 1 /\ j \in 1..Len(s)
  BY <1>1, <1>3, <1>5
<1>6. CASE j = Len(s) + 1 /\ i \in 1..Len(s)
  BY <1>1, <1>3, <1>6
<1> QED BY <1>1, <1>2, <1>4, <1>5, <1>6

LEMMA DistinctTail ==
  ASSUME NEW s \in Seq(Jobs), s # <<>>, Distinct(s)
  PROVE  Distinct(Tail(s)) /\ \A j \in Range(Tail(s)) : ~SameKey(Head(s), j)
<1> DEFINE t == Tail(s)
<1>1. /\ Head(s) = s[1] /\ Len(s) \in Nat \ {0} /\ DOMAIN s = 1..Len(s) /\ DOMAIN t = 1..(Len(s) - 1)
      /\ \A i \in 1..(Len(s) - 1) : t[i] = s[i + 1]
  OBVIOUS
<1> HIDE DEF t
<1>2. \A i \in DOMAIN t : i + 1 \in DOMAIN s /\ t[i] = s[i + 1] /\ i + 1 # 1 /\ i \in Nat
  BY <1>1
<1>3. Distinct(t)
  <2> SUFFICES ASSUME NEW i \in DOMAIN t, NEW j \in DOMAIN t, SameKey(t[i], t[j])
               PROVE  i = j
    BY DEF Distinct
  <2>1. i + 1 = j + 1
    BY <1>2 DEF Distinct
  <2> QED BY <1>2, <2>1
<1>4. 1 \in DOMAIN s
  BY <1>1
<1>5. \A i \in DOMAIN t : ~SameKey(s[1], t[i])
  BY <1>2, <1>4 DEF Distinct
<1>6. \A j \in Range(t) : ~SameKey(Head(s), j)
  BY <1>1, <1>5 DEF Range
<1> QED BY <1>3, <1>6 DEF t

LEMMA DistinctConcat ==
  ASSUME NEW s \in Seq(Jobs), NEW t \in Seq(Jobs), Distinct(s), Distinct(t),
         \A j \in Range(s), k \in Range(t) : ~SameKey(j, k) /\ ~SameKey(k, j)
  PROVE  Distinct(s \o t)
<1> DEFINE c == s \o t
<1>1. /\ Len(s) \in Nat /\ Len(t) \in Nat
      /\ DOMAIN c = 1..(Len(s) + Len(t)) /\ DOMAIN s = 1..Len(s) /\ DOMAIN t = 1..Len(t)
      /\ \A i \in 1..(Len(s) + Len(t)) : c[i] = IF i <= Len(s) THEN s[i] ELSE t[i - Len(s)]
  OBVIOUS
<1> HIDE DEF c
<1>2. \A i \in DOMAIN c : \/ i <= Len(s) /\ i \in DOMAIN s /\ c[i] = s[i]
                          \/ ~(i <= Len(s)) /\ i - Len(s) \in DOMAIN t /\ c[i] = t[i - Len(s)]
  BY <1>1
<1>3. \A i \in DOMAIN s, j \in DOMAIN t : ~SameKey(s[i], t[j]) /\ ~SameKey(t[j], s[i])
  BY DEF Range
<1> SUFFICES ASSUME NEW i \in DOMAIN c, NEW j \in DOMAIN c, SameKey(c[i], c[j])
             PROVE  i = j
  BY DEF Distinct, c
<1>4. CASE i <= Len(s) /\ j <= Len(s)
  BY <1>2, <1>4 DEF Distinct
<1>5. CASE ~(i <= Len(s)) /\ ~(j <= Len(s))
  <2>1. i - Len(s) = j - Len(s)
    BY <1>2, <1>5 DEF Distinct
  <2> QED BY <1>1, <2>1
<1>6. CASE i <= Len(s) /\ ~(j <= Len(s))
  BY <1>2, <1>3, <1>6
<1>7. CASE ~(i <= Len(s)) /\ j <= Len(s)
  BY <1>2, <1>3, <1>7
<1> QED BY <1>4, <1>5, <1>6, <1>7

LEMMA DistinctChosen ==
  ASSUME NEW s \in Seq(Jobs), Distinct(s), NEW S
  PROVE  Distinct(Chosen(s, S))
<1>1. \A a, b \in DOMAIN Chosen(s, S) : a # b =>
        \E m, n \in DOMAIN s : m # n /\ Chosen(s, S)[a] = s[m] /\ Chosen(s, S)[b] = s[n]
  BY ChosenFacts
<1> QED BY <1>1 DEF Distinct

---------------------------------------------------------------------------
(* The serialised saves *)

(* Where a shared save goes: into one that has not started, or behind all.   *)
SharedAt(t, first, who, u, n) ==
  /\ u[n].kind = "persist"
  /\ n \in DOMAIN t => n >= first /\ u[n].for = t[n].for \cup who /\ t[n].kind = "persist"
  /\ n \notin DOMAIN t => n = Len(t) + 1 /\ u[n].for = who
  /\ \A i \in DOMAIN t : i # n => u[i] = t[i]
  /\ \A i \in DOMAIN u : i # n => i \in DOMAIN t

LEMMA SharedFacts ==
  ASSUME NEW t \in Seq(Writes), NEW first \in {1, 2}, NEW who \in SUBSET {"lane", "stop"}
  PROVE  /\ Shared(t, first, who) \in Seq(Writes)
         /\ \E n \in DOMAIN Shared(t, first, who) : SharedAt(t, first, who, Shared(t, first, who), n)
         /\ \A i \in DOMAIN t : i \in DOMAIN Shared(t, first, who)
<1> DEFINE waiting == {i \in first..Len(t) : t[i].kind = "persist"}
<1>0. Len(t) \in Nat /\ DOMAIN t = 1..Len(t)
  OBVIOUS
<1>1. CASE waiting = {}
  <2> DEFINE w == [kind |-> "persist", for |-> who]
  <2> DEFINE u == Append(t, w)
  <2>1. Shared(t, first, who) = u
    BY <1>1 DEF Shared
  <2>2. w \in Writes /\ w.kind = "persist" /\ w.for = who
    BY DEF Writes
  <2> HIDE DEF w
  <2>3. /\ u \in Seq(Writes) /\ DOMAIN u = 1..(Len(t) + 1) /\ u[Len(t) + 1] = w
        /\ \A i \in 1..Len(t) : u[i] = t[i]
    BY <2>2
  <2>4. \A i : i \in 1..(Len(t) + 1) <=> i \in 1..Len(t) \/ i = Len(t) + 1
    BY <1>0
  <2>5. Len(t) + 1 \notin 1..Len(t)
    BY <1>0
  <2> HIDE DEF u
  <2>6. Len(t) + 1 \in DOMAIN u /\ SharedAt(t, first, who, u, Len(t) + 1)
    BY <1>0, <2>2, <2>3, <2>4, <2>5 DEF SharedAt
  <2> QED BY <1>0, <2>1, <2>3, <2>4, <2>6
<1>2. CASE waiting # {}
  <2> DEFINE n == CHOOSE k \in waiting : TRUE
  <2> DEFINE u == [t EXCEPT ![n].for = @ \cup who]
  <2>1. Shared(t, first, who) = u
    BY <1>2 DEF Shared
  <2>2. n \in waiting
    BY <1>2
  <2> HIDE DEF n
  <2>3. n \in DOMAIN t /\ n >= first /\ t[n].kind = "persist" /\ t[n] \in Writes
    BY <1>0, <2>2
  <2>4. /\ DOMAIN u = DOMAIN t /\ \A i \in DOMAIN t : i # n => u[i] = t[i]
        /\ u[n] = [kind |-> t[n].kind, for |-> t[n].for \cup who]
    BY <2>3 DEF Writes
  <2>5. u[n] \in Writes
    BY <2>3, <2>4 DEF Writes
  <2>6. u \in Seq(Writes)
    BY <2>3, <2>4, <2>5
  <2> HIDE DEF u
  <2>7. u[n].kind = "persist" /\ u[n].for = t[n].for \cup who
    BY <2>3, <2>4
  <2>8. SharedAt(t, first, who, u, n)
    BY <2>3, <2>4, <2>7 DEF SharedAt
  <2> QED BY <2>1, <2>3, <2>4, <2>6, <2>8
<1> QED BY <1>1, <1>2

LEMMA NotWaiting ==
  ASSUME NEW t \in Seq(Writes), NEW h, LanesFit(t, h), \A kind : ~Waits(h, kind)
  PROVE  NoLane(t)
BY DEF LanesFit, NoLane

LEMMA LanesOfNone ==
  ASSUME NEW t \in Seq(Writes), NEW h, NoLane(t)
  PROVE  LanesFit(t, h)
BY DEF LanesFit, NoLane

LEMMA LaneShared ==
  ASSUME NEW t \in Seq(Writes), NEW h, NEW first \in {1, 2}, NoLane(t), Waits(h, "persist")
  PROVE  LanesFit(Shared(t, first, {"lane"}), h)
<1> DEFINE u == Shared(t, first, {"lane"})
<1>1. PICK n \in DOMAIN u : SharedAt(t, first, {"lane"}, u, n)
  <2>1. {"lane"} \in SUBSET {"lane", "stop"}
    OBVIOUS
  <2> QED BY <2>1, SharedFacts
<1> HIDE DEF u
<1>2. \A i \in DOMAIN u : i # n => "lane" \notin u[i].for /\ u[i].kind = "persist"
  BY <1>1 DEF NoLane, SharedAt
<1>3. LanesFit(u, h)
  BY <1>1, <1>2 DEF LanesFit, SharedAt
<1> QED BY <1>3 DEF u

LEMMA OtherShared ==
  ASSUME NEW t \in Seq(Writes), NEW h, NEW first \in {1, 2}, NEW who \in SUBSET {"stop"},
         LanesFit(t, h)
  PROVE  LanesFit(Shared(t, first, who), h)
<1> DEFINE u == Shared(t, first, who)
<1>0. who \in SUBSET {"lane", "stop"} /\ "lane" \notin who
  OBVIOUS
<1>1. PICK n \in DOMAIN u : SharedAt(t, first, who, u, n)
  BY <1>0, SharedFacts
<1> HIDE DEF u
<1>2. \A i \in DOMAIN u : /\ "lane" \in u[i].for => i \in DOMAIN t /\ "lane" \in t[i].for
                          /\ i \in DOMAIN t => u[i].kind = t[i].kind
                          /\ i # n => u[i].for = t[i].for
  BY <1>0, <1>1 DEF SharedAt
<1>3. \A i \in DOMAIN u : u[i].kind # "persist" => u[i].for = {"lane"}
  BY <1>1, <1>2 DEF LanesFit, SharedAt
<1>4. LanesFit(u, h)
  BY <1>2, <1>3 DEF LanesFit
<1> QED BY <1>4 DEF u

LEMMA LaneSaving ==
  ASSUME NEW t \in Seq(Writes), NEW h, NEW kind \in {"decide", "stage", "promote"},
         NoLane(t), Waits(h, kind)
  PROVE  Saving(t, kind) \in Seq(Writes) /\ LanesFit(Saving(t, kind), h) /\ Saving(t, kind) # <<>>
<1> DEFINE w == [kind |-> kind, for |-> {"lane"}]
<1> DEFINE u == Append(t, w)
<1>1. w \in Writes /\ w.kind = kind /\ w.for = {"lane"}
  BY DEF Writes
<1> HIDE DEF w
<1>2. /\ u \in Seq(Writes) /\ DOMAIN u = 1..(Len(t) + 1) /\ u[Len(t) + 1] = w
      /\ DOMAIN t = 1..Len(t) /\ Len(t) \in Nat
      /\ \A i \in 1..Len(t) : u[i] = t[i]
      /\ u # <<>>
  BY <1>1
<1>3. \A i \in DOMAIN u : i # Len(t) + 1 => i \in DOMAIN t /\ u[i] = t[i]
  BY <1>2
<1> HIDE DEF u
<1>4. \A i \in DOMAIN u : i # Len(t) + 1 => "lane" \notin u[i].for /\ u[i].kind = "persist"
  BY <1>3 DEF NoLane
<1>5. LanesFit(u, h)
  BY <1>1, <1>2, <1>4 DEF LanesFit
<1> QED BY <1>2, <1>5 DEF Saving, u, w

LEMMA TailLanes ==
  ASSUME NEW t \in Seq(Writes), NEW h, t # <<>>, LanesFit(t, h)
  PROVE  /\ Tail(t) \in Seq(Writes) /\ Head(t) \in Writes
         /\ LanesFit(Tail(t), h)
         /\ "lane" \in Head(t).for => NoLane(Tail(t)) /\ Waits(h, Head(t).kind)
         /\ Head(t).kind # "persist" => "lane" \in Head(t).for
<1> DEFINE u == Tail(t)
<1>1. /\ Head(t) = t[1] /\ Len(t) \in Nat \ {0} /\ DOMAIN t = 1..Len(t) /\ DOMAIN u = 1..(Len(t) - 1)
      /\ \A i \in 1..(Len(t) - 1) : u[i] = t[i + 1]
      /\ u \in Seq(Writes) /\ Head(t) \in Writes
  OBVIOUS
<1> HIDE DEF u
<1>2. \A i \in DOMAIN u : i + 1 \in DOMAIN t /\ u[i] = t[i + 1] /\ i + 1 # 1 /\ i \in Nat
  BY <1>1
<1>3. 1 \in DOMAIN t
  BY <1>1
<1>4. LanesFit(u, h)
  <2>1. \A i \in DOMAIN u : /\ "lane" \in u[i].for => Waits(h, u[i].kind)
                            /\ u[i].kind # "persist" => u[i].for = {"lane"}
    BY <1>2 DEF LanesFit
  <2>2. \A i, j \in DOMAIN u : "lane" \in u[i].for /\ "lane" \in u[j].for => i + 1 = j + 1
    BY <1>2 DEF LanesFit
  <2>3. \A i, j \in DOMAIN u : i + 1 = j + 1 => i = j
    BY <1>2
  <2> QED BY <2>1, <2>2, <2>3 DEF LanesFit
<1>5. ASSUME "lane" \in Head(t).for
      PROVE  NoLane(u)
  <2>1. \A i \in DOMAIN u : "lane" \notin u[i].for
    BY <1>1, <1>2, <1>3, <1>5 DEF LanesFit
  <2> QED BY <1>4, <2>1 DEF LanesFit, NoLane
<1>6. "lane" \in Head(t).for => Waits(h, Head(t).kind)
  BY <1>1, <1>3 DEF LanesFit
<1>7. Head(t).kind # "persist" => "lane" \in Head(t).for
  BY <1>1, <1>3 DEF LanesFit
<1> QED BY <1>1, <1>4, <1>5, <1>6, <1>7 DEF u

LEMMA SharedHead ==
  ASSUME NEW t \in Seq(Writes), NEW first \in {1, 2}, NEW who \in SUBSET {"lane", "stop"}
  PROVE  /\ Shared(t, first, who) # <<>>
         /\ t # <<>> => Head(Shared(t, first, who)).kind = Head(t).kind
<1> DEFINE u == Shared(t, first, who)
<1>1. PICK n \in DOMAIN u : SharedAt(t, first, who, u, n)
  BY SharedFacts
<1>2. u \in Seq(Writes) /\ \A i \in DOMAIN t : i \in DOMAIN u
  BY SharedFacts
<1> HIDE DEF u
<1>3. u # <<>>
  BY <1>1, <1>2
<1>4. \A i \in DOMAIN t : u[i].kind = t[i].kind
  BY <1>1 DEF SharedAt
<1>5. t # <<>> => 1 \in DOMAIN t /\ Head(t) = t[1]
  OBVIOUS
<1>6. Head(u) = u[1]
  BY <1>2, <1>3
<1> QED BY <1>3, <1>4, <1>5, <1>6 DEF u

---------------------------------------------------------------------------
(* The start, and what steps of others leave alone *)

LEMMA ConstantsTyped ==
  /\ IsFiniteSet(Requests) /\ Turnless \subseteq Requests
  /\ MaxStops \in Nat /\ MaxFaults \in Nat /\ MaxDecisions \in Nat
  /\ FailureThreshold \in Nat \ {0}
  /\ 0 \in 0..MaxStops /\ 0 \in 0..MaxFaults /\ 0 \in 0..MaxDecisions /\ 0 \in 0..FailureThreshold
BY ConstantsAssumption DEF ConstantsAssumption

LEMMA NoImageIsNone == NoImage \notin Images
<1> SUFFICES ASSUME NoImage \in Images
             PROVE  FALSE
  OBVIOUS
<1>1. DOMAIN NoImage = {"none"}
  BY DEF NoImage
<1>2. DOMAIN NoImage = {"shown", "receipt", "rule", "uses"}
  BY DEF Images
<1> QED BY <1>1, <1>2

LEMMA IdleIs == Idle.kind = "none" /\ Idle \in Handlers /\ \A kind : ~Waits(Idle, kind)
BY DEF Idle, Handlers, Waits

LEMMA EmptyTyped ==
  /\ Empty \in Images /\ Empty.shown = {}
  /\ \A r \in Requests : Empty.receipt[r] = "none" /\ Empty.rule[r] = "none" /\ Empty.uses[r] = 0
BY DEF Empty, Images

LEMMA InvInit == Init => Inv
<1> SUFFICES ASSUME Init
             PROVE  Inv
  OBVIOUS
<1>1. /\ mem = Empty /\ disk = Empty /\ image = NoImage /\ run = Idle
      /\ queue = <<>> /\ later = <<>> /\ fenced = <<>> /\ tail = <<>>
      /\ crashes = 0 /\ stop = "none"
      /\ \A r \in Requests : provider[r] = "unasked" /\ told[r] = "none" /\ card[r] = <<>> /\ mark[r] = "none"
  BY DEF Init
<1>2. Range(queue) = {} /\ Range(later) = {} /\ Range(fenced) = {}
  BY <1>1 DEF Range
<1>3. TypeOK
  <2>1. /\ stamp \in [Requests -> [gen : Nat, during : BOOLEAN]]
        /\ card \in [Requests -> Seq(Nat)] /\ target \in [Requests -> Nat]
        /\ provider \in [Requests -> {"unasked", "waiting", "answered", "elsewhere", "dropped"}]
        /\ told \in [Requests -> {"none", "denied", "person", "policy", "rule"}]
        /\ mark \in [Requests -> {"none", "queued", "recorded"}]
    BY DEF Init
  <2>2. queue \in Seq(Jobs) /\ later \in Seq(Jobs) /\ fenced \in Seq(Requests) /\ tail \in Seq(Writes)
    BY <1>1
  <2>3. {turn, blocked, fence} \subseteq BOOLEAN
    BY DEF Init
  <2>4. {faults, swaps, crashes} \subseteq 0..MaxFaults /\ gen \in 0..MaxStops
        /\ failures \in 0..FailureThreshold /\ decisions \in 0..MaxDecisions /\ noted \subseteq Requests
    BY ConstantsTyped DEF Init
  <2> QED BY <1>1, <2>1, <2>2, <2>3, <2>4, EmptyTyped, IdleIs DEF TypeOK
<1>4. Lanes /\ ImageFits
  BY <1>1 DEF Lanes, LanesFit, ImageFits
<1>5. Hands /\ JobsFit
  BY <1>1, <1>2, IdleIs DEF Hands, JobsFit, Distinct, Queued, AtFence, Handling
<1>6. Asked /\ Cards /\ RunFits
  BY <1>1, EmptyTyped, IdleIs DEF Asked, Cards, RunFits
<1>7. Saved /\ Truth /\ NoReceiptElsewhere /\ ReportKept
  BY <1>1, EmptyTyped DEF Saved, Copies, CopyFits, Truth, NoReceiptElsewhere, ReportKept, Allows
<1>8. UsesFit
  <2>1. Used \subseteq Requests
    BY DEF Used
  <2>2. Cardinality(Used) \in Nat
    BY <2>1, ConstantsTyped, FS_Subset, FS_CardinalityType
  <2>3. \A q \in Requests : ~Using(q) /\ mem.uses[q] = 0
    BY <1>1, EmptyTyped, IdleIs DEF Using
  <2> QED BY <2>2, <2>3 DEF UsesFit
<1> QED BY <1>3, <1>4, <1>5, <1>6, <1>7, <1>8 DEF Inv

core == <<provider, told, stamp, card, mem, disk, mark, noted, fenced, queue, run, tail, image,
          stop, gen, later, crashes>>

(* The parts of the invariant apart from types.                              *)
Rest ==
  /\ Lanes /\ ImageFits /\ Hands /\ JobsFit /\ Asked /\ Cards /\ Saved /\ RunFits
  /\ Truth /\ NoReceiptElsewhere /\ UsesFit /\ ReportKept

LEMMA RestIs == (Inv <=> TypeOK /\ Rest)
BY DEF Inv, Rest

LEMMA LanesKept ==
  ASSUME Inv, UNCHANGED <<tail, image, run>>
  PROVE  Lanes' /\ ImageFits'
BY DEF Inv, Lanes, ImageFits

LEMMA HandsKept ==
  ASSUME Inv, UNCHANGED <<provider, told, card, fenced, queue, run, later>>
  PROVE  Hands'
BY DEF Inv, Hands, Queued, AtFence, Handling

LEMMA UsesKept ==
  ASSUME Inv, UNCHANGED <<provider, told, fenced, queue, run, crashes>>, mem'.uses = mem.uses
  PROVE  UsesFit'
<1>1. Used' = Used
  BY DEF Used, Queued, AtFence, Handling
<1>2. \A q \in Requests : Using(q)' = Using(q)
  BY DEF Using
<1> QED BY <1>1, <1>2 DEF Inv, UsesFit, Using

LEMMA CoreKept ==
  ASSUME Inv, UNCHANGED core
  PROVE  Rest'
<1>1. UNCHANGED <<provider, told, stamp, card, mem, disk, mark, noted, fenced, queue, run, tail,
                  image, stop, gen, later, crashes>>
  BY DEF core
<1>2. Lanes' /\ ImageFits' /\ Hands' /\ UsesFit'
  BY <1>1, LanesKept, HandsKept, UsesKept
<1>3. JobsFit' /\ Asked' /\ Cards'
  BY <1>1 DEF Inv, JobsFit, Asked, Cards
<1>4. Saved' /\ RunFits' /\ Truth'
  BY <1>1 DEF Inv, Saved, Copies, CopyFits, RunFits, Truth
<1>5. NoReceiptElsewhere' /\ ReportKept'
  BY <1>1 DEF Inv, NoReceiptElsewhere, ReportKept
<1> QED BY <1>2, <1>3, <1>4, <1>5 DEF Rest

LEMMA QuietStep ==
  ASSUME Inv, TakeFence \/ StartTurn \/ EndTurn \/ (\E r \in Requests : Swap(r)) \/ UNCHANGED vars
  PROVE  Inv'
<1>1. UNCHANGED core /\ UNCHANGED <<failures, faults, decisions>>
  BY DEF TakeFence, StartTurn, EndTurn, Swap, still, core, vars
<1>2. UNCHANGED <<provider, told, stamp, card, mem, disk, mark, noted, fenced, queue, run, tail,
                  image, stop, gen, later, crashes, failures, faults, decisions>>
  BY <1>1 DEF core
<1>3. target' \in [Requests -> Nat] /\ {turn', blocked', fence'} \subseteq BOOLEAN /\ swaps' \in 0..MaxFaults
  <2>0. /\ target \in [Requests -> Nat] /\ turn \in BOOLEAN /\ blocked \in BOOLEAN /\ fence \in BOOLEAN
        /\ faults \in 0..MaxFaults /\ swaps \in 0..MaxFaults /\ crashes \in 0..MaxFaults
    BY DEF Inv, TypeOK
  <2>1. CASE \E r \in Requests : Swap(r)
    <3>1. PICK r \in Requests : Swap(r)
      BY <2>1
    <3>2. target' \in [Requests -> Nat] /\ UNCHANGED <<turn, blocked, fence>>
      BY <2>0, <3>1 DEF Swap
    <3>3. swaps' \in 0..MaxFaults
      BY <2>0, <3>1, ConstantsTyped DEF Swap, CanFail
    <3> QED BY <2>0, <3>2, <3>3
  <2>2. CASE TakeFence
    BY <2>0, <2>2 DEF TakeFence
  <2>3. CASE StartTurn
    BY <2>0, <2>3 DEF StartTurn
  <2>4. CASE EndTurn
    BY <2>0, <2>4 DEF EndTurn
  <2>5. CASE UNCHANGED vars
    BY <2>0, <2>5 DEF vars
  <2> QED BY <2>1, <2>2, <2>3, <2>4, <2>5
<1>4. TypeOK'
  BY <1>2, <1>3 DEF Inv, TypeOK
<1>5. Rest'
  BY <1>1, CoreKept
<1> QED BY <1>4, <1>5 DEF Inv, Rest

LEMMA UsedFinite ==
  /\ Cardinality(Used) \in Nat
  /\ Cardinality(Used') \in Nat
  /\ Used \subseteq Used' => Cardinality(Used) <= Cardinality(Used')
<1>1. Used \subseteq Requests /\ Used' \subseteq Requests
  BY DEF Used
<1>2. IsFiniteSet(Used) /\ IsFiniteSet(Used')
  BY <1>1, ConstantsTyped, FS_Subset
<1>3. Used \subseteq Used' => Cardinality(Used) <= Cardinality(Used')
  BY <1>2, FS_Subset
<1> QED BY <1>2, <1>3, FS_CardinalityType

(* The requests a rule has answered only grow.                               *)
LEMMA UsesGrow ==
  ASSUME Inv, Used \subseteq Used', crashes' = crashes, mem'.uses = mem.uses,
         \A q \in Requests : (Using(q) => Using(q)') /\ (told[q] = "person" => told'[q] = "person")
  PROVE  UsesFit'
<1> SUFFICES ASSUME crashes = 0, NEW q \in Requests
             PROVE  /\ mem.uses[q] <= Cardinality(Used') + (IF Using(q)' THEN 1 ELSE 0)
                    /\ mem.uses[q] > 0 => told'[q] = "person"
  BY DEF UsesFit
<1>1. /\ mem.uses[q] <= Cardinality(Used) + (IF Using(q) THEN 1 ELSE 0)
      /\ mem.uses[q] > 0 => told[q] = "person"
      /\ mem.uses[q] \in Nat
  BY DEF Inv, UsesFit, TypeOK, Images
<1> QED BY <1>1, UsedFinite

---------------------------------------------------------------------------
(* The provider asks, the person decides, an answer comes from outside *)

LEMMA AskStep ==
  ASSUME Inv, NEW r \in Requests, Ask(r)
  PROVE  Inv'
<1> DEFINE j == Request(r)
<1>1. /\ UNCHANGED <<told, target, card, mem, disk, mark, noted, turn, blocked, fence, fenced, run,
                     tail, image, stop, gen, later, failures, faults, swaps, decisions, crashes>>
      /\ provider[r] = "unasked" /\ provider' = [provider EXCEPT ![r] = "waiting"]
      /\ stamp' = [stamp EXCEPT ![r] = [gen |-> gen, during |-> stop # "none"]]
      /\ queue' = Append(queue, j)
  BY DEF Ask, countVars
<1>2. j \in Jobs /\ j.kind = "request" /\ j.req = r
  BY DEF Jobs, Request
<1> HIDE DEF j
<1>3. queue' \in Seq(Jobs) /\ Range(queue') = Range(queue) \cup {j}
  BY <1>1, <1>2, RangeAppend DEF Inv, TypeOK
<1>4. /\ provider' \in [Requests -> {"unasked", "waiting", "answered", "elsewhere", "dropped"}]
      /\ provider'[r] = "waiting" /\ \A q \in Requests : q # r => provider'[q] = provider[q]
  BY <1>1 DEF Inv, TypeOK
<1>5. /\ stamp' \in [Requests -> [gen : Nat, during : BOOLEAN]]
      /\ \A q \in Requests : q # r => stamp'[q] = stamp[q]
  BY <1>1 DEF Inv, TypeOK
<1>6. /\ ~Queued(r) /\ ~AtFence(r) /\ ~Handling(r)
      /\ card[r] = <<>> /\ told[r] = "none" /\ r \notin mem.shown
  BY <1>1 DEF Inv, Hands, Asked, Cards
<1>7. TypeOK'
  BY <1>1, <1>3, <1>4, <1>5 DEF Inv, TypeOK
<1>8. Lanes' /\ ImageFits'
  BY <1>1, LanesKept
<1>9. /\ \A q \in Requests : Queued(q)' <=> Queued(q) \/ q = r
      /\ \A q \in Requests : (AtFence(q)' <=> AtFence(q)) /\ (Handling(q)' <=> Handling(q))
  BY <1>1, <1>2, <1>3 DEF Queued, AtFence, Handling
<1>10. Hands'
  <2>1. Distinct(queue')
    <3>1. \A k \in Range(queue) : ~SameKey(k, j)
      BY <1>2, <1>6 DEF SameKey, Queued
    <3> QED BY <1>1, <1>2, <3>1, DistinctAppend DEF Inv, TypeOK, Hands
  <2>2. \A k \in Range(later) : k.kind = "report" /\ \A i \in Range(queue') : ~SameKey(k, i)
    BY <1>2, <1>3 DEF Inv, Hands, SameKey
  <2>3. \A q \in Requests :
          /\ ~(Queued(q)' /\ AtFence(q)')
          /\ Handling(q)' => ~Queued(q)' /\ ~AtFence(q)'
          /\ Queued(q)' \/ AtFence(q)' \/ Handling(q)' =>
               provider'[q] # "unasked" /\ told'[q] = "none" /\ card'[q] = <<>>
    BY <1>1, <1>4, <1>6, <1>9 DEF Inv, Hands
  <2> QED BY <1>1, <2>1, <2>2, <2>3 DEF Inv, Hands
<1>11. JobsFit'
  BY <1>1, <1>2, <1>3, <1>4 DEF Inv, JobsFit, TypeOK
<1>12. Asked' /\ Cards'
  <2>1. Asked'
    BY <1>1, <1>4, <1>6 DEF Inv, Asked
  <2>2. \A q \in mem.shown : q \in Requests /\ q # r
    BY <1>6 DEF Inv, TypeOK, Images
  <2>3. Cards'
    BY <1>1, <1>5, <2>2 DEF Inv, Cards
  <2> QED BY <2>1, <2>3
<1>13. Saved' /\ Truth' /\ NoReceiptElsewhere'
  BY <1>1 DEF Inv, Saved, Copies, CopyFits, Truth, NoReceiptElsewhere
<1>14. RunFits'
  <2>1. run.kind = "resolve" => run.req \in Requests /\ run.req # r
    BY <1>6 DEF Inv, RunFits, TypeOK, Handlers, Idle
  <2> QED BY <1>1, <1>5, <2>1 DEF Inv, RunFits
<1>15. UsesFit'
  <2>1. Used \subseteq Used'
    BY <1>1, <1>4, <1>6, <1>9 DEF Used
  <2>2. \A q \in Requests : Using(q) => Using(q)'
    BY <1>1 DEF Using
  <2> QED BY <1>1, <2>1, <2>2, UsesGrow
<1>16. ReportKept'
  BY <1>1, <1>3, <1>4 DEF Inv, ReportKept
<1> QED BY <1>7, <1>8, <1>10, <1>11, <1>12, <1>13, <1>14, <1>15, <1>16 DEF Inv

LEMMA DecideStep ==
  ASSUME Inv, NEW r \in Requests, NEW d \in Verdicts, NEW k \in Nat, Decide(r, d, k)
  PROVE  Inv'
<1> DEFINE j == Resolve(r, d, k)
<1>1. /\ UNCHANGED <<provider, told, stamp, target, card, mem, disk, mark, noted, turn, blocked, fence,
                     fenced, run, tail, image, stop, gen, later, failures, faults, swaps, crashes>>
      /\ decisions < MaxDecisions /\ decisions' = decisions + 1
      /\ k \in DOMAIN card[r] /\ queue' = Append(queue, j)
  BY DEF Decide
<1>2. j \in Jobs /\ j.kind = "resolve" /\ j.req = r
  BY DEF Jobs, Resolve
<1> HIDE DEF j
<1>3. queue' \in Seq(Jobs) /\ Range(queue') = Range(queue) \cup {j}
  BY <1>1, <1>2, RangeAppend DEF Inv, TypeOK
<1>4. card[r] # <<>>
  BY <1>1
<1>5. TypeOK'
  <2>1. decisions' \in 0..MaxDecisions
    BY <1>1, ConstantsTyped DEF Inv, TypeOK
  <2> QED BY <1>1, <1>3, <2>1 DEF Inv, TypeOK
<1>6. Lanes' /\ ImageFits'
  BY <1>1, LanesKept
<1>7. \A q \in Requests : (Queued(q)' <=> Queued(q)) /\ (AtFence(q)' <=> AtFence(q)) /\ (Handling(q)' <=> Handling(q))
  BY <1>1, <1>2, <1>3 DEF Queued, AtFence, Handling
<1>8. Hands'
  <2>1. Distinct(queue')
    <3>1. \A i \in Range(queue) : ~SameKey(i, j)
      BY <1>2 DEF SameKey
    <3> QED BY <1>1, <1>2, <3>1, DistinctAppend DEF Inv, TypeOK, Hands
  <2>2. \A i \in Range(later) : i.kind = "report" /\ \A m \in Range(queue') : ~SameKey(i, m)
    BY <1>2, <1>3 DEF Inv, Hands, SameKey
  <2> QED BY <1>1, <1>7, <2>1, <2>2 DEF Inv, Hands
<1>9. JobsFit'
  BY <1>1, <1>2, <1>3, <1>4 DEF Inv, JobsFit
<1>10. Asked' /\ Cards' /\ RunFits'
  BY <1>1 DEF Inv, Asked, Cards, RunFits
<1>11. Saved' /\ Truth' /\ NoReceiptElsewhere'
  BY <1>1 DEF Inv, Saved, Copies, CopyFits, Truth, NoReceiptElsewhere
<1>12. UsesFit'
  <2>1. Used \subseteq Used'
    BY <1>1, <1>7 DEF Used
  <2>2. \A q \in Requests : Using(q) => Using(q)'
    BY <1>1 DEF Using
  <2> QED BY <1>1, <2>1, <2>2, UsesGrow
<1>13. ReportKept'
  BY <1>1, <1>3 DEF Inv, ReportKept
<1> QED BY <1>5, <1>6, <1>8, <1>9, <1>10, <1>11, <1>12, <1>13 DEF Inv

LEMMA JobsTyped ==
  ASSUME NEW s \in Seq(Jobs)
  PROVE  \A j \in Range(s) : /\ j \in Jobs /\ j.req \in Requests
                             /\ j.kind \in {"request", "report", "resolve"}
<1>1. \A j \in Range(s) : j \in Jobs
  BY DEF Range
<1>2. \A j \in Jobs : j.req \in Requests /\ j.kind \in {"request", "report", "resolve"}
  BY DEF Jobs
<1> QED BY <1>1, <1>2

LEMMA ShownTyped ==
  ASSUME Inv
  PROVE  \A q \in mem.shown : q \in Requests
BY DEF Inv, TypeOK, Images

LEMMA ElsewhereStep ==
  ASSUME Inv, NEW r \in Requests, AnsweredElsewhere(r)
  PROVE  Inv'
<1> DEFINE j == Report(r, r \in mem.shown)
<1>1. /\ UNCHANGED <<told, stamp, target, card, mem, disk, noted, turn, blocked, fence, fenced, run,
                     tail, image, stop, gen, later, failures, faults, swaps, decisions, crashes>>
      /\ provider[r] = "waiting"
      /\ mark' = IF r \in mem.shown THEN [mark EXCEPT ![r] = "queued"] ELSE mark
      /\ queue' = Append(queue, j)
  BY DEF AnsweredElsewhere, countVars
<1>2. j \in Jobs /\ j.kind = "report" /\ j.req = r /\ j.had = (r \in mem.shown)
  BY DEF Jobs, Report
<1> HIDE DEF j
<1>3. queue \in Seq(Jobs) /\ later \in Seq(Jobs) /\ queue' \in Seq(Jobs) /\ Range(queue') = Range(queue) \cup {j}
  BY <1>1, <1>2, RangeAppend DEF Inv, TypeOK
<1>4. /\ provider' \in [Requests -> {"unasked", "waiting", "answered", "elsewhere", "dropped"}]
      /\ provider'[r] = "elsewhere"
      /\ \A q \in Requests : q # r => provider'[q] = IF provider[q] = "waiting" THEN "dropped" ELSE provider[q]
  <2>1. provider \in [Requests -> {"unasked", "waiting", "answered", "elsewhere", "dropped"}]
    BY DEF Inv, TypeOK
  <2> QED BY <2>1 DEF AnsweredElsewhere
<1>5. /\ mark' \in [Requests -> {"none", "queued", "recorded"}]
      /\ r \in mem.shown => mark'[r] = "queued"
      /\ \A q \in Requests : q # r \/ r \notin mem.shown => mark'[q] = mark[q]
  BY <1>1 DEF Inv, TypeOK
<1>6. \A k \in Range(queue) \cup Range(later) : k.req \in Requests /\ (k.kind = "report" => k.req # r)
  BY <1>1, <1>3, JobsTyped DEF Inv, JobsFit
<1>7. TypeOK'
  BY <1>1, <1>3, <1>4, <1>5 DEF Inv, TypeOK
<1>8. Lanes' /\ ImageFits'
  BY <1>1, LanesKept
<1>9. \A q \in Requests : (Queued(q)' <=> Queued(q)) /\ (AtFence(q)' <=> AtFence(q)) /\ (Handling(q)' <=> Handling(q))
  BY <1>1, <1>2, <1>3 DEF Queued, AtFence, Handling
<1>10. Hands'
  <2>1. Distinct(queue')
    <3>1. \A k \in Range(queue) : ~SameKey(k, j)
      BY <1>2, <1>6 DEF SameKey
    <3> QED BY <1>1, <1>2, <1>3, <3>1, DistinctAppend DEF Inv, Hands
  <2>2. \A k \in Range(later) : k.kind = "report" /\ \A i \in Range(queue') : ~SameKey(k, i)
    BY <1>2, <1>3, <1>6 DEF Inv, Hands, SameKey
  <2>3. \A q \in Requests :
          /\ ~(Queued(q)' /\ AtFence(q)')
          /\ Handling(q)' => ~Queued(q)' /\ ~AtFence(q)'
          /\ Queued(q)' \/ AtFence(q)' \/ Handling(q)' =>
               provider'[q] # "unasked" /\ told'[q] = "none" /\ card'[q] = <<>>
    BY <1>1, <1>4, <1>9 DEF Inv, Hands
  <2> QED BY <1>1, <2>1, <2>2, <2>3 DEF Inv, Hands
<1>11. JobsFit'
  <2>1. ASSUME NEW k \in Range(queue) \cup Range(later), k.kind = "report"
        PROVE  provider'[k.req] = "elsewhere" /\ (k.had => mark'[k.req] = "queued")
    <3>1. provider[k.req] = "elsewhere" /\ (k.had => mark[k.req] = "queued")
      BY <2>1 DEF Inv, JobsFit
    <3>2. k.req \in Requests /\ k.req # r
      BY <1>6, <2>1
    <3> QED BY <1>4, <1>5, <3>1, <3>2
  <2>2. j.had => mark'[j.req] = "queued"
    BY <1>2, <1>5
  <2>3. \A k \in Range(queue') : k.kind = "resolve" => card'[k.req] # <<>>
    BY <1>1, <1>2, <1>3 DEF Inv, JobsFit
  <2> QED BY <1>1, <1>2, <1>3, <1>4, <2>1, <2>2, <2>3 DEF JobsFit
<1>12. Asked' /\ Cards' /\ RunFits'
  <2>1. Asked'
    BY <1>1, <1>4 DEF Inv, Asked
  <2> QED BY <1>1, <2>1 DEF Inv, Cards, RunFits
<1>13. Saved' /\ Truth'
  BY <1>1 DEF Inv, Saved, Copies, CopyFits, Truth
<1>14. NoReceiptElsewhere'
  BY <1>1, <1>5 DEF Inv, NoReceiptElsewhere, Cards
<1>15. UsesFit'
  <2>1. Used \subseteq Used'
    BY <1>1, <1>4, <1>9 DEF Used
  <2>2. \A q \in Requests : Using(q) => Using(q)'
    BY <1>1 DEF Using
  <2> QED BY <1>1, <2>1, <2>2, UsesGrow
<1>16. ReportKept'
  BY <1>1, <1>2, <1>3, <1>4 DEF Inv, ReportKept
<1> QED BY <1>7, <1>8, <1>10, <1>11, <1>12, <1>13, <1>14, <1>15, <1>16 DEF Inv

---------------------------------------------------------------------------
(* What an answer to a request leaves alone *)

(* Answers change neither who was answered outside nor what a person said,   *)
(* and no card on show.                                                      *)
Softly ==
  \A q \in Requests :
    /\ provider'[q] = "elsewhere" <=> provider[q] = "elsewhere"
    /\ provider'[q] = "unasked" <=> provider[q] = "unasked"
    /\ told'[q] = "person" <=> told[q] = "person"
    /\ told'[q] # "none" <=> provider'[q] = "answered"
    /\ q \in mem.shown => told'[q] = told[q]

LEMMA SoftUnchanged ==
  ASSUME Inv, UNCHANGED <<provider, told>>
  PROVE  Softly
BY DEF Softly, Inv, Asked

LEMMA SoftAnswer ==
  ASSUME Inv, NEW r \in Requests, told[r] = "none", r \notin mem.shown,
         NEW a \in {"denied", "policy", "rule"}, Answer(r, a)
  PROVE  /\ Softly
         /\ provider' \in [Requests -> {"unasked", "waiting", "answered", "elsewhere", "dropped"}]
         /\ told' \in [Requests -> {"none", "denied", "person", "policy", "rule"}]
         /\ \A q \in Requests : q # r => provider'[q] = provider[q] /\ told'[q] = told[q]
         /\ provider[r] = "waiting" => provider'[r] = "answered" /\ told'[r] = a
         /\ provider[r] # "waiting" => provider'[r] = provider[r] /\ told'[r] = "none"
<1>1. /\ provider \in [Requests -> {"unasked", "waiting", "answered", "elsewhere", "dropped"}]
      /\ told \in [Requests -> {"none", "denied", "person", "policy", "rule"}]
  BY DEF Inv, TypeOK
<1>2. /\ told' = IF provider[r] = "waiting" THEN [told EXCEPT ![r] = a] ELSE told
      /\ provider' = IF provider[r] = "waiting" THEN [provider EXCEPT ![r] = "answered"] ELSE provider
  BY DEF Answer, Told, Answered
<1>3. /\ provider' \in [Requests -> {"unasked", "waiting", "answered", "elsewhere", "dropped"}]
      /\ told' \in [Requests -> {"none", "denied", "person", "policy", "rule"}]
      /\ \A q \in Requests : q # r => provider'[q] = provider[q] /\ told'[q] = told[q]
      /\ provider[r] = "waiting" => provider'[r] = "answered" /\ told'[r] = a
      /\ provider[r] # "waiting" => provider'[r] = provider[r] /\ told'[r] = "none"
  BY <1>1, <1>2
<1>4. \A q \in Requests : told[q] # "none" <=> provider[q] = "answered"
  BY DEF Inv, Asked
<1>5. Softly
  BY <1>3, <1>4 DEF Softly
<1> QED BY <1>3, <1>5

LEMMA RecordsKept ==
  ASSUME Inv, Softly, UNCHANGED <<stamp, card, mem, disk, image, stop, gen, mark>>
  PROVE  Asked' /\ Cards' /\ Saved' /\ NoReceiptElsewhere'
<1>1. Asked'
  BY DEF Inv, Asked, Softly
<1>2. Cards'
  <2>1. \A q \in mem.shown : q \in Requests
    BY ShownTyped
  <2> QED BY <2>1 DEF Inv, Cards, Softly
<1>3. Saved'
  BY DEF Inv, Saved, Copies, CopyFits, Softly
<1> QED BY <1>1, <1>2, <1>3 DEF Inv, NoReceiptElsewhere

LEMMA JobsKept ==
  ASSUME Inv, Softly, UNCHANGED <<card, mark>>,
         \A k \in Range(queue') \cup Range(later') : k.kind = "report" => k \in Range(queue) \cup Range(later),
         \A k \in Range(queue') : k.kind = "resolve" => k \in Range(queue)
  PROVE  JobsFit'
<1>1. queue \in Seq(Jobs) /\ later \in Seq(Jobs)
  BY DEF Inv, TypeOK
<1>2. \A k \in Range(queue) \cup Range(later) : k.req \in Requests
  BY <1>1, JobsTyped
<1>3. ASSUME NEW k \in Range(queue') \cup Range(later'), k.kind = "report"
      PROVE  provider'[k.req] = "elsewhere" /\ (k.had => mark'[k.req] = "queued")
  <2>1. k \in Range(queue) \cup Range(later)
    BY <1>3
  <2>2. provider[k.req] = "elsewhere" /\ (k.had => mark[k.req] = "queued")
    BY <1>3, <2>1 DEF Inv, JobsFit
  <2> QED BY <1>2, <2>1, <2>2 DEF Softly
<1>4. \A k \in Range(queue') : k.kind = "resolve" => card'[k.req] # <<>>
  BY DEF Inv, JobsFit
<1> QED BY <1>3, <1>4 DEF JobsFit

LEMMA ReportsKept ==
  ASSUME Inv, Softly, UNCHANGED <<noted, crashes, stop>>,
         \A k \in Range(queue) : k.kind = "report" => k \in Range(queue'),
         \A k \in Range(later) : k.kind = "report" => k \in Range(later')
  PROVE  ReportKept'
BY DEF Inv, ReportKept, Softly

LEMMA Popped ==
  ASSUME Inv, queue # <<>>, queue' = Tail(queue), later' = later
  PROVE  /\ Head(queue) \in Jobs /\ Head(queue).req \in Requests /\ queue' \in Seq(Jobs)
         /\ Range(queue) = Range(queue') \cup {Head(queue)}
         /\ Distinct(queue') /\ Distinct(later')
         /\ \A k \in Range(queue') : ~SameKey(Head(queue), k)
         /\ \A k \in Range(later') : k.kind = "report" /\ \A i \in Range(queue') : ~SameKey(k, i)
<1>1. queue \in Seq(Jobs) /\ Distinct(queue)
  BY DEF Inv, TypeOK, Hands
<1>2. /\ queue' \in Seq(Jobs) /\ Head(queue) \in Jobs /\ Head(queue) \in Range(queue)
      /\ Range(queue) = Range(queue') \cup {Head(queue)}
  BY <1>1, RangeTail
<1>3. Distinct(queue') /\ \A k \in Range(queue') : ~SameKey(Head(queue), k)
  BY <1>1, DistinctTail
<1>4. Head(queue).req \in Requests
  BY <1>1, <1>2, JobsTyped
<1> QED BY <1>2, <1>3, <1>4 DEF Inv, Hands

---------------------------------------------------------------------------
(* The handler of a request *)

(* Between handlers no save is the lane's.                                   *)
LEMMA LanesFree ==
  ASSUME Inv, \A kind : ~Waits(run, kind)
  PROVE  NoLane(tail) /\ (tail # <<>> => Head(tail).kind = "persist")
<1>1. tail \in Seq(Writes) /\ LanesFit(tail, run)
  BY DEF Inv, TypeOK, Lanes
<1>2. NoLane(tail)
  BY <1>1, NotWaiting
<1>3. tail # <<>> => 1 \in DOMAIN tail /\ Head(tail) = tail[1]
  BY <1>1
<1> QED BY <1>2, <1>3 DEF NoLane

LEMMA LanesOfFree ==
  ASSUME Inv, \A kind : ~Waits(run, kind), UNCHANGED <<tail, image>>
  PROVE  Lanes' /\ ImageFits'
<1>1. tail \in Seq(Writes) /\ NoLane(tail) /\ (tail # <<>> => Head(tail).kind = "persist")
  BY LanesFree DEF Inv, TypeOK
<1>2. LanesFit(tail, run')
  BY <1>1, LanesOfNone
<1>3. image # NoImage => tail # <<>>
  BY DEF Inv, Lanes
<1> QED BY <1>1, <1>2, <1>3 DEF Lanes, ImageFits

LEMMA BeginRequestStep ==
  ASSUME Inv, BeginRequest
  PROVE  Inv'
<1> DEFINE r == Head(queue).req
<1>1. /\ UNCHANGED <<card, mem, mark, tail, target, noted, turn, blocked, fence, stop, gen, later, disk, image,
                     failures, faults, swaps, decisions, crashes, stamp>>
      /\ run = Idle /\ queue # <<>> /\ Head(queue).kind = "request" /\ queue' = Tail(queue)
  BY DEF BeginRequest, quiet, countVars
<1>2. /\ Head(queue) \in Jobs /\ r \in Requests /\ queue' \in Seq(Jobs)
      /\ Range(queue) = Range(queue') \cup {Head(queue)}
      /\ Distinct(queue') /\ Distinct(later')
      /\ \A k \in Range(queue') : ~SameKey(Head(queue), k)
      /\ \A k \in Range(later') : k.kind = "report" /\ \A i \in Range(queue') : ~SameKey(k, i)
  BY <1>1, Popped
<1>3. Queued(r) /\ \A q \in Requests : Queued(q)' <=> Queued(q) /\ q # r
  BY <1>1, <1>2 DEF Queued, SameKey
<1>4. ~AtFence(r) /\ provider[r] # "unasked" /\ told[r] = "none" /\ card[r] = <<>> /\ r \notin mem.shown
  BY <1>2, <1>3 DEF Inv, Hands, Cards
<1>5. \A q : ~Handling(q) /\ ~Using(q)
  BY <1>1, IdleIs DEF Handling, Using
<1>6. /\ fenced \in Seq(Requests)
      /\ \A i, j \in DOMAIN fenced : fenced[i] = fenced[j] => i = j
  BY DEF Inv, TypeOK, Hands
<1> DEFINE moved == /\ Softly
                    /\ provider' \in [Requests -> {"unasked", "waiting", "answered", "elsewhere", "dropped"}]
                    /\ told' \in [Requests -> {"none", "denied", "person", "policy", "rule"}]
                    /\ \A q \in Requests : q # r => provider'[q] = provider[q] /\ told'[q] = told[q]
<1> DEFINE started == [kind |-> "request", req |-> r, step |-> "settling", by |-> r]
<1>7. \/ moved /\ fenced' = fenced /\ run' = Idle
      \/ moved /\ provider' = provider /\ told' = told /\ fenced' = Append(fenced, r) /\ run' = Idle
      \/ moved /\ provider' = provider /\ told' = told /\ fenced' = fenced /\ run' = started
  <2>1. UNCHANGED <<provider, told>> => moved
    BY SoftUnchanged DEF Inv, TypeOK
  <2>2. Answer(r, "denied") => moved
    BY <1>2, <1>4, SoftAnswer
  <2> HIDE DEF moved
  <2> QED BY <1>1, <2>1, <2>2 DEF BeginRequest, Refused, Held
<1>8. /\ moved
      /\ fenced' \in Seq(Requests) /\ \A i, j \in DOMAIN fenced' : fenced'[i] = fenced'[j] => i = j
      /\ \A q \in Requests : AtFence(q)' => AtFence(q) \/ (q = r /\ told'[r] = "none" /\ provider'[r] = provider[r] /\ run' = Idle)
      /\ \A q \in Requests : AtFence(q) => AtFence(q)'
      /\ run' = Idle \/ (run' = started /\ told'[r] = "none" /\ provider'[r] = provider[r])
  <2>1. CASE fenced' = fenced
    BY <1>4, <1>6, <1>7, <2>1 DEF AtFence
  <2>2. CASE moved /\ provider' = provider /\ told' = told /\ fenced' = Append(fenced, r) /\ run' = Idle
    <3>1. fenced' \in Seq(Requests) /\ Range(fenced') = Range(fenced) \cup {r}
      BY <1>2, <1>6, <2>2, RangeAppend
    <3>2. /\ DOMAIN fenced' = 1..(Len(fenced) + 1) /\ DOMAIN fenced = 1..Len(fenced) /\ Len(fenced) \in Nat
          /\ fenced'[Len(fenced) + 1] = r /\ \A i \in 1..Len(fenced) : fenced'[i] = fenced[i]
      BY <1>2, <1>6, <2>2
    <3>3. \A i \in DOMAIN fenced : fenced[i] # r
      BY <1>4 DEF AtFence, Range
    <3>4. \A i \in DOMAIN fenced' : i \in DOMAIN fenced \/ i = Len(fenced) + 1
      BY <3>2
    <3>5. \A i, j \in DOMAIN fenced' : fenced'[i] = fenced'[j] => i = j
      BY <1>6, <3>2, <3>3, <3>4
    <3> QED BY <1>4, <2>2, <3>1, <3>5 DEF AtFence
  <2> QED BY <1>7, <2>1, <2>2
<1> HIDE DEF r
<1>9. started.kind = "request" /\ started.step = "settling" /\ started.req = r /\ started \in Handlers
  BY <1>2 DEF Handlers
<1> HIDE DEF started
<1>10. run' \in Handlers /\ run'.kind # "resolve" /\ ~(run'.kind = "request" /\ run'.step = "using")
  BY <1>8, <1>9, IdleIs
<1>11. \A q \in Requests : Handling(q)' <=> q = r /\ run' = started
  BY <1>8, <1>9, IdleIs DEF Handling
<1>12. TypeOK'
  BY <1>1, <1>2, <1>8, <1>10 DEF Inv, TypeOK
<1>13. Lanes' /\ ImageFits'
  BY <1>1, IdleIs, LanesOfFree
<1>14. Hands'
  <2>1. \A q \in Requests :
          /\ ~(Queued(q)' /\ AtFence(q)')
          /\ Handling(q)' => ~Queued(q)' /\ ~AtFence(q)'
    BY <1>2, <1>3, <1>4, <1>8, <1>9, <1>11, IdleIs DEF Inv, Hands
  <2>2. \A q \in Requests :
          Queued(q)' \/ AtFence(q)' \/ Handling(q)' =>
               provider'[q] # "unasked" /\ told'[q] = "none" /\ card'[q] = <<>>
    BY <1>1, <1>2, <1>3, <1>4, <1>8, <1>9, <1>11, IdleIs DEF Inv, Hands
  <2> QED BY <1>2, <1>8, <2>1, <2>2 DEF Hands
<1>15. Asked' /\ Cards' /\ Saved' /\ NoReceiptElsewhere'
  BY <1>1, <1>8, RecordsKept
<1>16. JobsFit' /\ ReportKept'
  BY <1>1, <1>2, <1>8, JobsKept, ReportsKept
<1>17. RunFits' /\ Truth'
  <2>1. RunFits'
    BY <1>10 DEF RunFits
  <2>2. run.kind # "resolve"
    BY <1>1, IdleIs
  <2> QED BY <1>1, <1>8, <2>1, <2>2 DEF Inv, Truth, Softly
<1>18. UsesFit'
  <2>1. Used \subseteq Used'
    BY <1>2, <1>3, <1>8, <1>11 DEF Used
  <2>2. \A q \in Requests : told[q] = "person" => told'[q] = "person"
    BY <1>8 DEF Softly
  <2> QED BY <1>1, <1>5, <2>1, <2>2, UsesGrow
<1> QED BY <1>12, <1>13, <1>14, <1>15, <1>16, <1>17, <1>18 DEF Inv

LEMMA FenceAppend ==
  ASSUME Inv, NEW r \in Requests, ~AtFence(r), fenced' = Append(fenced, r)
  PROVE  /\ fenced' \in Seq(Requests) /\ \A i, j \in DOMAIN fenced' : fenced'[i] = fenced'[j] => i = j
         /\ \A q \in Requests : AtFence(q)' <=> AtFence(q) \/ q = r
<1>0. fenced \in Seq(Requests) /\ \A i, j \in DOMAIN fenced : fenced[i] = fenced[j] => i = j
  BY DEF Inv, TypeOK, Hands
<1>1. fenced' \in Seq(Requests) /\ Range(fenced') = Range(fenced) \cup {r}
  BY <1>0, RangeAppend
<1>2. /\ DOMAIN fenced' = 1..(Len(fenced) + 1) /\ DOMAIN fenced = 1..Len(fenced) /\ Len(fenced) \in Nat
      /\ fenced'[Len(fenced) + 1] = r /\ \A i \in 1..Len(fenced) : fenced'[i] = fenced[i]
  BY <1>0
<1>3. \A i \in DOMAIN fenced : fenced[i] # r
  BY DEF AtFence, Range
<1>4. \A i \in DOMAIN fenced' : i \in DOMAIN fenced \/ i = Len(fenced) + 1
  BY <1>2
<1>5. \A i, j \in DOMAIN fenced' : fenced'[i] = fenced'[j] => i = j
  BY <1>0, <1>2, <1>3, <1>4
<1> QED BY <1>1, <1>5 DEF AtFence

(* The running handler saves: one save becomes the lane's.                   *)
LEMMA LanesPersisted ==
  ASSUME Inv, \A kind : ~Waits(run, kind), Waits(run', "persist"), tail' = Persisted({"lane"}), image' = image
  PROVE  tail' \in Seq(Writes) /\ Lanes' /\ ImageFits'
<1> DEFINE first == IF image = NoImage THEN 1 ELSE 2
<1>1. tail \in Seq(Writes) /\ NoLane(tail) /\ (tail # <<>> => Head(tail).kind = "persist")
  BY LanesFree DEF Inv, TypeOK
<1>2. tail' = Shared(tail, first, {"lane"})
  BY DEF Persisted
<1>3. first \in {1, 2} /\ {"lane"} \in SUBSET {"lane", "stop"}
  OBVIOUS
<1> HIDE DEF first
<1>4. tail' \in Seq(Writes)
  BY <1>1, <1>2, <1>3, SharedFacts
<1>5. LanesFit(tail', run')
  BY <1>1, <1>2, <1>3, LaneShared
<1>6. tail' # <<>> /\ (tail # <<>> => Head(tail').kind = Head(tail).kind)
  BY <1>1, <1>2, <1>3, SharedHead
<1>7. image # NoImage => tail # <<>>
  BY DEF Inv, Lanes
<1> QED BY <1>1, <1>4, <1>5, <1>6, <1>7 DEF Lanes, ImageFits

LEMMA RequestRuns ==
  ASSUME Inv, run.kind = "request"
  PROVE  /\ run.req \in Requests /\ run.by \in Requests
         /\ run = [kind |-> "request", req |-> run.req, step |-> run.step, by |-> run.by]
BY DEF Inv, TypeOK, Handlers, Idle

(* A request leaves the handler answered, or is held at the fence.           *)
LEMMA RequestLeft ==
  ASSUME Inv, NEW r \in Requests, run.kind = "request", run.step = "settling", run.req = r,
         UNCHANGED <<card, mem, stamp, disk, image, stop, gen, mark, noted, crashes, queue, later>>,
         Softly, \A q \in Requests : q # r => provider'[q] = provider[q] /\ told'[q] = told[q],
         run'.kind # "resolve", ~(run'.kind = "request" /\ run'.step \in {"settling", "using"}),
         \/ fenced' = fenced
         \/ fenced' = Append(fenced, r) /\ UNCHANGED <<provider, told>>
  PROVE  /\ fenced' \in Seq(Requests)
         /\ Hands' /\ JobsFit' /\ Asked' /\ Cards' /\ Saved' /\ RunFits' /\ Truth'
         /\ NoReceiptElsewhere' /\ UsesFit' /\ ReportKept'
<1>1. Handling(r) /\ \A q \in Requests : q # r => ~Handling(q)
  BY DEF Handling
<1>2. ~Queued(r) /\ ~AtFence(r) /\ provider[r] # "unasked" /\ told[r] = "none" /\ card[r] = <<>>
  BY <1>1 DEF Inv, Hands
<1>3. \A q \in Requests : ~Handling(q)' /\ ~Using(q)' /\ ~Using(q) /\ (Queued(q)' <=> Queued(q))
  BY DEF Handling, Using, Queued
<1>4. /\ fenced' \in Seq(Requests) /\ \A i, j \in DOMAIN fenced' : fenced'[i] = fenced'[j] => i = j
      /\ \A q \in Requests : AtFence(q) => AtFence(q)'
      /\ \A q \in Requests : AtFence(q)' => AtFence(q) \/ (q = r /\ told'[r] = "none" /\ provider'[r] = provider[r])
  <2>1. CASE fenced' = fenced
    BY <2>1 DEF Inv, TypeOK, Hands, AtFence
  <2>2. CASE fenced' = Append(fenced, r) /\ UNCHANGED <<provider, told>>
    BY <1>2, <2>2, FenceAppend
  <2> QED BY <2>1, <2>2
<1>5. Hands'
  <2>1. \A q \in Requests : ~(Queued(q)' /\ AtFence(q)')
    BY <1>2, <1>3, <1>4 DEF Inv, Hands
  <2>2. ASSUME NEW q \in Requests, Queued(q)' \/ AtFence(q)'
        PROVE  provider'[q] # "unasked" /\ told'[q] = "none" /\ card'[q] = <<>>
    BY <1>2, <1>3, <1>4, <2>2 DEF Inv, Hands
  <2> QED BY <1>3, <1>4, <2>1, <2>2 DEF Inv, Hands
<1>6. Asked' /\ Cards' /\ Saved' /\ NoReceiptElsewhere'
  BY RecordsKept
<1>7. JobsFit' /\ ReportKept'
  BY JobsKept, ReportsKept
<1>8. RunFits' /\ Truth'
  <2>1. RunFits'
    BY DEF RunFits
  <2> QED BY <2>1 DEF Inv, Truth, Softly
<1>9. UsesFit'
  <2>1. Used \subseteq Used'
    BY <1>1, <1>2, <1>3, <1>4 DEF Used
  <2>2. \A q \in Requests : told[q] = "person" => told'[q] = "person"
    BY DEF Softly
  <2> QED BY <1>3, <2>1, <2>2, UsesGrow
<1> QED BY <1>4, <1>5, <1>6, <1>7, <1>8, <1>9

LEMMA SettleRequestStep ==
  ASSUME Inv, SettleRequest
  PROVE  Inv'
<1> DEFINE r == run.req
<1> DEFINE flushed == [run EXCEPT !.step = "flush"]
<1>1. /\ UNCHANGED <<mark, queue, target, noted, turn, blocked, fence, stop, gen, later, disk, image,
                     failures, faults, swaps, decisions, crashes, stamp>>
      /\ run.kind = "request" /\ run.step = "settling"
  BY DEF SettleRequest, quiet, countVars
<1>2. /\ r \in Requests /\ run.by \in Requests
      /\ run = [kind |-> "request", req |-> r, step |-> run.step, by |-> run.by]
  BY <1>1, RequestRuns
<1>3. Handling(r) /\ ~Queued(r) /\ ~AtFence(r) /\ provider[r] # "unasked" /\ told[r] = "none"
      /\ card[r] = <<>> /\ r \notin mem.shown
  BY <1>1, <1>2 DEF Handling, Inv, Hands, Cards
<1>4. flushed \in Handlers /\ flushed.kind = "request" /\ flushed.step = "flush" /\ flushed.req = r
  BY <1>2 DEF Handlers
<1>5. \A kind : ~Waits(run, kind)
  BY <1>1 DEF Waits
<1>6. Waits(flushed, "persist")
  BY <1>4 DEF Waits
<1> HIDE DEF r, flushed
<1>7. \/ (Refused(r) \/ Held(r) \/ (Answer(r, "denied") /\ UNCHANGED fenced)) /\ run' = Idle /\ UNCHANGED <<card, mem, tail>>
      \/ /\ Answer(r, "policy") /\ run' = flushed /\ tail' = Persisted({"lane"})
         /\ UNCHANGED <<card, mem, fenced>>
      \/ /\ \E q \in ActiveRules :
             /\ mem' = [mem EXCEPT !.uses[q] = @ + 1]
             /\ run' = [run EXCEPT !.step = "using", !.by = q]
         /\ tail' = Persisted({"lane"})
         /\ UNCHANGED <<card, provider, told, fenced>>
      \/ /\ Admitted(r)
         /\ card' = [card EXCEPT ![r] = <<target[r]>>]
         /\ mem' = [mem EXCEPT !.shown = @ \cup {r}]
         /\ run' = flushed /\ tail' = Persisted({"lane"})
         /\ UNCHANGED <<provider, told, fenced>>
  BY DEF SettleRequest, r, flushed
<1>8. CASE (Refused(r) \/ Held(r) \/ (Answer(r, "denied") /\ UNCHANGED fenced)) /\ run' = Idle /\ UNCHANGED <<card, mem, tail>>
  <2>1. \/ fenced' = fenced /\ Answer(r, "denied")
        \/ fenced' = Append(fenced, r) /\ UNCHANGED <<provider, told>>
    BY <1>8 DEF Refused, Held
  <2>2. /\ Softly
        /\ provider' \in [Requests -> {"unasked", "waiting", "answered", "elsewhere", "dropped"}]
        /\ told' \in [Requests -> {"none", "denied", "person", "policy", "rule"}]
        /\ \A q \in Requests : q # r => provider'[q] = provider[q] /\ told'[q] = told[q]
    <3>1. CASE Answer(r, "denied")
      BY <1>2, <1>3, <3>1, SoftAnswer DEF r
    <3>2. CASE UNCHANGED <<provider, told>>
      BY <3>2, SoftUnchanged DEF Inv, TypeOK
    <3> QED BY <2>1, <3>1, <3>2
  <2>3. run' \in Handlers /\ run'.kind # "resolve" /\ run'.kind # "request"
    BY <1>8, IdleIs
  <2>4. /\ fenced' \in Seq(Requests)
        /\ Hands' /\ JobsFit' /\ Asked' /\ Cards' /\ Saved' /\ RunFits' /\ Truth'
        /\ NoReceiptElsewhere' /\ UsesFit' /\ ReportKept'
    BY <1>1, <1>2, <1>8, <2>1, <2>2, <2>3, RequestLeft DEF r
  <2>5. Lanes' /\ ImageFits'
    BY <1>1, <1>5, <1>8, LanesOfFree
  <2>6. TypeOK'
    BY <1>1, <1>8, <2>2, <2>3, <2>4 DEF Inv, TypeOK
  <2> QED BY <2>4, <2>5, <2>6 DEF Inv
<1>9. CASE /\ Answer(r, "policy") /\ run' = flushed /\ tail' = Persisted({"lane"})
           /\ UNCHANGED <<card, mem, fenced>>
  <2>1. /\ Softly
        /\ provider' \in [Requests -> {"unasked", "waiting", "answered", "elsewhere", "dropped"}]
        /\ told' \in [Requests -> {"none", "denied", "person", "policy", "rule"}]
        /\ \A q \in Requests : q # r => provider'[q] = provider[q] /\ told'[q] = told[q]
    BY <1>2, <1>3, <1>9, SoftAnswer DEF r
  <2>2. run' \in Handlers /\ run'.kind = "request" /\ run'.step = "flush"
    BY <1>4, <1>9
  <2>3. /\ fenced' \in Seq(Requests)
        /\ Hands' /\ JobsFit' /\ Asked' /\ Cards' /\ Saved' /\ RunFits' /\ Truth'
        /\ NoReceiptElsewhere' /\ UsesFit' /\ ReportKept'
    BY <1>1, <1>2, <1>9, <2>1, <2>2, RequestLeft DEF r
  <2>4. tail' \in Seq(Writes) /\ Lanes' /\ ImageFits'
    BY <1>1, <1>5, <1>6, <1>9, LanesPersisted
  <2>5. TypeOK'
    BY <1>1, <1>9, <2>1, <2>2, <2>3, <2>4 DEF Inv, TypeOK
  <2> QED BY <2>3, <2>4, <2>5 DEF Inv
<1>10. ASSUME NEW q \in ActiveRules,
              mem' = [mem EXCEPT !.uses[q] = @ + 1], run' = [run EXCEPT !.step = "using", !.by = q],
              tail' = Persisted({"lane"}), UNCHANGED <<card, provider, told, fenced>>
       PROVE  Inv'
  <2>1. q \in Requests /\ mem.rule[q] = "active" /\ told[q] = "person"
    BY DEF ActiveRules, Inv, Saved, Copies, CopyFits
  <2>2. /\ mem \in Images /\ mem'.shown = mem.shown /\ mem'.receipt = mem.receipt /\ mem'.rule = mem.rule
        /\ mem' \in Images /\ mem'.uses[q] = mem.uses[q] + 1
        /\ \A k \in Requests : mem.uses[k] \in Nat /\ (k # q => mem'.uses[k] = mem.uses[k])
    <3>1. mem \in Images
      BY DEF Inv, TypeOK
    <3>2. mem' = [shown |-> mem.shown, receipt |-> mem.receipt, rule |-> mem.rule,
                  uses |-> [mem.uses EXCEPT ![q] = @ + 1]]
      BY <1>10, <3>1 DEF Images
    <3> QED BY <2>1, <3>1, <3>2 DEF Images
  <2>3. run' = [kind |-> "request", req |-> r, step |-> "using", by |-> q]
    <3> DEFINE b == run.by
    <3> DEFINE s == run.step
    <3>1. run = [kind |-> "request", req |-> r, step |-> s, by |-> b]
      BY <1>2
    <3> HIDE DEF b, s
    <3> QED BY <1>10, <3>1
  <2>4. run' \in Handlers /\ run'.kind = "request" /\ run'.step = "using" /\ run'.req = r /\ run'.by = q
    BY <1>2, <2>1, <2>3 DEF Handlers, r
  <2>5. tail' \in Seq(Writes) /\ Lanes' /\ ImageFits'
    <3>1. Waits(run', "persist")
      BY <2>4 DEF Waits
    <3> QED BY <1>1, <1>5, <1>10, <3>1, LanesPersisted
  <2>6. TypeOK'
    BY <1>1, <1>10, <2>2, <2>4, <2>5 DEF Inv, TypeOK
  <2>7. \A k \in Requests : (Queued(k)' <=> Queued(k)) /\ (AtFence(k)' <=> AtFence(k)) /\ (Handling(k)' <=> Handling(k))
    BY <1>1, <1>10, <2>4 DEF Queued, AtFence, Handling, r
  <2>8. Hands'
    BY <1>1, <1>10, <2>7 DEF Inv, Hands
  <2>9. JobsFit' /\ Asked' /\ Cards' /\ NoReceiptElsewhere' /\ ReportKept'
    <3>1. JobsFit' /\ ReportKept'
      BY <1>1, <1>10 DEF Inv, JobsFit, ReportKept
    <3>2. Asked' /\ Cards' /\ NoReceiptElsewhere'
      <4>1. UNCHANGED <<card, provider, told, mark, stop, gen, stamp>>
        BY <1>1, <1>10
      <4>2. mem'.shown = mem.shown /\ mem'.receipt = mem.receipt
        BY <2>2
      <4>3. Asked'
        BY <4>1 DEF Inv, Asked
      <4>4. Cards'
        BY <4>1, <4>2 DEF Inv, Cards
      <4>5. NoReceiptElsewhere'
        BY <4>1, <4>2 DEF Inv, NoReceiptElsewhere
      <4> QED BY <4>3, <4>4, <4>5
    <3> QED BY <3>1, <3>2
  <2>10. Saved'
    <3>1. CopyFits(mem)' /\ CopyFits(disk)' /\ (image # NoImage => CopyFits(image)')
      BY <1>1, <1>10, <2>2 DEF Inv, Saved, Copies, CopyFits
    <3> QED BY <1>1, <3>1 DEF Saved, Copies, CopyFits
  <2>11. RunFits' /\ Truth'
    <3>1. RunFits'
      BY <2>1, <2>2, <2>4 DEF RunFits
    <3>2. Truth'
      BY <1>1, <1>10, <2>2 DEF Inv, Truth
    <3> QED BY <3>1, <3>2
  <2>12. UsesFit'
    <3>1. Used' = Used
      BY <1>10, <2>7 DEF Used
    <3>2. \A k \in Requests : ~Using(k) /\ (Using(k)' <=> k = q)
      BY <1>1, <2>4 DEF Using
    <3> SUFFICES ASSUME crashes = 0, NEW k \in Requests
                 PROVE  /\ mem'.uses[k] <= Cardinality(Used) + (IF Using(k)' THEN 1 ELSE 0)
                        /\ mem'.uses[k] > 0 => told[k] = "person"
      BY <1>1, <1>10, <3>1 DEF UsesFit
    <3>3. mem.uses[k] <= Cardinality(Used) /\ (mem.uses[k] > 0 => told[k] = "person")
      BY <3>2, UsedFinite DEF Inv, UsesFit
    <3> QED BY <2>1, <2>2, <3>2, <3>3, UsedFinite
  <2> QED BY <2>5, <2>6, <2>8, <2>9, <2>10, <2>11, <2>12 DEF Inv
<1>11. CASE /\ Admitted(r)
            /\ card' = [card EXCEPT ![r] = <<target[r]>>]
            /\ mem' = [mem EXCEPT !.shown = @ \cup {r}]
            /\ run' = flushed /\ tail' = Persisted({"lane"})
            /\ UNCHANGED <<provider, told, fenced>>
  <2>0. r \in Requests
    BY <1>2 DEF r
  <2>1. /\ card' \in [Requests -> Seq(Nat)] /\ card'[r] # <<>>
        /\ \A q \in Requests : q # r => card'[q] = card[q]
    <3>1. card \in [Requests -> Seq(Nat)] /\ <<target[r]>> \in Seq(Nat) /\ <<target[r]>> # <<>>
      BY <2>0 DEF Inv, TypeOK
    <3> QED BY <1>11, <2>0, <3>1
  <2>2. /\ mem' \in Images /\ mem'.shown = mem.shown \cup {r}
        /\ mem'.receipt = mem.receipt /\ mem'.rule = mem.rule /\ mem'.uses = mem.uses
    <3>1. mem \in Images /\ mem' = [mem EXCEPT !.shown = @ \cup {r}]
      BY <1>11 DEF Inv, TypeOK
    <3> QED BY <2>0, <3>1 DEF Images
  <2>3. run' \in Handlers /\ run'.kind = "request" /\ run'.step = "flush"
    BY <1>4, <1>11
  <2>4. tail' \in Seq(Writes) /\ Lanes' /\ ImageFits'
    BY <1>1, <1>5, <1>6, <1>11, LanesPersisted
  <2>5. TypeOK'
    BY <1>1, <1>11, <2>1, <2>2, <2>3, <2>4 DEF Inv, TypeOK
  <2>6. /\ \A q \in Requests : (Queued(q)' <=> Queued(q)) /\ (AtFence(q)' <=> AtFence(q)) /\ ~Handling(q)'
        /\ \A q \in Requests : q # r => ~Handling(q)
    BY <1>1, <1>11, <2>3 DEF Queued, AtFence, Handling, r
  <2>7. Hands'
    <3>1. \A q \in Requests : Queued(q)' \/ AtFence(q)' => q # r /\ provider'[q] # "unasked" /\ told'[q] = "none" /\ card'[q] = <<>>
      BY <1>3, <1>11, <2>1, <2>6 DEF Inv, Hands
    <3> QED BY <1>1, <1>11, <2>6, <3>1 DEF Inv, Hands
  <2>8. JobsFit' /\ ReportKept'
    <3>1. \A k \in Range(queue) : k.req \in Requests
      BY JobsTyped DEF Inv, TypeOK
    <3> QED BY <1>1, <1>11, <2>1, <3>1 DEF Inv, JobsFit, ReportKept
  <2>9. Asked' /\ NoReceiptElsewhere' /\ Truth' /\ RunFits'
    <3>1. Asked'
      BY <1>3, <1>11, <2>1 DEF Inv, Asked
    <3>2. NoReceiptElsewhere' /\ Truth'
      BY <1>1, <1>11, <2>2 DEF Inv, NoReceiptElsewhere, Truth
    <3> QED BY <2>3, <3>1, <3>2 DEF RunFits
  <2>10. Cards'
    <3>1. mem.receipt[r] = "none"
      BY <1>3, <2>0 DEF Inv, Saved, Copies, CopyFits
    <3>2. stop = "none" /\ stamp[r] = [gen |-> gen, during |-> FALSE]
      <4>1. stamp[r] \in [gen : Nat, during : BOOLEAN]
        BY <2>0 DEF Inv, TypeOK
      <4>2. ~stamp[r].during /\ stamp[r].gen = gen /\ stop = "none"
        BY <1>11 DEF Admitted, StopOvertook
      <4> QED BY <4>1, <4>2
    <3>3. \A q \in mem.shown : q \in Requests /\ q # r
      BY <1>3, ShownTyped
    <3>4. stamp' = stamp /\ gen' = gen /\ stop' = stop /\ told' = told
      BY <1>1, <1>11
    <3>5. \A q \in mem'.shown : q = r \/ (q \in mem.shown /\ q \in Requests /\ card'[q] = card[q])
      BY <2>1, <2>2, <3>3
    <3> QED BY <1>1, <1>3, <2>1, <2>2, <3>1, <3>2, <3>4, <3>5 DEF Inv, Cards
  <2>11. Saved'
    <3>1. CopyFits(mem)' /\ CopyFits(disk)' /\ (image # NoImage => CopyFits(image)')
      BY <1>1, <1>11, <2>0, <2>1, <2>2 DEF Inv, Saved, Copies, CopyFits
    <3> QED BY <1>1, <3>1 DEF Saved, Copies, CopyFits
  <2>12. UsesFit'
    <3>1. Used \subseteq Used'
      BY <1>11, <2>6 DEF Used
    <3>2. \A q \in Requests : ~Using(q)
      BY <1>1 DEF Using
    <3> QED BY <1>1, <1>11, <2>2, <3>1, <3>2, UsesGrow
  <2> QED BY <2>4, <2>5, <2>7, <2>8, <2>9, <2>10, <2>11, <2>12 DEF Inv
<1> QED BY <1>7, <1>8, <1>9, <1>10, <1>11

---------------------------------------------------------------------------
(* The handler of a decision *)

LEMMA LanesSaving ==
  ASSUME Inv, \A kind : ~Waits(run, kind), NEW kind \in {"decide", "stage", "promote"},
         Waits(run', kind), tail' = Saving(tail, kind), image' = image
  PROVE  tail' \in Seq(Writes) /\ Lanes' /\ ImageFits'
<1>1. tail \in Seq(Writes) /\ NoLane(tail) /\ (tail # <<>> => Head(tail).kind = "persist")
  BY LanesFree DEF Inv, TypeOK
<1>2. tail' \in Seq(Writes) /\ LanesFit(tail', run') /\ tail' # <<>>
  BY <1>1, LaneSaving
<1>3. tail # <<>> => Head(tail') = Head(tail)
  <2> DEFINE w == [kind |-> kind, for |-> {"lane"}]
  <2>1. tail' = Append(tail, w)
    BY DEF Saving
  <2> HIDE DEF w
  <2> QED BY <1>1, <2>1
<1>4. image # NoImage => tail # <<>>
  BY DEF Inv, Lanes
<1> QED BY <1>1, <1>2, <1>3, <1>4 DEF Lanes, ImageFits

LEMMA ResolveRuns ==
  ASSUME Inv, run.kind = "resolve"
  PROVE  /\ run.req \in Requests /\ run.verdict \in Verdicts /\ run.rev \in Nat /\ run.gen \in Nat
         /\ run.aborted \in BOOLEAN /\ run.read \in Nat
         /\ run.step \in {"settling", "rewriting", "checkpoint", "deciding", "staging", "promoting", "undoing"}
         /\ run = [kind |-> "resolve", req |-> run.req, verdict |-> run.verdict, rev |-> run.rev,
                   step |-> run.step, gen |-> run.gen, aborted |-> run.aborted, read |-> run.read]
BY DEF Inv, TypeOK, Handlers, Idle

(* The running decision at another step.                                     *)
At(s, v) == [kind |-> "resolve", req |-> run.req, verdict |-> run.verdict, rev |-> run.rev,
             step |-> s, gen |-> run.gen, aborted |-> run.aborted, read |-> v]

LEMMA AtIs ==
  ASSUME Inv, run.kind = "resolve",
         NEW s \in {"settling", "rewriting", "checkpoint", "deciding", "staging", "promoting", "undoing"},
         NEW v \in Nat
  PROVE  /\ At(s, v) \in Handlers /\ At(s, v).kind = "resolve" /\ At(s, v).step = s /\ At(s, v).read = v
         /\ At(s, v).req = run.req /\ At(s, v).verdict = run.verdict /\ At(s, v).rev = run.rev
         /\ At(s, v).gen = run.gen /\ At(s, v).aborted = run.aborted
BY ResolveRuns DEF Handlers, At

LEMMA Stepped ==
  ASSUME Inv, run.kind = "resolve", NEW s, NEW v
  PROVE  /\ [run EXCEPT !.step = s, !.read = v] = At(s, v)
         /\ [run EXCEPT !.step = s] = At(s, run.read)
<1> DEFINE a == run.req
<1> DEFINE b == run.verdict
<1> DEFINE c == run.rev
<1> DEFINE d == run.step
<1> DEFINE e == run.gen
<1> DEFINE f == run.aborted
<1> DEFINE g == run.read
<1>1. run = [kind |-> "resolve", req |-> a, verdict |-> b, rev |-> c, step |-> d, gen |-> e,
             aborted |-> f, read |-> g]
  BY ResolveRuns
<1> HIDE DEF a, b, c, d, e, f, g
<1> DEFINE x == [run EXCEPT !.step = s]
<1>2. x = [kind |-> "resolve", req |-> a, verdict |-> b, rev |-> c, step |-> s, gen |-> e,
           aborted |-> f, read |-> g]
  BY <1>1
<1>3. [run EXCEPT !.step = s, !.read = v] = [x EXCEPT !.read = v]
  OBVIOUS
<1> HIDE DEF x
<1>4. [x EXCEPT !.read = v] = [kind |-> "resolve", req |-> a, verdict |-> b, rev |-> c, step |-> s, gen |-> e,
                               aborted |-> f, read |-> v]
  BY <1>2
<1> QED BY <1>2, <1>3, <1>4 DEF At, a, b, c, d, e, f, g, x

LEMMA AppendGrows ==
  ASSUME NEW T, NEW s \in Seq(T), NEW x \in T
  PROVE  Append(s, x) \in Seq(T) /\ Append(s, x) # <<>>
<1>1. Append(s, x) \in Seq(T) /\ Len(Append(s, x)) = Len(s) + 1 /\ Len(s) \in Nat
  OBVIOUS
<1> QED BY <1>1

LEMMA SavedKept ==
  ASSUME Inv, UNCHANGED <<mem, disk, image>>,
         \A q \in Requests : /\ told'[q] = "person" <=> told[q] = "person"
                             /\ card'[q] = <<>> <=> card[q] = <<>>
  PROVE  Saved'
BY DEF Inv, Saved, Copies, CopyFits

(* Outside the handlers of requests, a step that answers nobody keeps what   *)
(* is in hand, the cards and the counts.                                     *)
LEMMA DecisionKept ==
  ASSUME Inv, UNCHANGED <<provider, told, stamp, mark, noted, fenced, stop, gen, later, crashes>>,
         mem'.shown = mem.shown, mem'.receipt = mem.receipt, mem'.uses = mem.uses,
         run.kind # "request", run'.kind # "request",
         run.kind = "resolve" => run.step # "staging",
         \A q \in Requests : card'[q] = <<>> <=> card[q] = <<>>,
         Distinct(queue'), \A k \in Range(queue') : k \in Range(queue),
         \A k \in Range(queue) : k.kind # "resolve" => k \in Range(queue')
  PROVE  /\ Hands' /\ JobsFit' /\ Asked' /\ Cards' /\ Truth' /\ NoReceiptElsewhere'
         /\ UsesFit' /\ ReportKept'
<1>1. \A q \in Requests : /\ Queued(q)' <=> Queued(q)
                          /\ AtFence(q)' <=> AtFence(q)
                          /\ ~Handling(q) /\ ~Handling(q)' /\ ~Using(q)
  BY DEF Queued, AtFence, Handling, Using
<1>2. Hands'
  BY <1>1 DEF Inv, Hands
<1>3. JobsFit'
  <2>1. \A k \in Range(queue') : k.req \in Requests
    BY JobsTyped DEF Inv, TypeOK
  <2> QED BY <2>1 DEF Inv, JobsFit
<1>4. Asked' /\ Cards'
  BY ShownTyped DEF Inv, Asked, Cards
<1>5. Truth' /\ NoReceiptElsewhere'
  BY DEF Inv, Truth, NoReceiptElsewhere
<1>6. UsesFit'
  <2>1. Used \subseteq Used'
    BY <1>1 DEF Used
  <2> QED BY <1>1, <2>1, UsesGrow
<1>7. ReportKept'
  BY DEF Inv, ReportKept
<1> QED BY <1>2, <1>3, <1>4, <1>5, <1>6, <1>7

LEMMA BeginResolveStep ==
  ASSUME Inv, BeginResolve
  PROVE  Inv'
<1> DEFINE j == Head(queue)
<1> DEFINE began(step) == [kind |-> "resolve", req |-> j.req, verdict |-> j.verdict,
                           rev |-> j.rev, step |-> step, gen |-> gen,
                           aborted |-> FALSE, read |-> 0]
<1>1. /\ UNCHANGED <<provider, told, card, mem, mark, fenced, target, noted, turn, blocked, fence, stop, gen,
                     later, disk, image, failures, faults, swaps, decisions, crashes, stamp>>
      /\ run = Idle /\ queue # <<>> /\ j.kind = "resolve" /\ queue' = Tail(queue)
  BY DEF BeginResolve, quiet, countVars
<1>2. /\ j \in Jobs /\ j.req \in Requests /\ queue' \in Seq(Jobs)
      /\ Range(queue) = Range(queue') \cup {j} /\ Distinct(queue')
  BY <1>1, Popped
<1>3. j.verdict \in Verdicts /\ j.rev \in Nat
  BY <1>1, <1>2 DEF Jobs
<1>4. card[j.req] # <<>>
  BY <1>1, <1>2 DEF Inv, JobsFit
<1>5. \/ run' = Idle /\ tail' = tail
      \/ j.verdict \in Allows /\ j.rev = Len(card[j.req]) /\ run' = began("settling") /\ tail' = tail
      \/ j.verdict \notin Allows /\ run' = began("deciding") /\ tail' = Saving(tail, "decide")
  BY <1>1 DEF BeginResolve, Allows
<1>6. gen \in Nat
  BY ConstantsTyped DEF Inv, TypeOK
<1>7. \A s \in {"settling", "deciding"} :
         /\ began(s) \in Handlers /\ began(s).kind = "resolve" /\ began(s).req = j.req
         /\ began(s).verdict = j.verdict /\ began(s).rev = j.rev /\ began(s).step = s
  BY <1>2, <1>3, <1>6 DEF Handlers
<1> HIDE DEF j, began
<1>8. \A kind : ~Waits(run, kind)
  BY <1>1, IdleIs
<1>9. tail' \in Seq(Writes) /\ Lanes' /\ ImageFits' /\ run' \in Handlers /\ run'.kind # "request"
  <2>1. CASE tail' = tail
    <3>1. run' \in Handlers /\ run'.kind # "request"
      BY <1>5, <1>7, IdleIs
    <3> QED BY <1>1, <1>8, <2>1, <3>1, LanesOfFree DEF Inv, TypeOK
  <2>2. CASE run' = began("deciding") /\ tail' = Saving(tail, "decide")
    <3>1. Waits(run', "decide")
      BY <1>7, <2>2 DEF Waits
    <3> QED BY <1>1, <1>7, <1>8, <2>2, <3>1, LanesSaving
  <2> QED BY <1>5, <2>1, <2>2
<1>10. TypeOK'
  BY <1>1, <1>2, <1>9 DEF Inv, TypeOK
<1>11. /\ Hands' /\ JobsFit' /\ Asked' /\ Cards' /\ Truth' /\ NoReceiptElsewhere'
       /\ UsesFit' /\ ReportKept' /\ Saved'
  <2>1. run.kind # "request" /\ run.kind # "resolve"
    BY <1>1, IdleIs
  <2>2. \A k \in Range(queue) : k.kind # "resolve" => k \in Range(queue')
    BY <1>1, <1>2
  <2> QED BY <1>1, <1>2, <1>9, <2>1, <2>2, DecisionKept, SavedKept
<1>12. RunFits'
  BY <1>1, <1>4, <1>5, <1>7, IdleIs DEF RunFits
<1> QED BY <1>9, <1>10, <1>11, <1>12 DEF Inv

LEMMA SettleAllowStep ==
  ASSUME Inv, SettleAllow
  PROVE  Inv'
<1> DEFINE r == run.req
<1>1. /\ UNCHANGED <<provider, told, mem, mark, fenced, queue, target, noted, turn, blocked, fence, stop, gen,
                     later, disk, image, failures, faults, swaps, decisions, crashes, stamp>>
      /\ run.kind = "resolve" /\ run.step = "settling"
  BY DEF SettleAllow, quiet, countVars
<1>2. r \in Requests /\ run.verdict \in Allows /\ run.rev = Len(card[r]) /\ card[r] # <<>> /\ run.read \in Nat
  BY <1>1, ResolveRuns DEF Inv, RunFits
<1>3. \/ run' = Idle /\ UNCHANGED <<card, tail>>
      \/ /\ card' = [card EXCEPT ![r] = Append(@, target[r])]
         /\ run' = [run EXCEPT !.step = "rewriting"] /\ tail' = Persisted({"lane"})
      \/ /\ target[r] = Last(card[r])
         /\ run' = [run EXCEPT !.step = "checkpoint", !.read = target[r]] /\ UNCHANGED <<card, tail>>
  BY DEF SettleAllow, TargetUnchanged
<1>4. target[r] \in Nat /\ card \in [Requests -> Seq(Nat)] /\ card[r] \in Seq(Nat)
  BY <1>2 DEF Inv, TypeOK
<1>5. \A kind : ~Waits(run, kind)
  BY <1>1 DEF Waits
<1>6. /\ run' \in Handlers /\ run'.kind # "request" /\ tail' \in Seq(Writes) /\ Lanes' /\ ImageFits' /\ RunFits'
      /\ card' \in [Requests -> Seq(Nat)]
      /\ \A q \in Requests : card'[q] = <<>> <=> card[q] = <<>>
  <2>1. CASE run' = Idle /\ UNCHANGED <<card, tail>>
    <3>1. run' \in Handlers /\ run'.kind = "none"
      BY <2>1, IdleIs
    <3>2. Lanes' /\ ImageFits'
      BY <1>1, <1>5, <2>1, LanesOfFree
    <3>3. RunFits'
      BY <3>1 DEF RunFits
    <3> QED BY <2>1, <3>1, <3>2, <3>3 DEF Inv, TypeOK
  <2>2. CASE /\ card' = [card EXCEPT ![r] = Append(@, target[r])]
             /\ run' = [run EXCEPT !.step = "rewriting"] /\ tail' = Persisted({"lane"})
    <3>2. run' \in Handlers /\ run'.kind = "resolve" /\ run'.step = "rewriting" /\ run'.req = r
      <4>1. run' = At("rewriting", run.read)
        BY <1>1, <2>2, Stepped
      <4> QED BY <1>1, <1>2, <4>1, AtIs
    <3>3. /\ card' \in [Requests -> Seq(Nat)] /\ card'[r] # <<>>
          /\ \A q \in Requests : q # r => card'[q] = card[q]
      <4>1. Append(card[r], target[r]) \in Seq(Nat) /\ Append(card[r], target[r]) # <<>>
        BY <1>4, AppendGrows
      <4> QED BY <1>2, <1>4, <2>2, <4>1
    <3>4. Waits(run', "persist")
      BY <3>2 DEF Waits
    <3>5. tail' \in Seq(Writes) /\ Lanes' /\ ImageFits'
      BY <1>1, <1>5, <2>2, <3>4, LanesPersisted
    <3>6. RunFits'
      BY <3>2, <3>3 DEF RunFits
    <3> QED BY <1>2, <3>2, <3>3, <3>5, <3>6
  <2>3. CASE /\ target[r] = Last(card[r])
             /\ run' = [run EXCEPT !.step = "checkpoint", !.read = target[r]] /\ UNCHANGED <<card, tail>>
    <3>2. /\ run' \in Handlers /\ run'.kind = "resolve" /\ run'.step = "checkpoint" /\ run'.req = r
          /\ run'.read = target[r] /\ run'.rev = run.rev /\ run'.verdict = run.verdict
      <4>1. run' = At("checkpoint", target[r])
        BY <1>1, <2>3, Stepped
      <4> QED BY <1>1, <1>4, <4>1, AtIs
    <3>3. Lanes' /\ ImageFits'
      BY <1>1, <1>5, <2>3, LanesOfFree
    <3>4. RunFits'
      BY <1>2, <2>3, <3>2 DEF RunFits
    <3> QED BY <1>4, <2>3, <3>2, <3>3, <3>4 DEF Inv, TypeOK
  <2> QED BY <1>3, <2>1, <2>2, <2>3
<1>7. TypeOK'
  BY <1>1, <1>6 DEF Inv, TypeOK
<1>8. /\ Hands' /\ JobsFit' /\ Asked' /\ Cards' /\ Truth' /\ NoReceiptElsewhere'
      /\ UsesFit' /\ ReportKept' /\ Saved'
  <2>1. Distinct(queue')
    BY <1>1 DEF Inv, Hands
  <2> QED BY <1>1, <1>6, <2>1, DecisionKept, SavedKept
<1> QED BY <1>6, <1>7, <1>8 DEF Inv

LEMMA CheckpointStep ==
  ASSUME Inv, TakeCheckpoint
  PROVE  Inv'
<1>1. /\ UNCHANGED <<provider, told, stamp, card, mem, disk, mark, fenced, queue, target, noted, turn, blocked,
                     fence, stop, gen, later, image, failures, swaps, decisions, crashes>>
      /\ run.kind = "resolve" /\ run.step = "checkpoint"
      /\ \/ run' = Idle /\ tail' = tail
         \/ run' = [run EXCEPT !.step = "deciding"] /\ tail' = Saving(tail, "decide")
      /\ faults' = faults \/ (CanFail /\ faults' = faults + 1)
  BY DEF TakeCheckpoint, countVars
<1>2. faults' \in 0..MaxFaults
  BY <1>1, ConstantsTyped DEF Inv, TypeOK, CanFail
<1>3. /\ run.req \in Requests /\ run.rev = Len(card[run.req]) /\ run.read = Last(card[run.req])
      /\ card[run.req] # <<>> /\ run.read \in Nat
  BY <1>1, ResolveRuns DEF Inv, RunFits
<1>4. \A kind : ~Waits(run, kind)
  BY <1>1 DEF Waits
<1>5. run' \in Handlers /\ run'.kind # "request" /\ tail' \in Seq(Writes) /\ Lanes' /\ ImageFits' /\ RunFits'
  <2>1. CASE run' = Idle /\ tail' = tail
    <3>1. run' \in Handlers /\ run'.kind = "none"
      BY <2>1, IdleIs
    <3>2. Lanes' /\ ImageFits'
      BY <1>1, <1>4, <2>1, LanesOfFree
    <3>3. RunFits'
      BY <3>1 DEF RunFits
    <3> QED BY <2>1, <3>1, <3>2, <3>3 DEF Inv, TypeOK
  <2>2. CASE run' = [run EXCEPT !.step = "deciding"] /\ tail' = Saving(tail, "decide")
    <3>2. /\ run' \in Handlers /\ run'.kind = "resolve" /\ run'.step = "deciding" /\ run'.req = run.req
          /\ run'.rev = run.rev /\ run'.read = run.read
      <4>1. run' = At("deciding", run.read)
        BY <1>1, <2>2, Stepped
      <4> QED BY <1>1, <1>3, <4>1, AtIs
    <3>3. Waits(run', "decide")
      BY <3>2 DEF Waits
    <3>4. tail' \in Seq(Writes) /\ Lanes' /\ ImageFits'
      BY <1>1, <1>4, <2>2, <3>3, LanesSaving
    <3>5. RunFits'
      BY <1>1, <1>3, <3>2 DEF RunFits
    <3> QED BY <3>2, <3>4, <3>5
  <2> QED BY <1>1, <2>1, <2>2
<1>6. TypeOK'
  BY <1>1, <1>2, <1>5 DEF Inv, TypeOK
<1>7. /\ Hands' /\ JobsFit' /\ Asked' /\ Cards' /\ Truth' /\ NoReceiptElsewhere'
      /\ UsesFit' /\ ReportKept' /\ Saved'
  <2>1. Distinct(queue')
    BY <1>1 DEF Inv, Hands
  <2> QED BY <1>1, <1>5, <2>1, DecisionKept, SavedKept
<1> QED BY <1>5, <1>6, <1>7 DEF Inv

---------------------------------------------------------------------------
(* What a decision writes *)

LEMMA ShownIs ==
  ASSUME NEW m \in Images, NEW S
  PROVE  [m EXCEPT !.shown = S] = [shown |-> S, receipt |-> m.receipt, rule |-> m.rule, uses |-> m.uses]
BY DEF Images

LEMMA DecidedIs ==
  ASSUME NEW m \in Images, run.req \in Requests, run.verdict \in Verdicts
  PROVE  /\ Decided(m) \in Images /\ Decided(m).shown = m.shown \ {run.req}
         /\ Decided(m).receipt[run.req] = run.verdict
         /\ \A q \in Requests : q # run.req => Decided(m).receipt[q] = m.receipt[q]
         /\ Decided(m).rule = m.rule /\ Decided(m).uses = m.uses
<1>1. Decided(m) = [shown |-> m.shown \ {run.req}, receipt |-> [m.receipt EXCEPT ![run.req] = run.verdict],
                    rule |-> m.rule, uses |-> m.uses]
  <2> DEFINE x == [m EXCEPT !.shown = @ \ {run.req}]
  <2>1. x = [shown |-> m.shown \ {run.req}, receipt |-> m.receipt, rule |-> m.rule, uses |-> m.uses]
    BY DEF Images
  <2>2. Decided(m) = [x EXCEPT !.receipt[run.req] = run.verdict]
    BY DEF Decided
  <2> HIDE DEF x
  <2> QED BY <2>1, <2>2
<1> QED BY <1>1 DEF Images, Verdicts

LEMMA WithRuleIs ==
  ASSUME NEW m \in Images, run.req \in Requests, NEW s \in {"pending", "active"}
  PROVE  /\ WithRule(m, s) \in Images /\ WithRule(m, s).shown = m.shown
         /\ WithRule(m, s).receipt = m.receipt /\ WithRule(m, s).uses = m.uses
         /\ WithRule(m, s).rule[run.req] = s
         /\ \A q \in Requests : q # run.req => WithRule(m, s).rule[q] = m.rule[q]
<1>1. WithRule(m, s) = [shown |-> m.shown, receipt |-> m.receipt,
                        rule |-> [m.rule EXCEPT ![run.req] = s], uses |-> m.uses]
  BY DEF WithRule, Images
<1> QED BY <1>1 DEF Images

LEMMA WithdrawnIs ==
  ASSUME NEW m \in Images, run.req \in Requests
  PROVE  /\ Withdrawn(m) \in Images /\ Withdrawn(m).shown = m.shown /\ Withdrawn(m).uses = m.uses
         /\ Withdrawn(m).receipt[run.req] = "none" /\ Withdrawn(m).rule[run.req] = "none"
         /\ \A q \in Requests : q # run.req => /\ Withdrawn(m).receipt[q] = m.receipt[q]
                                               /\ Withdrawn(m).rule[q] = m.rule[q]
<1>1. Withdrawn(m) = [shown |-> m.shown, receipt |-> [m.receipt EXCEPT ![run.req] = "none"],
                      rule |-> [m.rule EXCEPT ![run.req] = "none"], uses |-> m.uses]
  <2> DEFINE x == [m EXCEPT !.receipt[run.req] = "none"]
  <2>1. x = [shown |-> m.shown, receipt |-> [m.receipt EXCEPT ![run.req] = "none"], rule |-> m.rule, uses |-> m.uses]
    BY DEF Images
  <2>2. Withdrawn(m) = [x EXCEPT !.rule[run.req] = "none"]
    BY DEF Withdrawn
  <2> HIDE DEF x
  <2> QED BY <2>1, <2>2
<1> QED BY <1>1 DEF Images

LEMMA UndoneIs ==
  ASSUME NEW m \in Images, run.req \in Requests
  PROVE  /\ Undone(m) \in Images /\ Undone(m).shown = m.shown \cup {run.req} /\ Undone(m).uses = m.uses
         /\ Undone(m).receipt[run.req] = "none" /\ Undone(m).rule[run.req] = "none"
         /\ \A q \in Requests : q # run.req => /\ Undone(m).receipt[q] = m.receipt[q]
                                               /\ Undone(m).rule[q] = m.rule[q]
<1> DEFINE w == Withdrawn(m)
<1>1. /\ w \in Images /\ w.shown = m.shown /\ w.uses = m.uses
      /\ w.receipt[run.req] = "none" /\ w.rule[run.req] = "none"
      /\ \A q \in Requests : q # run.req => w.receipt[q] = m.receipt[q] /\ w.rule[q] = m.rule[q]
  BY WithdrawnIs
<1>2. Undone(m) = [w EXCEPT !.shown = @ \cup {run.req}]
  BY DEF Undone
<1> HIDE DEF w
<1>3. Undone(m) = [shown |-> w.shown \cup {run.req}, receipt |-> w.receipt, rule |-> w.rule, uses |-> w.uses]
  BY <1>1, <1>2 DEF Images
<1> QED BY <1>1, <1>3 DEF Images

---------------------------------------------------------------------------
(* The saves *)

(* A save of a decision is at the head only while its handler waits for it.  *)
LEMMA HeadWaits ==
  ASSUME Inv, tail # <<>>
  PROVE  /\ tail \in Seq(Writes) /\ Tail(tail) \in Seq(Writes) /\ Head(tail) \in Writes /\ LanesFit(Tail(tail), run)
         /\ "lane" \in Head(tail).for => NoLane(Tail(tail)) /\ Waits(run, Head(tail).kind)
         /\ Head(tail).kind # "persist" =>
              "lane" \in Head(tail).for /\ run.kind = "resolve" /\ run.req \in Requests /\ run.verdict \in Verdicts
         /\ Head(tail).kind = "decide" => run.step = "deciding"
         /\ Head(tail).kind = "stage" => run.step = "staging"
         /\ Head(tail).kind = "promote" => run.step = "promoting"
<1>1. tail \in Seq(Writes) /\ LanesFit(tail, run)
  BY DEF Inv, TypeOK, Lanes
<1>2. /\ Tail(tail) \in Seq(Writes) /\ Head(tail) \in Writes /\ LanesFit(Tail(tail), run)
      /\ "lane" \in Head(tail).for => NoLane(Tail(tail)) /\ Waits(run, Head(tail).kind)
      /\ Head(tail).kind # "persist" => "lane" \in Head(tail).for
  BY <1>1, TailLanes
<1>3. Head(tail).kind \in {"persist", "decide", "stage", "promote"}
  BY <1>2 DEF Writes
<1>4. Head(tail).kind # "persist" => run.kind = "resolve"
  BY <1>2, <1>3 DEF Waits
<1>5. /\ Head(tail).kind = "decide" => run.step = "deciding"
      /\ Head(tail).kind = "stage" => run.step = "staging"
      /\ Head(tail).kind = "promote" => run.step = "promoting"
  BY <1>2, <1>3 DEF Waits
<1> QED BY <1>1, <1>2, <1>4, <1>5, ResolveRuns

LEMMA BeginSaveStep ==
  ASSUME Inv, BeginSave
  PROVE  Inv'
<1> DEFINE kind == Head(tail).kind
<1>1. /\ UNCHANGED <<provider, told, mem, disk, stop, failures, faults, stamp, target, card, mark, noted, turn,
                     blocked, fence, fenced, queue, gen, later, swaps, decisions, crashes>>
      /\ tail # <<>> /\ image = NoImage
  BY DEF BeginSave, rest, countVars
<1>2. \/ UNCHANGED <<tail, run>> /\ \/ kind = "persist" /\ image' = mem
                                    \/ kind = "decide" /\ StillPending /\ image' = Decided(mem)
                                    \/ kind = "stage" /\ image' = WithRule(mem, "pending")
                                    \/ kind = "promote" /\ image' = WithRule(mem, "active")
      \/ kind = "decide" /\ tail' = Tail(tail) /\ run' = Idle /\ image' = image
  BY DEF BeginSave
<1>3. mem \in Images
  BY DEF Inv, TypeOK
<1>4. /\ Tail(tail) \in Seq(Writes)
      /\ "lane" \in Head(tail).for => NoLane(Tail(tail))
      /\ kind # "persist" =>
           "lane" \in Head(tail).for /\ run.kind = "resolve" /\ run.req \in Requests /\ run.verdict \in Verdicts
      /\ kind = "decide" => run.step = "deciding"
      /\ kind = "stage" => run.step = "staging"
      /\ kind = "promote" => run.step = "promoting"
  BY <1>1, HeadWaits
<1> HIDE DEF kind
<1>5. CASE kind = "decide" /\ tail' = Tail(tail) /\ run' = Idle /\ image' = image
  <2>1. run' \in Handlers /\ run'.kind = "none" /\ run.kind = "resolve" /\ run.step = "deciding"
    BY <1>4, <1>5, IdleIs
  <2>2. tail' \in Seq(Writes) /\ LanesFit(tail', run')
    BY <1>4, <1>5, LanesOfNone
  <2>3. Lanes' /\ ImageFits'
    BY <1>1, <1>5, <2>2 DEF Lanes, ImageFits
  <2>4. TypeOK'
    BY <1>1, <1>5, <2>1, <2>2 DEF Inv, TypeOK
  <2>5. RunFits'
    BY <2>1 DEF RunFits
  <2>6. /\ Hands' /\ JobsFit' /\ Asked' /\ Cards' /\ Truth' /\ NoReceiptElsewhere'
        /\ UsesFit' /\ ReportKept' /\ Saved'
    <3>1. Distinct(queue')
      BY <1>1 DEF Inv, Hands
    <3> QED BY <1>1, <1>5, <2>1, <3>1, DecisionKept, SavedKept
  <2> QED BY <2>3, <2>4, <2>5, <2>6 DEF Inv
<1>6. CASE UNCHANGED <<tail, run>> /\ \/ kind = "persist" /\ image' = mem
                                      \/ kind = "decide" /\ StillPending /\ image' = Decided(mem)
                                      \/ kind = "stage" /\ image' = WithRule(mem, "pending")
                                      \/ kind = "promote" /\ image' = WithRule(mem, "active")
  <2>1. CopyFits(mem) /\ CopyFits(disk)
    BY DEF Inv, Saved, Copies
  <2>2. /\ image' \in Images /\ CopyFits(image')
        /\ kind = "decide" => image'.receipt[run.req] = run.verdict
        /\ kind = "stage" => image'.receipt[run.req] = "always-project"
    <3>1. CASE kind = "persist" /\ image' = mem
      BY <1>3, <2>1, <3>1 DEF CopyFits
    <3>2. CASE kind = "decide" /\ StillPending /\ image' = Decided(mem)
      <4>1. run.req \in Requests /\ run.verdict \in Verdicts /\ run.kind = "resolve"
        BY <1>4, <3>2
      <4>2. told[run.req] = "none" /\ card[run.req] # <<>>
        BY <3>2 DEF Inv, Cards, StillPending
      <4>3. /\ image' \in Images /\ image'.receipt[run.req] = run.verdict
            /\ \A q \in Requests : q # run.req => image'.receipt[q] = mem.receipt[q]
            /\ image'.rule = mem.rule
        BY <1>3, <3>2, <4>1, DecidedIs
      <4>4. CopyFits(image')
        BY <2>1, <4>2, <4>3 DEF CopyFits
      <4> QED BY <3>2, <4>3, <4>4
    <3>3. CASE kind = "stage" /\ image' = WithRule(mem, "pending")
      <4>1. run.req \in Requests /\ mem.receipt[run.req] = "always-project"
        BY <1>4, <3>3 DEF Inv, RunFits
      <4>2. /\ image' \in Images /\ image'.receipt = mem.receipt /\ image'.rule[run.req] = "pending"
            /\ \A q \in Requests : q # run.req => image'.rule[q] = mem.rule[q]
        BY <1>3, <3>3, <4>1, WithRuleIs
      <4>3. CopyFits(image')
        BY <2>1, <4>2 DEF CopyFits
      <4> QED BY <3>3, <4>1, <4>2, <4>3
    <3>4. CASE kind = "promote" /\ image' = WithRule(mem, "active")
      <4>1. run.req \in Requests /\ told[run.req] = "person"
        BY <1>4, <3>4 DEF Inv, RunFits
      <4>2. /\ image' \in Images /\ image'.receipt = mem.receipt /\ image'.rule[run.req] = "active"
            /\ \A q \in Requests : q # run.req => image'.rule[q] = mem.rule[q]
        BY <1>3, <3>4, <4>1, WithRuleIs
      <4>3. CopyFits(image')
        BY <2>1, <4>1, <4>2 DEF CopyFits
      <4> QED BY <3>4, <4>2, <4>3
    <3> QED BY <1>6, <3>1, <3>2, <3>3, <3>4
  <2>3. UNCHANGED <<tail, run>>
    BY <1>6
  <2>4. TypeOK'
    BY <1>1, <2>2, <2>3 DEF Inv, TypeOK
  <2>5. Lanes' /\ ImageFits'
    BY <1>1, <2>2, <2>3 DEF Inv, Lanes, ImageFits, kind
  <2>6. Hands' /\ UsesFit'
    BY <1>1, <2>3, HandsKept, UsesKept
  <2>7. JobsFit' /\ Asked' /\ Cards'
    BY <1>1 DEF Inv, JobsFit, Asked, Cards
  <2>8. Saved'
    BY <1>1, <2>1, <2>2 DEF Saved, Copies, CopyFits
  <2>9. RunFits' /\ Truth' /\ NoReceiptElsewhere' /\ ReportKept'
    BY <1>1, <2>3 DEF Inv, RunFits, Truth, NoReceiptElsewhere, ReportKept
  <2> QED BY <2>4, <2>5, <2>6, <2>7, <2>8, <2>9 DEF Inv
<1> QED BY <1>2, <1>5, <1>6

LEMMA SaveTyped ==
  ASSUME Inv, NEW ok \in BOOLEAN, NEW faulty \in BOOLEAN, SaveEnds(ok, faulty)
  PROVE  /\ image # NoImage /\ image \in Images /\ image' = NoImage /\ CopyFits(image)
         /\ disk' \in {disk, image} /\ (ok => disk' = image) /\ disk' \in Images
         /\ faults' \in 0..MaxFaults /\ failures' \in 0..FailureThreshold
         /\ tail # <<>>
<1>1. /\ image # NoImage /\ image' = NoImage
      /\ disk' \in {disk, image} /\ (ok => disk' = image)
      /\ failures' = 0 \/ failures' = IF failures = FailureThreshold THEN failures ELSE failures + 1
      /\ faults' = faults + (IF ok THEN 0 ELSE 1) + (IF faulty THEN 1 ELSE 0)
      /\ faults' + swaps + crashes <= MaxFaults
  BY DEF SaveEnds, Unavailable
<1>2. image \in Images /\ disk \in Images /\ CopyFits(image) /\ tail # <<>>
  BY <1>1 DEF Inv, TypeOK, Saved, Copies, Lanes
<1>3. faults' \in 0..MaxFaults
  <2>1. faults \in Nat /\ swaps \in Nat /\ crashes \in Nat /\ MaxFaults \in Nat
    BY ConstantsTyped DEF Inv, TypeOK
  <2> DEFINE a == IF ok THEN 0 ELSE 1
  <2> DEFINE b == IF faulty THEN 1 ELSE 0
  <2>2. a \in Nat /\ b \in Nat
    OBVIOUS
  <2>3. faults' = faults + a + b
    BY <1>1
  <2> HIDE DEF a, b
  <2> QED BY <1>1, <2>1, <2>2, <2>3
<1>4. failures' \in 0..FailureThreshold
  BY <1>1, ConstantsTyped DEF Inv, TypeOK
<1> QED BY <1>1, <1>2, <1>3, <1>4

(* The copies after a save: those that a crash could have loaded before.     *)
LEMMA SavedEnds ==
  ASSUME Inv, disk' \in {disk, image}, disk' # NoImage, image' = NoImage, CopyFits(mem)',
         \A q \in Requests : /\ card'[q] = <<>> <=> card[q] = <<>>
                             /\ told[q] = "person" => told'[q] = "person"
                             /\ told'[q] = "person" => told[q] = "person" \/ disk'.receipt[q] \in Allows
  PROVE  Saved'
<1>1. CopyFits(disk')
  BY DEF Inv, Saved, Copies
<1>2. CopyFits(disk)'
  BY <1>1 DEF CopyFits
<1> QED BY <1>2 DEF Saved, Copies, CopyFits

LEMMA EndPromoteStep ==
  ASSUME Inv, NEW ok \in BOOLEAN, EndPromote(ok)
  PROVE  Inv'
<1>1. /\ UNCHANGED <<provider, told, stop, stamp, target, card, mark, noted, turn, blocked, fence, fenced, queue,
                     gen, later, swaps, decisions, crashes>>
      /\ tail # <<>> /\ Head(tail).kind = "promote" /\ SaveEnds(ok, FALSE)
      /\ mem' = IF ok THEN WithRule(mem, "active") ELSE mem
      /\ run' = Idle /\ tail' = Tail(tail)
  BY DEF EndPromote, rest, countVars
<1>2. /\ image # NoImage /\ image \in Images /\ image' = NoImage
      /\ disk' \in {disk, image} /\ disk' \in Images
      /\ faults' \in 0..MaxFaults /\ failures' \in 0..FailureThreshold
  BY <1>1, SaveTyped
<1>3. /\ Tail(tail) \in Seq(Writes) /\ NoLane(Tail(tail))
      /\ run.kind = "resolve" /\ run.req \in Requests /\ run.step = "promoting"
  BY <1>1, HeadWaits
<1>4. told[run.req] = "person"
  BY <1>3 DEF Inv, RunFits
<1>5. mem \in Images /\ CopyFits(mem)
  BY DEF Inv, TypeOK, Saved, Copies
<1>6. /\ mem' \in Images /\ mem'.shown = mem.shown /\ mem'.receipt = mem.receipt /\ mem'.uses = mem.uses
      /\ \A q \in Requests : q # run.req => mem'.rule[q] = mem.rule[q]
  BY <1>1, <1>3, <1>5, WithRuleIs
<1>7. run' \in Handlers /\ run'.kind = "none"
  BY <1>1, IdleIs
<1>8. TypeOK'
  BY <1>1, <1>2, <1>3, <1>6, <1>7 DEF Inv, TypeOK
<1>9. Lanes' /\ ImageFits'
  BY <1>1, <1>2, <1>3, LanesOfNone DEF Lanes, ImageFits
<1>10. CopyFits(mem)'
  BY <1>1, <1>4, <1>5, <1>6 DEF CopyFits
<1>11. Saved'
  BY <1>1, <1>2, <1>10, NoImageIsNone, SavedEnds
<1>12. Hands' /\ JobsFit' /\ Asked' /\ Cards' /\ Truth' /\ NoReceiptElsewhere' /\ UsesFit' /\ ReportKept'
  <2>1. Distinct(queue')
    BY <1>1 DEF Inv, Hands
  <2> QED BY <1>1, <1>3, <1>6, <1>7, <2>1, DecisionKept
<1>13. RunFits'
  BY <1>7 DEF RunFits
<1> QED BY <1>8, <1>9, <1>11, <1>12, <1>13 DEF Inv

---------------------------------------------------------------------------
(* Reports of outside answers *)

LEMMA ForgetIs ==
  ASSUME NEW k \in [Requests -> {"none", "queued", "recorded"}], NEW S
  PROVE  /\ Forget(k, S) \in [Requests -> {"none", "queued", "recorded"}]
         /\ \A q \in Requests : /\ Forget(k, S)[q] # "none" => Forget(k, S)[q] = k[q]
                                /\ k[q] = "queued" => Forget(k, S)[q] = "queued"
BY DEF Forget

LEMMA HandleReportStep ==
  ASSUME Inv, HandleReport
  PROVE  Inv'
<1> DEFINE j == Head(queue)
<1> DEFINE recorded == IF j.had THEN [mark EXCEPT ![j.req] = "recorded"] ELSE mark
<1> DEFINE removed == IF ~blocked THEN mem.shown ELSE {}
<1> DEFINE kept == Forget(recorded, removed)
<1>1. /\ UNCHANGED <<provider, told, stamp, target, card, disk, blocked, fence, fenced, image, stop, gen, later,
                     failures, faults, swaps, decisions, crashes>>
      /\ run = Idle /\ queue # <<>> /\ j.kind = "report" /\ queue' = Tail(queue)
      /\ mem' = [mem EXCEPT !.shown = @ \ removed]
      /\ mark' = IF j.had /\ j.req \notin mem'.shown THEN [kept EXCEPT ![j.req] = "none"] ELSE kept
      /\ turn' = (turn /\ ~(~blocked)) /\ noted' = noted \cup {j.req}
      /\ run' = [kind |-> "report", step |-> "flush"] /\ tail' = Persisted({"lane"})
  BY DEF HandleReport, countVars
<1>2. /\ j \in Jobs /\ j.req \in Requests /\ queue' \in Seq(Jobs)
      /\ Range(queue) = Range(queue') \cup {j}
      /\ Distinct(queue') /\ Distinct(later')
      /\ \A k \in Range(queue') : ~SameKey(j, k)
      /\ \A k \in Range(later') : k.kind = "report" /\ \A i \in Range(queue') : ~SameKey(k, i)
  BY <1>1, Popped
<1>3. /\ mem' \in Images /\ mem'.shown \subseteq mem.shown
      /\ mem'.receipt = mem.receipt /\ mem'.rule = mem.rule /\ mem'.uses = mem.uses
  BY <1>1 DEF Inv, TypeOK, Images
<1>4. /\ mark' \in [Requests -> {"none", "queued", "recorded"}]
      /\ \A q \in Requests : /\ mark'[q] # "none" => mark[q] # "none" \/ (q = j.req /\ j.had)
                             /\ mark[q] = "queued" /\ q # j.req => mark'[q] = "queued"
  <2>1. mark \in [Requests -> {"none", "queued", "recorded"}]
    BY DEF Inv, TypeOK
  <2>2. /\ recorded \in [Requests -> {"none", "queued", "recorded"}]
        /\ \A q \in Requests : /\ recorded[q] = mark[q] \/ (q = j.req /\ j.had)
                               /\ q # j.req => recorded[q] = mark[q]
    BY <1>2, <2>1
  <2> HIDE DEF recorded
  <2>3. /\ kept \in [Requests -> {"none", "queued", "recorded"}]
        /\ \A q \in Requests : /\ kept[q] # "none" => kept[q] = recorded[q]
                               /\ recorded[q] = "queued" => kept[q] = "queued"
    BY <2>2, ForgetIs
  <2> HIDE DEF kept, removed, j
  <2>4. \/ mark' = kept
        \/ mark' = [kept EXCEPT ![j.req] = "none"]
    BY <1>1
  <2>5. /\ mark' \in [Requests -> {"none", "queued", "recorded"}]
        /\ \A q \in Requests : /\ mark'[q] # "none" => mark'[q] = kept[q]
                               /\ q # j.req => mark'[q] = kept[q]
    BY <1>2, <2>3, <2>4
  <2> QED BY <2>1, <2>2, <2>3, <2>5
<1>5. provider[j.req] = "elsewhere" /\ (j.had => mark[j.req] = "queued")
  BY <1>1, <1>2 DEF Inv, JobsFit
<1>6. run' \in Handlers /\ run'.kind = "report" /\ run'.step = "flush"
  BY <1>1 DEF Handlers
<1> HIDE DEF recorded, removed, kept, j
<1>7. tail' \in Seq(Writes) /\ Lanes' /\ ImageFits'
  <2>1. Waits(run', "persist")
    BY <1>6 DEF Waits
  <2>2. \A kind : ~Waits(run, kind)
    BY <1>1, IdleIs
  <2> QED BY <1>1, <2>1, <2>2, LanesPersisted
<1>8. TypeOK'
  <2>1. turn' \in BOOLEAN /\ noted' \subseteq Requests
    BY <1>1, <1>2 DEF Inv, TypeOK
  <2>2. {turn', blocked', fence'} \subseteq BOOLEAN
    BY <1>1, <2>1 DEF Inv, TypeOK
  <2> QED BY <1>1, <1>2, <1>3, <1>4, <1>6, <1>7, <2>1, <2>2 DEF Inv, TypeOK
<1>9. \A q \in Requests : /\ Queued(q)' <=> Queued(q)
                          /\ AtFence(q)' <=> AtFence(q)
                          /\ ~Handling(q) /\ ~Handling(q)' /\ ~Using(q)
  BY <1>1, <1>2, <1>6, IdleIs DEF Queued, AtFence, Handling, Using
<1>10. Hands'
  BY <1>1, <1>2, <1>9 DEF Inv, Hands
<1>11. JobsFit'
  <2>1. \A k \in Range(queue') \cup Range(later') : k.req \in Requests /\ (k.kind = "report" => k.req # j.req)
    <3>1. \A k \in Range(queue') \cup Range(later') : k.req \in Requests
      BY <1>1, <1>2, JobsTyped DEF Inv, TypeOK
    <3>2. \A k \in Range(later) : k.kind = "report" /\ ~SameKey(k, j)
      BY <1>2 DEF Inv, Hands
    <3> QED BY <1>1, <1>2, <3>1, <3>2 DEF SameKey
  <2>2. ASSUME NEW k \in Range(queue') \cup Range(later'), k.kind = "report"
        PROVE  provider'[k.req] = "elsewhere" /\ (k.had => mark'[k.req] = "queued")
    <3>1. k \in Range(queue) \cup Range(later)
      BY <1>1, <1>2
    <3>2. provider[k.req] = "elsewhere" /\ (k.had => mark[k.req] = "queued")
      BY <2>2, <3>1 DEF Inv, JobsFit
    <3> QED BY <1>1, <1>4, <2>1, <2>2, <3>2
  <2>3. \A k \in Range(queue') : k.kind = "resolve" => card'[k.req] # <<>>
    BY <1>1, <1>2 DEF Inv, JobsFit
  <2> QED BY <2>2, <2>3 DEF JobsFit
<1>0. UNCHANGED <<provider, told, stamp, card, disk, image, stop, gen>>
  BY <1>1
<1>12. Asked' /\ Cards' /\ RunFits'
  <2>1. Asked'
    BY <1>0 DEF Inv, Asked
  <2>2. Cards'
    BY <1>0, <1>3 DEF Inv, Cards
  <2> QED BY <1>6, <2>1, <2>2 DEF RunFits
<1>13. Saved'
  <2>1. CopyFits(mem)' /\ CopyFits(disk)' /\ (image # NoImage => CopyFits(image)')
    <3>1. CopyFits(mem) /\ CopyFits(disk) /\ (image # NoImage => CopyFits(image))
      BY DEF Inv, Saved, Copies
    <3> QED BY <1>0, <1>3, <3>1 DEF CopyFits
  <2> QED BY <1>0, <2>1 DEF Saved, Copies, CopyFits
<1>14. NoReceiptElsewhere'
  BY <1>3, <1>4, <1>5 DEF Inv, NoReceiptElsewhere
<1>15. Truth'
  <2>1. run.kind # "resolve"
    BY <1>1, IdleIs
  <2> QED BY <1>1, <1>3, <2>1 DEF Inv, Truth
<1>16. UsesFit'
  <2>1. Used \subseteq Used'
    BY <1>1, <1>9 DEF Used
  <2> QED BY <1>1, <1>3, <1>9, <2>1, UsesGrow
<1>17. ReportKept'
  BY <1>1, <1>2 DEF Inv, ReportKept
<1> QED BY <1>7, <1>8, <1>10, <1>11, <1>12, <1>13, <1>14, <1>15, <1>16, <1>17 DEF Inv

---------------------------------------------------------------------------
(* Disconnection, and the end of a turn by a stop *)

(* The provider lets go of some of what it waits on.                         *)
LEMMA DroppedIs ==
  ASSUME Inv, provider' = [r \in Requests |-> IF provider[r] = "waiting" THEN "dropped" ELSE provider[r]] \/ provider' = provider,
         told' = told
  PROVE  /\ Softly
         /\ provider' \in [Requests -> {"unasked", "waiting", "answered", "elsewhere", "dropped"}]
         /\ \A q \in Requests : provider[q] # "waiting" => provider'[q] = provider[q]
<1>1. /\ provider' \in [Requests -> {"unasked", "waiting", "answered", "elsewhere", "dropped"}]
      /\ \A q \in Requests : provider[q] # "waiting" => provider'[q] = provider[q]
      /\ \A q \in Requests : provider[q] = "waiting" => provider'[q] \in {"waiting", "dropped"}
  BY DEF Inv, TypeOK
<1>2. Softly
  BY <1>1 DEF Softly, Inv, Asked
<1> QED BY <1>1, <1>2

LEMMA DisconnectStep ==
  ASSUME Inv, Disconnect
  PROVE  Inv'
<1>1. /\ UNCHANGED <<told, stamp, card, disk, noted, tail, image, stop, gen, later, failures, faults, crashes,
                     decisions, target, blocked, fence, fenced, queue, run, swaps>>
      /\ turn' = FALSE /\ mark' = Forget(mark, mem.shown)
      /\ provider' = [r \in Requests |-> IF provider[r] = "waiting" THEN "dropped" ELSE provider[r]]
      /\ run = Idle /\ queue = <<>>
  BY DEF Disconnect
<1>2. /\ Softly
      /\ provider' \in [Requests -> {"unasked", "waiting", "answered", "elsewhere", "dropped"}]
      /\ \A q \in Requests : provider[q] # "waiting" => provider'[q] = provider[q]
  BY <1>1, DroppedIs
<1>3. /\ mem' \in Images /\ mem'.shown = {}
      /\ mem'.receipt = mem.receipt /\ mem'.rule = mem.rule /\ mem'.uses = mem.uses
  <2>1. mem' = [mem EXCEPT !.shown = {}]
    BY DEF Disconnect
  <2> QED BY <2>1 DEF Inv, TypeOK, Images
<1>4. /\ mark' \in [Requests -> {"none", "queued", "recorded"}]
      /\ \A q \in Requests : /\ mark'[q] # "none" => mark'[q] = mark[q]
                             /\ mark[q] = "queued" => mark'[q] = "queued"
  <2>1. mark \in [Requests -> {"none", "queued", "recorded"}] /\ mark' = Forget(mark, mem.shown)
    BY <1>1 DEF Inv, TypeOK
  <2> QED BY <2>1, ForgetIs
<1>0. UNCHANGED <<told, stamp, card, disk, noted, image, stop, gen, later, crashes, fenced, queue, run>>
  BY <1>1
<1>5. TypeOK'
  <2>1. {turn', blocked', fence'} \subseteq BOOLEAN
    BY <1>1 DEF Inv, TypeOK
  <2> QED BY <1>1, <1>2, <1>3, <1>4, <2>1 DEF Inv, TypeOK
<1>6. Lanes' /\ ImageFits'
  BY <1>1, LanesKept
<1>7. \A q \in Requests : /\ Queued(q)' <=> Queued(q)
                          /\ AtFence(q)' <=> AtFence(q)
                          /\ Handling(q)' <=> Handling(q)
                          /\ Using(q)' <=> Using(q)
  BY <1>0 DEF Queued, AtFence, Handling, Using
<1>8. Hands'
  BY <1>0, <1>2, <1>7 DEF Inv, Hands, Softly
<1>9. JobsFit'
  <2>1. \A k \in Range(queue) \cup Range(later) : k.req \in Requests
    BY JobsTyped DEF Inv, TypeOK
  <2>2. ASSUME NEW k \in Range(queue') \cup Range(later'), k.kind = "report"
        PROVE  provider'[k.req] = "elsewhere" /\ (k.had => mark'[k.req] = "queued")
    <3>1. provider[k.req] = "elsewhere" /\ (k.had => mark[k.req] = "queued") /\ k.req \in Requests
      BY <1>0, <2>1, <2>2 DEF Inv, JobsFit
    <3> QED BY <1>2, <1>4, <3>1
  <2> QED BY <1>0, <2>2 DEF Inv, JobsFit
<1>10. Asked' /\ Cards' /\ RunFits'
  <2>1. Asked'
    BY <1>0, <1>2 DEF Inv, Asked, Softly
  <2>2. run'.kind = "none"
    BY <1>1, IdleIs
  <2> QED BY <1>3, <2>1, <2>2 DEF Cards, RunFits
<1>11. Saved'
  <2>1. CopyFits(mem) /\ CopyFits(disk) /\ (image # NoImage => CopyFits(image))
    BY DEF Inv, Saved, Copies
  <2>2. CopyFits(mem)' /\ CopyFits(disk)' /\ (image # NoImage => CopyFits(image)')
    BY <1>0, <1>3, <2>1 DEF CopyFits
  <2> QED BY <1>0, <2>2 DEF Saved, Copies, CopyFits
<1>12. Truth' /\ NoReceiptElsewhere'
  BY <1>0, <1>3, <1>4 DEF Inv, Truth, NoReceiptElsewhere
<1>13. UsesFit'
  <2>1. Used \subseteq Used'
    BY <1>0, <1>2, <1>7 DEF Used
  <2> QED BY <1>0, <1>3, <1>7, <2>1, UsesGrow
<1>14. ReportKept'
  BY <1>0, <1>2, ReportsKept
<1> QED BY <1>5, <1>6, <1>8, <1>9, <1>10, <1>11, <1>12, <1>13, <1>14 DEF Inv

LEMMA InterruptStep ==
  ASSUME Inv, Interrupt
  PROVE  Inv'
<1>1. /\ UNCHANGED <<told, stamp, target, card, mem, disk, mark, noted, blocked, fence, fenced, queue, run, image,
                     gen, later, failures, swaps, decisions, crashes>>
      /\ stop = "interrupting" /\ stop' = "saving" /\ turn' = FALSE
      /\ tail' = Persisted({"stop"})
      /\ \/ provider' = [r \in Requests |-> IF provider[r] = "waiting" THEN "dropped" ELSE provider[r]]
         \/ provider' = provider
      /\ faults' = faults \/ (CanFail /\ faults' = faults + 1)
  BY DEF Interrupt, countVars
<1>2. /\ Softly
      /\ provider' \in [Requests -> {"unasked", "waiting", "answered", "elsewhere", "dropped"}]
      /\ \A q \in Requests : provider[q] # "waiting" => provider'[q] = provider[q]
  BY <1>1, DroppedIs
<1>3. faults' \in 0..MaxFaults
  BY <1>1, ConstantsTyped DEF Inv, TypeOK, CanFail
<1>4. tail' \in Seq(Writes) /\ Lanes' /\ ImageFits'
  <2> DEFINE first == IF image = NoImage THEN 1 ELSE 2
  <2>1. tail \in Seq(Writes) /\ LanesFit(tail, run) /\ (image # NoImage => tail # <<>>)
    BY DEF Inv, TypeOK, Lanes
  <2>2. tail' = Shared(tail, first, {"stop"})
    BY <1>1 DEF Persisted
  <2>3. first \in {1, 2} /\ {"stop"} \in SUBSET {"stop"} /\ {"stop"} \in SUBSET {"lane", "stop"}
    OBVIOUS
  <2> HIDE DEF first
  <2>4. tail' \in Seq(Writes)
    BY <2>1, <2>2, <2>3, SharedFacts
  <2>5. LanesFit(tail', run')
    BY <1>1, <2>1, <2>2, <2>3, OtherShared
  <2>6. tail' # <<>> /\ (tail # <<>> => Head(tail').kind = Head(tail).kind)
    BY <2>1, <2>2, <2>3, SharedHead
  <2> QED BY <1>1, <2>1, <2>4, <2>5, <2>6 DEF Inv, Lanes, ImageFits
<1>5. TypeOK'
  <2>1. {turn', blocked', fence'} \subseteq BOOLEAN
    BY <1>1 DEF Inv, TypeOK
  <2> QED BY <1>1, <1>2, <1>3, <1>4, <2>1 DEF Inv, TypeOK
<1>7. \A q \in Requests : /\ Queued(q)' <=> Queued(q)
                          /\ AtFence(q)' <=> AtFence(q)
                          /\ Handling(q)' <=> Handling(q)
                          /\ Using(q)' <=> Using(q)
  BY <1>1 DEF Queued, AtFence, Handling, Using
<1>8. Hands'
  BY <1>1, <1>2, <1>7 DEF Inv, Hands, Softly
<1>9. JobsFit'
  BY <1>1, <1>2, JobsKept
<1>10. Asked' /\ Cards' /\ Saved' /\ NoReceiptElsewhere'
  <2>1. Asked'
    BY <1>1, <1>2 DEF Inv, Asked, Softly
  <2>2. mem'.shown = {}
    BY <1>1 DEF Inv, Cards
  <2>3. Saved' /\ NoReceiptElsewhere'
    BY <1>1, SavedKept DEF Inv, NoReceiptElsewhere
  <2> QED BY <2>1, <2>2, <2>3 DEF Cards
<1>11. RunFits' /\ Truth'
  BY <1>1 DEF Inv, RunFits, Truth
<1>12. UsesFit'
  <2>1. Used \subseteq Used'
    BY <1>1, <1>2, <1>7 DEF Used
  <2> QED BY <1>1, <1>7, <2>1, UsesGrow
<1>13. ReportKept'
  BY <1>1, <1>2 DEF Inv, ReportKept, Softly
<1> QED BY <1>4, <1>5, <1>8, <1>9, <1>10, <1>11, <1>12, <1>13 DEF Inv

---------------------------------------------------------------------------
(* The fence lifts *)

LEMMA HandledAgain ==
  ASSUME Inv, NEW S
  PROVE  LET handled == Chosen(fenced, S)
             new == [i \in DOMAIN handled |-> Request(handled[i])]
         IN /\ new \in Seq(Jobs) /\ Distinct(new)
            /\ \A k \in Range(new) : k.kind = "request" /\ k.req \in Requests /\ AtFence(k.req) /\ k.req \in S
            /\ \A q \in Requests : AtFence(q) /\ q \in S => \E k \in Range(new) : k.kind = "request" /\ k.req = q
<1> DEFINE handled == Chosen(fenced, S)
<1> DEFINE new == [i \in DOMAIN handled |-> Request(handled[i])]
<1>1. fenced \in Seq(Requests) /\ \A i, j \in DOMAIN fenced : fenced[i] = fenced[j] => i = j
  BY DEF Inv, TypeOK, Hands
<1>2. /\ handled \in Seq(Requests)
      /\ \A x : x \in Range(handled) <=> x \in Range(fenced) /\ x \in S
      /\ \A a, b \in DOMAIN handled : a # b =>
           \E m, n \in DOMAIN fenced : m # n /\ handled[a] = fenced[m] /\ handled[b] = fenced[n]
  BY <1>1, ChosenFacts
<1> HIDE DEF handled
<1>3. \A a, b \in DOMAIN handled : handled[a] = handled[b] => a = b
  BY <1>1, <1>2
<1>4. \A x : Request(x).kind = "request" /\ Request(x).req = x /\ (x \in Requests => Request(x) \in Jobs)
  BY DEF Request, Jobs
<1>5. \A i \in DOMAIN handled : handled[i] \in Requests
  BY <1>2
<1>6. new \in Seq(Jobs) /\ DOMAIN new = DOMAIN handled /\ \A i \in DOMAIN handled : new[i] = Request(handled[i])
  <2>1. DOMAIN handled = 1..Len(handled) /\ Len(handled) \in Nat
    BY <1>2
  <2>2. new \in [1..Len(handled) -> Jobs]
    BY <1>4, <1>5, <2>1
  <2>3. new \in Seq(Jobs)
    <3> HIDE DEF new
    <3> QED BY <2>1, <2>2
  <2> QED BY <2>3
<1> HIDE DEF new
<1>7. Distinct(new)
  BY <1>3, <1>4, <1>6 DEF Distinct, SameKey
<1>8. \A k \in Range(new) : k.kind = "request" /\ k.req \in Requests /\ AtFence(k.req) /\ k.req \in S
  <2> SUFFICES ASSUME NEW i \in DOMAIN new
               PROVE  new[i].kind = "request" /\ new[i].req \in Requests /\ AtFence(new[i].req) /\ new[i].req \in S
    BY DEF Range
  <2>1. new[i].kind = "request" /\ new[i].req = handled[i] /\ handled[i] \in Requests
    BY <1>4, <1>5, <1>6
  <2>2. handled[i] \in Range(handled)
    BY <1>6 DEF Range
  <2> QED BY <1>2, <2>1, <2>2 DEF AtFence
<1>9. ASSUME NEW q \in Requests, AtFence(q), q \in S
      PROVE  \E k \in Range(new) : k.kind = "request" /\ k.req = q
  <2>1. q \in Range(handled)
    BY <1>2, <1>9 DEF AtFence
  <2>2. PICK i \in DOMAIN handled : handled[i] = q
    BY <2>1 DEF Range
  <2>3. new[i] \in Range(new) /\ new[i] = Request(q)
    BY <1>6, <2>2 DEF Range
  <2> QED BY <1>4, <2>3
<1> QED BY <1>6, <1>7, <1>8, <1>9 DEF handled, new

LEMMA LiftFenceStep ==
  ASSUME Inv, LiftFence
  PROVE  Inv'
<1> DEFINE denied == {r \in Range(fenced) : stop # "none" \/ StopOvertook(r)}
<1> DEFINE handled == Chosen(fenced, Requests \ denied)
<1> DEFINE new == [i \in DOMAIN handled |-> Request(handled[i])]
<1>1. /\ UNCHANGED <<target, mem, turn, blocked, run, swaps, stamp, card, disk, mark, noted, tail, image, stop,
                     gen, later, failures, faults, crashes, decisions>>
      /\ fence' = FALSE /\ fenced' = <<>> /\ queue' = queue \o new
      /\ provider' = [r \in Requests |-> IF r \in denied /\ provider[r] = "waiting"
                                         THEN "answered" ELSE provider[r]]
      /\ told' = [r \in Requests |-> IF r \in denied /\ provider[r] = "waiting"
                                     THEN "denied" ELSE told[r]]
  BY DEF LiftFence
<1>2. /\ new \in Seq(Jobs) /\ Distinct(new)
      /\ \A k \in Range(new) : k.kind = "request" /\ k.req \in Requests /\ AtFence(k.req) /\ k.req \in Requests \ denied
      /\ \A q \in Requests : AtFence(q) /\ q \in Requests \ denied => \E k \in Range(new) : k.kind = "request" /\ k.req = q
  BY HandledAgain
<1>3. \A q \in denied : AtFence(q)
  BY DEF AtFence
<1> HIDE DEF new, handled, denied
<1>4. /\ provider' \in [Requests -> {"unasked", "waiting", "answered", "elsewhere", "dropped"}]
      /\ told' \in [Requests -> {"none", "denied", "person", "policy", "rule"}]
      /\ \A q \in Requests : ~AtFence(q) \/ q \notin denied => provider'[q] = provider[q] /\ told'[q] = told[q]
      /\ \A q \in Requests : AtFence(q) /\ provider[q] # "waiting" => provider'[q] = provider[q] /\ told'[q] = told[q]
      /\ \A q \in Requests : AtFence(q) /\ provider[q] = "waiting" =>
           \/ provider'[q] = "waiting" /\ told'[q] = told[q]
           \/ provider'[q] = "answered" /\ told'[q] = "denied"
  BY <1>1, <1>3 DEF Inv, TypeOK
<1>5. \A q \in Requests : AtFence(q) => told[q] = "none" /\ card[q] = <<>> /\ provider[q] # "unasked" /\ q \notin mem.shown
  BY DEF Inv, Hands, Cards
<1>6. Softly
  BY <1>4, <1>5 DEF Softly, Inv, Asked
<1>7. queue \in Seq(Jobs) /\ queue' \in Seq(Jobs) /\ Range(queue') = Range(queue) \cup Range(new)
  BY <1>1, <1>2, RangeConcat DEF Inv, TypeOK
<1>8. /\ Range(fenced') = {}
      /\ \A q \in Requests : /\ ~AtFence(q)'
                             /\ Queued(q)' <=> Queued(q) \/ (AtFence(q) /\ q \notin denied)
                             /\ Handling(q)' <=> Handling(q)
                             /\ Using(q)' <=> Using(q)
  <2>1. Range(fenced') = {}
    BY <1>1 DEF Range
  <2>2. \A q \in Requests : Queued(q)' <=> Queued(q) \/ (AtFence(q) /\ q \notin denied)
    BY <1>2, <1>7 DEF Queued
  <2> QED BY <1>1, <2>1, <2>2 DEF AtFence, Handling, Using
<1>9. TypeOK'
  <2>1. {turn', blocked', fence'} \subseteq BOOLEAN
    BY <1>1 DEF Inv, TypeOK
  <2> QED BY <1>1, <1>4, <1>7, <2>1 DEF Inv, TypeOK
<1>10. Lanes' /\ ImageFits'
  BY <1>1, LanesKept
<1>11. Hands'
  <2>1. \A j \in Range(queue), k \in Range(new) : ~SameKey(j, k) /\ ~SameKey(k, j)
    BY <1>2 DEF Inv, Hands, Queued, SameKey
  <2>2. Distinct(queue') /\ Distinct(later')
    BY <1>1, <1>2, <1>7, <2>1, DistinctConcat DEF Inv, Hands
  <2>3. \A k \in Range(later') : k.kind = "report" /\ \A i \in Range(queue') : ~SameKey(k, i)
    BY <1>1, <1>2, <1>7 DEF Inv, Hands, SameKey
  <2>4. \A q \in Requests : /\ Handling(q)' => ~Queued(q)'
                            /\ Queued(q)' \/ Handling(q)' =>
                                 provider'[q] # "unasked" /\ told'[q] = "none" /\ card'[q] = <<>>
    BY <1>1, <1>4, <1>8 DEF Inv, Hands
  <2> QED BY <1>1, <1>8, <2>2, <2>3, <2>4 DEF Hands
<1>12. Asked' /\ Cards' /\ Saved' /\ NoReceiptElsewhere'
  BY <1>1, <1>6, RecordsKept
<1>13. JobsFit' /\ ReportKept'
  BY <1>1, <1>2, <1>6, <1>7, JobsKept, ReportsKept
<1>14. RunFits' /\ Truth'
  <2>1. run.kind = "resolve" => run.req \in Requests /\ card[run.req] # <<>>
    BY ResolveRuns DEF Inv, RunFits
  <2>2. run.kind = "resolve" => told'[run.req] = told[run.req]
    BY <1>4, <1>5, <2>1
  <2>3. UNCHANGED <<run, card, mem, stamp, crashes>>
    BY <1>1
  <2>4. RunFits'
    BY <2>2, <2>3 DEF Inv, RunFits
  <2> QED BY <1>6, <2>3, <2>4 DEF Inv, Truth, Softly
<1>15. UsesFit'
  <2>1. Used \subseteq Used'
    BY <1>4, <1>8 DEF Used
  <2>2. \A q \in Requests : told[q] = "person" => told'[q] = "person"
    BY <1>6 DEF Softly
  <2> QED BY <1>1, <1>8, <2>1, <2>2, UsesGrow
<1> QED BY <1>9, <1>10, <1>11, <1>12, <1>13, <1>14, <1>15 DEF Inv

---------------------------------------------------------------------------
(* An emergency stop begins *)

LEMMA RequeuedIs ==
  ASSUME NEW q \in Seq(Jobs), Distinct(q)
  PROVE  /\ Requeued(q) \in Seq(Jobs) /\ Distinct(Requeued(q))
         /\ \A k : k \in Range(Requeued(q)) <=> k \in Range(q) /\ k.kind = "report"
<1> DEFINE S == {j \in Range(q) : j.kind = "report"}
<1>1. Requeued(q) = Chosen(q, S)
  BY DEF Requeued
<1>2. \A k : k \in S <=> k \in Range(q) /\ k.kind = "report"
  OBVIOUS
<1> HIDE DEF S
<1>3. Chosen(q, S) \in Seq(Jobs) /\ \A x : x \in Range(Chosen(q, S)) <=> x \in Range(q) /\ x \in S
  BY ChosenFacts
<1>4. Distinct(Chosen(q, S))
  BY DistinctChosen
<1> QED BY <1>1, <1>2, <1>3, <1>4

LEMMA AbortedIs ==
  ASSUME Inv, NEW h, h = IF run.kind = "resolve" THEN [run EXCEPT !.aborted = TRUE] ELSE run
  PROVE  /\ h \in Handlers /\ h.kind = run.kind
         /\ run.kind = "resolve" =>
              /\ h.step = run.step /\ h.req = run.req /\ h.verdict = run.verdict /\ h.rev = run.rev
              /\ h.gen = run.gen /\ h.read = run.read
         /\ run.kind # "resolve" => h = run
         /\ \A kind : Waits(run, kind) => Waits(h, kind)
<1>1. CASE run.kind # "resolve"
  BY <1>1 DEF Inv, TypeOK
<1>2. CASE run.kind = "resolve"
  <2>1. run \in [kind : {"resolve"}, req : Requests, verdict : Verdicts, rev : Nat,
                 step : {"settling", "rewriting", "checkpoint", "deciding", "staging",
                         "promoting", "undoing"},
                 gen : Nat, aborted : BOOLEAN, read : Nat]
    BY <1>2 DEF Inv, TypeOK, Handlers, Idle
  <2>2. h = [run EXCEPT !.aborted = TRUE]
    BY <1>2
  <2>3. h \in [kind : {"resolve"}, req : Requests, verdict : Verdicts, rev : Nat,
               step : {"settling", "rewriting", "checkpoint", "deciding", "staging",
                       "promoting", "undoing"},
               gen : Nat, aborted : BOOLEAN, read : Nat]
    BY <2>1, <2>2
  <2>4. /\ h.kind = run.kind /\ h.step = run.step /\ h.req = run.req /\ h.verdict = run.verdict
        /\ h.rev = run.rev /\ h.gen = run.gen /\ h.read = run.read
    BY <2>1, <2>2
  <2>5. h \in Handlers
    BY <2>3 DEF Handlers
  <2>6. \A kind : Waits(run, kind) => Waits(h, kind)
    BY <2>4 DEF Waits
  <2> QED BY <1>2, <2>4, <2>5, <2>6
<1> QED BY <1>1, <1>2

LEMMA BeginStopStep ==
  ASSUME Inv, BeginStop
  PROVE  Inv'
<1> DEFINE denied == {r \in mem.shown : mark[r] = "none"}
<1> DEFINE hit == (denied \cup Range(fenced)) \cap {r \in Requests : provider[r] = "waiting"}
<1>1. /\ UNCHANGED <<stamp, target, card, disk, noted, turn, fence, tail, image, failures, faults,
                     swaps, decisions, crashes>>
      /\ stop = "none" /\ gen < MaxStops /\ gen' = gen + 1 /\ stop' = "interrupting"
      /\ blocked' = (blocked \/ turn) /\ queue' = <<>> /\ later' = later \o Requeued(queue)
      /\ run' = IF run.kind = "resolve" THEN [run EXCEPT !.aborted = TRUE] ELSE run
      /\ told' = [r \in Requests |-> IF r \in hit THEN "denied" ELSE told[r]]
      /\ provider' = [r \in Requests |-> IF r \in hit THEN "answered" ELSE provider[r]]
      /\ mark' = Forget(mark, mem.shown) /\ fenced' = <<>>
  BY DEF BeginStop, countVars
<1>2. /\ mem' \in Images /\ mem'.shown = {} /\ mem'.rule = mem.rule /\ mem'.uses = mem.uses
      /\ \A q \in Requests : mem'.receipt[q] = IF q \in denied THEN "stop" ELSE mem.receipt[q]
  <2>1. mem' = [mem EXCEPT !.shown = {},
                           !.receipt = [r \in Requests |-> IF r \in denied THEN "stop" ELSE @[r]]]
    BY DEF BeginStop
  <2>2. mem \in Images
    BY DEF Inv, TypeOK
  <2> DEFINE x == [mem EXCEPT !.shown = {}]
  <2>3. x = [shown |-> {}, receipt |-> mem.receipt, rule |-> mem.rule, uses |-> mem.uses]
    BY <2>2, ShownIs
  <2>4. mem' = [x EXCEPT !.receipt = [r \in Requests |-> IF r \in denied THEN "stop" ELSE @[r]]]
    BY <2>1
  <2> HIDE DEF x, denied
  <2>5. mem' = [shown |-> {}, receipt |-> [r \in Requests |-> IF r \in denied THEN "stop" ELSE mem.receipt[r]],
                rule |-> mem.rule, uses |-> mem.uses]
    BY <2>3, <2>4
  <2> QED BY <2>2, <2>5 DEF Images
<1>3. /\ \A q \in hit : provider[q] = "waiting" /\ (q \in mem.shown \/ AtFence(q))
      /\ \A q \in denied : q \in mem.shown /\ mark[q] = "none"
  BY DEF AtFence
<1> HIDE DEF hit, denied
<1>0. UNCHANGED <<stamp, card, disk, noted, tail, image, crashes>>
  BY <1>1
<1>4. /\ provider' \in [Requests -> {"unasked", "waiting", "answered", "elsewhere", "dropped"}]
      /\ told' \in [Requests -> {"none", "denied", "person", "policy", "rule"}]
      /\ \A q \in Requests : q \notin hit => provider'[q] = provider[q] /\ told'[q] = told[q]
      /\ \A q \in Requests : q \in hit => provider'[q] = "answered" /\ told'[q] = "denied"
  BY <1>1 DEF Inv, TypeOK
<1>5. \A q \in Requests : told[q] # "none" <=> provider[q] = "answered"
  BY DEF Inv, Asked
<1>6. \A q \in Requests : /\ told'[q] = "person" <=> told[q] = "person"
                          /\ provider'[q] = "elsewhere" <=> provider[q] = "elsewhere"
                          /\ provider'[q] = "unasked" <=> provider[q] = "unasked"
                          /\ told'[q] # "none" <=> provider'[q] = "answered"
  BY <1>3, <1>4, <1>5
<1>7. /\ run' \in Handlers /\ run'.kind = run.kind
      /\ run.kind = "resolve" =>
           /\ run'.step = run.step /\ run'.req = run.req /\ run'.verdict = run.verdict /\ run'.rev = run.rev
           /\ run'.gen = run.gen /\ run'.read = run.read
      /\ run.kind # "resolve" => run' = run
      /\ \A kind : Waits(run, kind) => Waits(run', kind)
  BY <1>1, AbortedIs
<1>8. /\ mark' \in [Requests -> {"none", "queued", "recorded"}]
      /\ \A q \in Requests : /\ mark'[q] # "none" => mark'[q] = mark[q]
                             /\ mark[q] = "queued" => mark'[q] = "queued"
  <2>1. mark \in [Requests -> {"none", "queued", "recorded"}] /\ mark' = Forget(mark, mem.shown)
    BY <1>1 DEF Inv, TypeOK
  <2> QED BY <2>1, ForgetIs
<1>9. /\ queue \in Seq(Jobs) /\ later \in Seq(Jobs) /\ Distinct(queue) /\ Distinct(later)
      /\ \A k \in Range(later) : k.kind = "report" /\ \A i \in Range(queue) : ~SameKey(k, i)
  BY DEF Inv, TypeOK, Hands
<1>10. /\ Requeued(queue) \in Seq(Jobs) /\ Distinct(Requeued(queue))
       /\ \A k : k \in Range(Requeued(queue)) <=> k \in Range(queue) /\ k.kind = "report"
  BY <1>9, RequeuedIs
<1>11. /\ later' \in Seq(Jobs) /\ Distinct(later')
       /\ \A k : k \in Range(later') <=> k \in Range(later) \/ (k \in Range(queue) /\ k.kind = "report")
  <2>1. later' \in Seq(Jobs) /\ Range(later') = Range(later) \cup Range(Requeued(queue))
    BY <1>1, <1>9, <1>10, RangeConcat
  <2>2. \A j \in Range(later), k \in Range(Requeued(queue)) : ~SameKey(j, k) /\ ~SameKey(k, j)
    BY <1>9, <1>10 DEF SameKey
  <2>3. Distinct(later')
    BY <1>1, <1>9, <1>10, <2>2, DistinctConcat
  <2> QED BY <1>10, <2>1, <2>3
<1>12. Range(queue') = {} /\ Range(fenced') = {} /\ DOMAIN queue' = {} /\ DOMAIN fenced' = {}
       /\ queue' \in Seq(Jobs) /\ fenced' \in Seq(Requests)
  BY <1>1 DEF Range
<1>13. \A q \in Requests : /\ ~Queued(q)' /\ ~AtFence(q)'
                           /\ Handling(q)' <=> Handling(q)
                           /\ Using(q)' <=> Using(q)
  BY <1>7, <1>12 DEF Queued, AtFence, Handling, Using
<1>14. TypeOK'
  <2>1. {turn', blocked', fence'} \subseteq BOOLEAN
    BY <1>1 DEF Inv, TypeOK
  <2>2. gen' \in 0..MaxStops
    BY <1>1, ConstantsTyped DEF Inv, TypeOK
  <2> QED BY <1>1, <1>2, <1>4, <1>7, <1>8, <1>11, <1>12, <2>1, <2>2 DEF Inv, TypeOK
<1>15. Lanes' /\ ImageFits'
  <2>1. Lanes'
    BY <1>0, <1>7 DEF Inv, Lanes, LanesFit
  <2>2. image # NoImage => tail # <<>>
    BY DEF Inv, Lanes
  <2>3. image # NoImage /\ Head(tail).kind \in {"decide", "stage"} => run.kind = "resolve"
    BY <2>2, HeadWaits
  <2> QED BY <1>0, <1>7, <2>1, <2>3 DEF Inv, ImageFits
<1>16. \A q \in Requests : card[q] = <<>> /\ ~AtFence(q) => q \notin hit
  BY <1>3 DEF Inv, Cards
<1>17. Hands'
  <2>1. \A q \in Requests : Handling(q) => ~AtFence(q) /\ provider[q] # "unasked" /\ told[q] = "none" /\ card[q] = <<>>
    BY DEF Inv, Hands
  <2>2. \A q \in Requests : Handling(q)' => provider'[q] # "unasked" /\ told'[q] = "none" /\ card'[q] = <<>>
    BY <1>0, <1>4, <1>13, <1>16, <2>1
  <2>3. Distinct(queue')
    BY <1>12 DEF Distinct
  <2> QED BY <1>9, <1>11, <1>12, <1>13, <2>2, <2>3 DEF Hands
<1>18. JobsFit'
  <2>1. \A k \in Range(queue) \cup Range(later) : k.req \in Requests
    BY <1>9, JobsTyped
  <2>2. ASSUME NEW k \in Range(later'), k.kind = "report"
        PROVE  provider'[k.req] = "elsewhere" /\ (k.had => mark'[k.req] = "queued")
    <3>1. k \in Range(queue) \cup Range(later)
      BY <1>11
    <3>2. provider[k.req] = "elsewhere" /\ (k.had => mark[k.req] = "queued") /\ k.req \in Requests
      BY <2>1, <2>2, <3>1 DEF Inv, JobsFit
    <3> QED BY <1>6, <1>8, <3>2
  <2> QED BY <1>12, <2>2 DEF JobsFit
<1>19. Asked' /\ Cards'
  BY <1>0, <1>2, <1>6 DEF Inv, Asked, Cards
<1>20. Saved'
  <2>1. CopyFits(mem) /\ CopyFits(disk) /\ (image # NoImage => CopyFits(image))
    BY DEF Inv, Saved, Copies
  <2>2. CopyFits(disk)' /\ (image # NoImage => CopyFits(image)')
    BY <1>0, <1>6, <2>1 DEF CopyFits
  <2>3. \A q \in denied : told[q] = "none" /\ card[q] # <<>>
    BY <1>3 DEF Inv, Cards
  <2>4. CopyFits(mem)'
    BY <1>0, <1>2, <1>6, <2>1, <2>3 DEF CopyFits
  <2> QED BY <1>0, <2>2, <2>4 DEF Saved, Copies, CopyFits
<1>21. RunFits'
  <2>1. CASE run.kind = "resolve"
    <3>1. run.req \in Requests /\ card[run.req] # <<>>
      BY <2>1, ResolveRuns DEF Inv, RunFits
    <3>2. ~AtFence(run.req)
      BY <3>1 DEF Inv, Hands
    <3>3. run.step = "staging" => run.req \notin denied /\ run.req \notin hit
      BY <1>3, <2>1, <3>2 DEF Inv, RunFits
    <3>4. run.step = "staging" => mem'.receipt[run.req] = mem.receipt[run.req] /\ told'[run.req] = told[run.req]
      BY <1>2, <1>4, <3>1, <3>3
    <3>5. run.step = "promoting" => told'[run.req] = "person"
      BY <1>6, <2>1, <3>1 DEF Inv, RunFits
    <3> QED BY <1>0, <1>2, <1>7, <2>1, <3>1, <3>4, <3>5 DEF Inv, RunFits
  <2>2. CASE run.kind # "resolve"
    BY <1>2, <1>7, <2>2 DEF Inv, RunFits
  <2> QED BY <2>1, <2>2
<1>22. Truth'
  <2>1. \A q \in Requests : mem'.receipt[q] \in Allows => mem.receipt[q] \in Allows
    BY <1>2 DEF Allows
  <2> QED BY <1>0, <1>6, <1>7, <2>1 DEF Inv, Truth
<1>23. NoReceiptElsewhere'
  BY <1>2, <1>3, <1>8 DEF Inv, NoReceiptElsewhere
<1>24. UsesFit'
  <2>1. Used \subseteq Used'
    BY <1>3, <1>4, <1>5, <1>13 DEF Used
  <2>2. \A q \in Requests : told[q] = "person" => told'[q] = "person"
    BY <1>6
  <2> QED BY <1>0, <1>2, <1>13, <2>1, <2>2, UsesGrow
<1>25. ReportKept'
  <2>1. stop = "none" /\ stop' # "none"
    BY <1>1
  <2> QED BY <1>0, <1>6, <1>11, <2>1 DEF Inv, ReportKept
<1> QED BY <1>14, <1>15, <1>17, <1>18, <1>19, <1>20, <1>21, <1>22, <1>23, <1>24, <1>25 DEF Inv

(* What a restart loads: a snapshot that was saved or was being saved.       *)
LEMMA CrashLoads ==
  ASSUME Inv, Crash
  PROVE  /\ mem' \in Images /\ mem'.shown = {}
         /\ \E d \in Images : /\ CopyFits(d) /\ mem'.receipt = d.receipt
                              /\ \A q \in Requests : mem'.rule[q] = "active" => d.rule[q] = "active"
<1>1. PICK d \in {disk} \cup ({image} \ {NoImage}) :
        mem' = [d EXCEPT !.shown = {},
                         !.rule = [r \in Requests |-> IF @[r] = "pending" THEN "none" ELSE @[r]]]
  BY DEF Crash
<1>2. d \in Images /\ CopyFits(d)
  <2>1. d \in Images
    BY DEF Inv, TypeOK
  <2>2. d \in Copies
    BY DEF Copies
  <2> QED BY <2>1, <2>2 DEF Inv, Saved
<1>3. /\ mem' \in Images /\ mem'.shown = {} /\ mem'.receipt = d.receipt
      /\ \A q \in Requests : mem'.rule[q] = "active" => d.rule[q] = "active"
  <2> DEFINE x == [d EXCEPT !.shown = {}]
  <2>1. x = [shown |-> {}, receipt |-> d.receipt, rule |-> d.rule, uses |-> d.uses]
    BY <1>2, ShownIs
  <2>2. mem' = [x EXCEPT !.rule = [r \in Requests |-> IF @[r] = "pending" THEN "none" ELSE @[r]]]
    BY <1>1
  <2> HIDE DEF x
  <2>3. mem' = [shown |-> {}, receipt |-> d.receipt, uses |-> d.uses,
                rule |-> [r \in Requests |-> IF d.rule[r] = "pending" THEN "none" ELSE d.rule[r]]]
    BY <2>1, <2>2
  <2>4. /\ d.receipt \in [Requests -> Verdicts \cup {"none", "stop"}] /\ d.uses \in [Requests -> Nat]
        /\ d.rule \in [Requests -> {"none", "pending", "active"}]
    BY <1>2 DEF Images
  <2> DEFINE loaded == [r \in Requests |-> IF d.rule[r] = "pending" THEN "none" ELSE d.rule[r]]
  <2>5. loaded \in [Requests -> {"none", "pending", "active"}]
        /\ \A q \in Requests : loaded[q] = "active" => d.rule[q] = "active"
    BY <2>4
  <2>6. mem'.shown = {} /\ mem'.receipt = d.receipt /\ mem'.rule = loaded
    BY <2>3
  <2>7. mem' \in Images
    BY <2>3, <2>4, <2>5 DEF Images
  <2> HIDE DEF loaded
  <2> QED BY <2>5, <2>6, <2>7
<1> QED BY <1>2, <1>3

LEMMA CrashStep ==
  ASSUME Inv, Crash
  PROVE  Inv'
<1>1. /\ UNCHANGED <<told, stamp, target, card, noted, gen, faults, swaps, decisions>>
      /\ crashes' = crashes + 1 /\ CanFail /\ disk' = mem'
      /\ provider' = [r \in Requests |-> IF provider[r] = "waiting" THEN "dropped" ELSE provider[r]]
      /\ mark' = [r \in Requests |-> "none"]
      /\ turn' = FALSE /\ blocked' = FALSE /\ fence' = FALSE
      /\ fenced' = <<>> /\ queue' = <<>> /\ run' = Idle /\ tail' = <<>> /\ image' = NoImage
      /\ stop' = "none" /\ later' = <<>> /\ failures' = 0
  BY DEF Crash
<1>2. /\ mem' \in Images /\ mem'.shown = {}
      /\ \E d \in Images : /\ CopyFits(d) /\ mem'.receipt = d.receipt
                           /\ \A q \in Requests : mem'.rule[q] = "active" => d.rule[q] = "active"
  BY CrashLoads
<1>3. PICK d \in Images : /\ CopyFits(d) /\ mem'.receipt = d.receipt
                         /\ \A q \in Requests : mem'.rule[q] = "active" => d.rule[q] = "active"
  BY <1>2
<1>4. mem' \in Images /\ mem'.shown = {}
  BY <1>2
<1>5. /\ Softly
      /\ provider' \in [Requests -> {"unasked", "waiting", "answered", "elsewhere", "dropped"}]
  BY <1>1, DroppedIs
<1>6. /\ Range(queue') = {} /\ Range(fenced') = {} /\ Range(later') = {} /\ run'.kind = "none" /\ run' \in Handlers
      /\ queue' \in Seq(Jobs) /\ later' \in Seq(Jobs) /\ fenced' \in Seq(Requests) /\ tail' \in Seq(Writes)
      /\ DOMAIN queue' = {} /\ DOMAIN later' = {} /\ DOMAIN fenced' = {} /\ DOMAIN tail' = {}
  BY <1>1, IdleIs DEF Range
<1>7. crashes' \in 0..MaxFaults /\ crashes' # 0
  BY <1>1, ConstantsTyped DEF Inv, TypeOK, CanFail
<1>8. TypeOK'
  <2>1. {turn', blocked', fence'} \subseteq BOOLEAN /\ mark' \in [Requests -> {"none", "queued", "recorded"}]
    BY <1>1
  <2> QED BY <1>1, <1>4, <1>5, <1>6, <1>7, <2>1, ConstantsTyped DEF Inv, TypeOK
<1>9. Lanes' /\ ImageFits'
  BY <1>1, <1>6 DEF Lanes, ImageFits, LanesFit
<1>10. Hands' /\ JobsFit'
  <2>1. \A q \in Requests : ~Queued(q)' /\ ~AtFence(q)' /\ ~Handling(q)'
    BY <1>6 DEF Queued, AtFence, Handling
  <2> QED BY <1>6, <2>1 DEF Hands, JobsFit, Distinct
<1>11. Asked' /\ Cards' /\ RunFits'
  <2>1. Asked'
    BY <1>1, <1>5 DEF Inv, Asked, Softly
  <2> QED BY <1>4, <1>6, <2>1 DEF Cards, RunFits
<1>12. Saved'
  <2>1. CopyFits(mem)'
    BY <1>1, <1>3, <1>4 DEF CopyFits
  <2>2. CopyFits(disk)'
    BY <1>1, <2>1 DEF CopyFits
  <2>3. image' = NoImage
    BY <1>1
  <2> QED BY <2>1, <2>2, <2>3 DEF Saved, Copies, CopyFits
<1>13. NoReceiptElsewhere'
  BY <1>1 DEF NoReceiptElsewhere
<1>14. Truth' /\ UsesFit' /\ ReportKept'
  BY <1>7 DEF Truth, UsesFit, ReportKept
<1> QED BY <1>8, <1>9, <1>10, <1>11, <1>12, <1>13, <1>14 DEF Inv

---------------------------------------------------------------------------
(* A whole-snapshot save ends *)

(* The stop that waited for the save ends, and the reports it had cancelled  *)
(* are queued again.                                                         *)
LEMMA QueuesAfter ==
  ASSUME Inv, \/ stop' = "none" /\ queue' = queue \o later /\ later' = <<>>
              \/ UNCHANGED <<stop, queue, later>>
  PROVE  /\ queue' \in Seq(Jobs) /\ later' \in Seq(Jobs) /\ stop' \in {stop, "none"}
         /\ Distinct(queue') /\ Distinct(later')
         /\ \A k \in Range(later') : k.kind = "report" /\ \A i \in Range(queue') : ~SameKey(k, i)
         /\ Range(queue') \cup Range(later') = Range(queue) \cup Range(later)
         /\ \A q \in Requests : Queued(q)' <=> Queued(q)
         /\ \A k \in Range(queue') : k.kind = "resolve" => k \in Range(queue)
         /\ \A k \in Range(queue) \cup (IF stop = "none" THEN {} ELSE Range(later)) :
              k \in Range(queue') \cup (IF stop' = "none" THEN {} ELSE Range(later'))
<1>1. /\ queue \in Seq(Jobs) /\ later \in Seq(Jobs) /\ Distinct(queue) /\ Distinct(later)
      /\ \A k \in Range(later) : k.kind = "report" /\ \A i \in Range(queue) : ~SameKey(k, i)
  BY DEF Inv, TypeOK, Hands
<1>2. CASE UNCHANGED <<stop, queue, later>>
  BY <1>1, <1>2 DEF Queued
<1>3. CASE stop' = "none" /\ queue' = queue \o later /\ later' = <<>>
  <2>1. queue' \in Seq(Jobs) /\ Range(queue') = Range(queue) \cup Range(later)
    BY <1>1, <1>3, RangeConcat
  <2>2. \A j \in Range(queue), k \in Range(later) : ~SameKey(j, k) /\ ~SameKey(k, j)
    BY <1>1 DEF SameKey
  <2>3. Distinct(queue')
    BY <1>1, <1>3, <2>2, DistinctConcat
  <2>4. later' \in Seq(Jobs) /\ Range(later') = {} /\ Distinct(later')
    BY <1>3 DEF Range, Distinct
  <2>5. \A q \in Requests : Queued(q)' <=> Queued(q)
    BY <1>1, <2>1 DEF Queued
  <2> QED BY <1>1, <1>3, <2>1, <2>3, <2>4, <2>5
<1> QED BY <1>2, <1>3

LEMMA UnusedIs ==
  ASSUME NEW m \in Images, run.by \in Requests, m.uses[run.by] > 0
  PROVE  /\ Unused(m) \in Images /\ Unused(m).shown = m.shown /\ Unused(m).receipt = m.receipt
         /\ Unused(m).rule = m.rule /\ Unused(m).uses[run.by] = m.uses[run.by] - 1
         /\ \A q \in Requests : q # run.by => Unused(m).uses[q] = m.uses[q]
<1>1. Unused(m) = [shown |-> m.shown, receipt |-> m.receipt, rule |-> m.rule,
                   uses |-> [m.uses EXCEPT ![run.by] = @ - 1]]
  BY DEF Unused, Images
<1>2. m.uses[run.by] \in Nat /\ m.uses[run.by] - 1 \in Nat
  BY DEF Images
<1> QED BY <1>1, <1>2 DEF Images

(* What every outcome of a whole-snapshot save has in common.                *)
PersistEnded ==
  /\ Softly
  /\ provider' \in [Requests -> {"unasked", "waiting", "answered", "elsewhere", "dropped"}]
  /\ told' \in [Requests -> {"none", "denied", "person", "policy", "rule"}]
  /\ mem' \in Images /\ mem'.shown = mem.shown /\ mem'.receipt = mem.receipt /\ mem'.rule = mem.rule
  /\ fenced' \in Seq(Requests) /\ \A i, j \in DOMAIN fenced' : fenced'[i] = fenced'[j] => i = j
  /\ run' \in Handlers /\ tail' \in Seq(Writes) /\ LanesFit(tail', run')
  /\ \A q \in Requests :
       /\ ~(Queued(q) /\ AtFence(q)')
       /\ Handling(q)' => ~Queued(q) /\ ~AtFence(q)'
       /\ Queued(q) \/ AtFence(q)' \/ Handling(q)' =>
            provider[q] # "unasked" /\ told'[q] = "none" /\ card[q] = <<>>
  /\ RunFits' /\ UsesFit'
  /\ run.kind = "resolve" /\ run.step = "staging" => run' = run

LEMMA PersistEndedInv ==
  ASSUME Inv, PersistEnded, image' = NoImage, disk' \in {disk, image}, disk' \in Images,
         faults' \in 0..MaxFaults, failures' \in 0..FailureThreshold,
         \/ stop' = "none" /\ queue' = queue \o later /\ later' = <<>>
         \/ UNCHANGED <<stop, queue, later>>,
         UNCHANGED <<stamp, target, card, mark, noted, turn, blocked, fence, gen, swaps, decisions, crashes>>
  PROVE  Inv'
<1>1. /\ queue' \in Seq(Jobs) /\ later' \in Seq(Jobs) /\ stop' \in {stop, "none"}
      /\ Distinct(queue') /\ Distinct(later')
      /\ \A k \in Range(later') : k.kind = "report" /\ \A i \in Range(queue') : ~SameKey(k, i)
      /\ Range(queue') \cup Range(later') = Range(queue) \cup Range(later)
      /\ \A q \in Requests : Queued(q)' <=> Queued(q)
      /\ \A k \in Range(queue') : k.kind = "resolve" => k \in Range(queue)
      /\ \A k \in Range(queue) \cup (IF stop = "none" THEN {} ELSE Range(later)) :
           k \in Range(queue') \cup (IF stop' = "none" THEN {} ELSE Range(later'))
  BY QueuesAfter
<1>2. TypeOK'
  <2>1. stop' \in {"none", "interrupting", "saving"}
    BY <1>1 DEF Inv, TypeOK
  <2>2. image' \in Images \cup {NoImage}
    OBVIOUS
  <2>3. /\ provider' \in [Requests -> {"unasked", "waiting", "answered", "elsewhere", "dropped"}]
        /\ told' \in [Requests -> {"none", "denied", "person", "policy", "rule"}]
        /\ mem' \in Images /\ fenced' \in Seq(Requests) /\ run' \in Handlers /\ tail' \in Seq(Writes)
    BY DEF PersistEnded
  <2>4. {faults', swaps', crashes'} \subseteq 0..MaxFaults
    BY DEF Inv, TypeOK
  <2> QED BY <1>1, <2>1, <2>2, <2>3, <2>4 DEF Inv, TypeOK
<1>3. Lanes' /\ ImageFits'
  BY DEF PersistEnded, Lanes, ImageFits
<1>4. Hands'
  <2>1. \A q \in Requests :
          /\ ~(Queued(q)' /\ AtFence(q)')
          /\ Handling(q)' => ~Queued(q)' /\ ~AtFence(q)'
          /\ Queued(q)' \/ AtFence(q)' \/ Handling(q)' =>
               provider'[q] # "unasked" /\ told'[q] = "none" /\ card'[q] = <<>>
    BY <1>1 DEF PersistEnded, Softly
  <2>2. \A i, j \in DOMAIN fenced' : fenced'[i] = fenced'[j] => i = j
    BY DEF PersistEnded
  <2> QED BY <1>1, <2>1, <2>2 DEF Hands
<1>5. Softly /\ mem'.shown = mem.shown /\ mem'.receipt = mem.receipt /\ mem'.rule = mem.rule
  BY DEF PersistEnded
<1>6. JobsFit'
  BY <1>1, <1>5, JobsKept
<1>7. Asked' /\ Cards'
  <2>1. Asked'
    BY <1>5 DEF Inv, Asked, Softly
  <2>2. Cards'
    <3> SUFFICES ASSUME NEW r \in mem.shown
                 PROVE  /\ card'[r] # <<>> /\ told'[r] = "none" /\ mem'.receipt[r] = "none"
                        /\ stop' = "none" /\ stamp'[r] = [gen |-> gen', during |-> FALSE]
      BY <1>5 DEF Cards
    <3>1. /\ card[r] # <<>> /\ told[r] = "none" /\ mem.receipt[r] = "none"
          /\ stop = "none" /\ stamp[r] = [gen |-> gen, during |-> FALSE]
      BY DEF Inv, Cards
    <3>2. told'[r] = told[r]
      BY <1>5, ShownTyped DEF Softly
    <3>3. stop' = "none" /\ UNCHANGED <<card, stamp, gen>> /\ mem'.receipt = mem.receipt
      BY <1>1, <1>5, <3>1
    <3> QED BY <3>1, <3>2, <3>3
  <2> QED BY <2>1, <2>2
<1>8. Saved'
  <2>1. CopyFits(mem)'
    <3>1. CopyFits(mem)
      BY DEF Inv, Saved, Copies
    <3> QED BY <1>5, <3>1 DEF CopyFits, Softly
  <2>2. \A q \in Requests : told'[q] = "person" <=> told[q] = "person"
    BY <1>5 DEF Softly
  <2> QED BY <2>1, <2>2, NoImageIsNone, SavedEnds
<1>9. RunFits' /\ UsesFit'
  BY DEF PersistEnded
<1>10. Truth'
  BY <1>5 DEF Inv, Truth, Softly, PersistEnded
<1>11. NoReceiptElsewhere'
  BY <1>5 DEF Inv, NoReceiptElsewhere
<1>12. ReportKept'
  <2> SUFFICES ASSUME NEW r \in Requests, provider'[r] = "elsewhere", r \notin noted, crashes = 0
               PROVE  \E j \in Range(queue') \cup (IF stop' = "none" THEN {} ELSE Range(later')) :
                         j.kind = "report" /\ j.req = r
    BY DEF ReportKept
  <2>1. provider[r] = "elsewhere"
    BY <1>5 DEF Softly
  <2>2. PICK j \in Range(queue) \cup (IF stop = "none" THEN {} ELSE Range(later)) : j.kind = "report" /\ j.req = r
    BY <2>1 DEF Inv, ReportKept
  <2> QED BY <1>1, <2>2
<1> QED BY <1>2, <1>3, <1>4, <1>6, <1>7, <1>8, <1>9, <1>10, <1>11, <1>12 DEF Inv

(* The save was not for a rule's use: its handler, if it had one, ends.      *)
LEMMA PlainSaveEnds ==
  ASSUME Inv, NEW ok \in BOOLEAN, tail # <<>>, Head(tail).kind = "persist",
         UNCHANGED <<provider, told, mem, fenced, crashes, card, stamp>>,
         \A q \in Requests : Queued(q)' <=> Queued(q),
         ~("lane" \in Head(tail).for /\ run.kind = "request" /\ run.step = "using"),
         run' = IF "lane" \in Head(tail).for THEN Idle ELSE run, tail' = Tail(tail)
  PROVE  PersistEnded
<1>1. /\ Tail(tail) \in Seq(Writes) /\ LanesFit(Tail(tail), run)
      /\ "lane" \in Head(tail).for => NoLane(Tail(tail)) /\ Waits(run, "persist")
  BY HeadWaits
<1>2. "lane" \in Head(tail).for => run.step \in {"flush", "rewriting", "undoing"} \/ run.kind # "request"
  BY <1>1 DEF Waits
<1>3. "lane" \in Head(tail).for => run.step \in {"using", "flush", "rewriting", "undoing"}
  BY <1>1 DEF Waits
<1>4. run' \in Handlers /\ ("lane" \in Head(tail).for => run'.kind = "none")
  BY IdleIs DEF Inv, TypeOK
<1>5. tail' \in Seq(Writes) /\ LanesFit(tail', run')
  <2>1. CASE "lane" \in Head(tail).for
    BY <1>1, <2>1, LanesOfNone
  <2>2. CASE "lane" \notin Head(tail).for
    BY <1>1, <2>2
  <2> QED BY <2>1, <2>2
<1>6. \A q \in Requests : /\ AtFence(q)' <=> AtFence(q)
                          /\ Handling(q)' <=> Handling(q)
                          /\ Using(q)' <=> Using(q)
  <2>1. CASE "lane" \in Head(tail).for
    BY <1>2, <1>3, <1>4, <2>1 DEF AtFence, Handling, Using
  <2>2. CASE "lane" \notin Head(tail).for
    BY <2>2 DEF AtFence, Handling, Using
  <2> QED BY <2>1, <2>2
<1>7. Softly
  BY SoftUnchanged
<1>8. RunFits'
  <2>1. CASE "lane" \in Head(tail).for
    BY <1>4, <2>1 DEF RunFits
  <2>2. CASE "lane" \notin Head(tail).for
    BY <2>2 DEF Inv, RunFits
  <2> QED BY <2>1, <2>2
<1>9. UsesFit'
  <2>1. Used \subseteq Used'
    BY <1>6 DEF Used
  <2> QED BY <1>6, <2>1, UsesGrow
<1>10. \A q \in Requests :
       /\ ~(Queued(q) /\ AtFence(q)')
       /\ Handling(q)' => ~Queued(q) /\ ~AtFence(q)'
       /\ Queued(q) \/ AtFence(q)' \/ Handling(q)' =>
            provider[q] # "unasked" /\ told'[q] = "none" /\ card[q] = <<>>
  BY <1>6 DEF Inv, Hands
<1>11. run.kind = "resolve" /\ run.step = "staging" => run' = run
  BY <1>3
<1>12. /\ provider' \in [Requests -> {"unasked", "waiting", "answered", "elsewhere", "dropped"}]
       /\ told' \in [Requests -> {"none", "denied", "person", "policy", "rule"}]
       /\ mem' \in Images /\ fenced' \in Seq(Requests)
       /\ \A i, j \in DOMAIN fenced' : fenced'[i] = fenced'[j] => i = j
  BY DEF Inv, TypeOK, Hands
<1> QED BY <1>4, <1>5, <1>7, <1>8, <1>9, <1>10, <1>11, <1>12 DEF PersistEnded

(* The save of a rule's use: the request is answered, held or denied, and a  *)
(* use that came to nothing is taken back.                                   *)
LEMMA UseEnds ==
  ASSUME Inv, tail # <<>>, Head(tail).kind = "persist", "lane" \in Head(tail).for,
         UNCHANGED <<crashes, card, stamp>>,
         \A q \in Requests : Queued(q)' <=> Queued(q),
         run.kind = "request", run.step = "using",
         \/ /\ Answer(run.req, "rule") /\ UNCHANGED <<mem, fenced>>
            /\ run' = [run EXCEPT !.step = "flush"] /\ tail' = Shared(Tail(tail), 1, {"lane"})
         \/ /\ \/ Answer(run.req, "denied") /\ UNCHANGED fenced
               \/ fenced' = Append(fenced, run.req) /\ UNCHANGED <<provider, told>>
            /\ mem' = Unused(mem) /\ run' = Idle
            /\ tail' \in {Tail(tail), Shared(Tail(tail), 1, {})}
  PROVE  PersistEnded
<1> DEFINE r == run.req
<1> DEFINE by == run.by
<1> DEFINE flushed == [run EXCEPT !.step = "flush"]
<1>1. r \in Requests /\ by \in Requests /\ run = [kind |-> "request", req |-> r, step |-> run.step, by |-> by]
  BY RequestRuns
<1>2. Handling(r) /\ \A q \in Requests : q # r => ~Handling(q)
  BY DEF Handling
<1>3. ~Queued(r) /\ ~AtFence(r) /\ provider[r] # "unasked" /\ told[r] = "none" /\ card[r] = <<>> /\ r \notin mem.shown
  BY <1>1, <1>2 DEF Inv, Hands, Cards
<1>4. Tail(tail) \in Seq(Writes) /\ NoLane(Tail(tail))
  BY HeadWaits
<1>5. mem \in Images /\ mem.uses[by] > 0 /\ \A q \in Requests : Using(q) <=> q = by
  BY DEF Inv, TypeOK, RunFits, Using
<1>6. flushed \in Handlers /\ flushed.kind = "request" /\ flushed.step = "flush"
  <2> DEFINE s == run.step
  <2>1. run = [kind |-> "request", req |-> r, step |-> s, by |-> by]
    BY <1>1
  <2> HIDE DEF s, r, by
  <2>2. flushed = [kind |-> "request", req |-> r, step |-> "flush", by |-> by]
    BY <2>1
  <2> QED BY <1>1, <2>2 DEF Handlers
<1>7. provider[r] # "waiting" => provider[r] \in {"elsewhere", "dropped"}
  BY <1>1, <1>3 DEF Inv, TypeOK, Asked
<1> HIDE DEF flushed
<1>8. CASE /\ Answer(r, "rule") /\ UNCHANGED <<mem, fenced>>
           /\ run' = flushed /\ tail' = Shared(Tail(tail), 1, {"lane"})
  <2>1. /\ Softly
        /\ provider' \in [Requests -> {"unasked", "waiting", "answered", "elsewhere", "dropped"}]
        /\ told' \in [Requests -> {"none", "denied", "person", "policy", "rule"}]
        /\ \A q \in Requests : q # r => provider'[q] = provider[q] /\ told'[q] = told[q]
        /\ provider[r] = "waiting" => provider'[r] = "answered" /\ told'[r] = "rule"
        /\ provider[r] # "waiting" => provider'[r] = provider[r] /\ told'[r] = "none"
    BY <1>1, <1>3, <1>8, SoftAnswer
  <2>2. run' \in Handlers /\ run'.kind = "request" /\ run'.step = "flush"
    BY <1>6, <1>8
  <2>3. tail' \in Seq(Writes) /\ LanesFit(tail', run')
    <3>1. Waits(run', "persist") /\ {"lane"} \in SUBSET {"lane", "stop"} /\ 1 \in {1, 2}
      BY <2>2 DEF Waits
    <3> QED BY <1>4, <1>8, <3>1, SharedFacts, LaneShared
  <2>4. \A q \in Requests : (AtFence(q)' <=> AtFence(q)) /\ ~Handling(q)' /\ ~Using(q)'
    BY <1>8, <2>2 DEF AtFence, Handling, Using
  <2>5. \A q \in Requests :
          /\ ~(Queued(q) /\ AtFence(q)')
          /\ Queued(q) \/ AtFence(q)' =>
               provider[q] # "unasked" /\ told'[q] = "none" /\ card[q] = <<>>
    BY <1>3, <2>1, <2>4 DEF Inv, Hands
  <2>6. RunFits'
    BY <2>2 DEF RunFits
  <2>7. UsesFit'
    <3>1. Used \cup {r} \subseteq Used' /\ r \notin Used
      BY <1>1, <1>2, <1>3, <1>7, <2>1, <2>4 DEF Used
    <3>2. Cardinality(Used) + 1 <= Cardinality(Used') /\ Cardinality(Used) \in Nat /\ Cardinality(Used') \in Nat
      <4>1. Used \subseteq Requests /\ Used' \subseteq Requests
        BY DEF Used
      <4>2. IsFiniteSet(Used) /\ IsFiniteSet(Used')
        BY <4>1, ConstantsTyped, FS_Subset
      <4>3. Cardinality(Used \cup {r}) = Cardinality(Used) + 1 /\ IsFiniteSet(Used \cup {r})
        BY <3>1, <4>2, FS_AddElement
      <4>4. Cardinality(Used \cup {r}) <= Cardinality(Used')
        BY <3>1, <4>2, FS_Subset
      <4> QED BY <4>2, <4>3, <4>4, FS_CardinalityType
    <3> SUFFICES ASSUME crashes = 0, NEW q \in Requests
                 PROVE  /\ mem.uses[q] <= Cardinality(Used')
                        /\ mem.uses[q] > 0 => told'[q] = "person"
      <4>1. mem'.uses = mem.uses
        BY <1>8
      <4>2. Cardinality(Used') + 0 = Cardinality(Used')
        BY <3>2
      <4> QED BY <2>4, <4>1, <4>2 DEF UsesFit
    <3>3. /\ mem.uses[q] <= Cardinality(Used) + (IF Using(q) THEN 1 ELSE 0)
          /\ mem.uses[q] > 0 => told[q] = "person"
          /\ mem.uses[q] \in Nat
      BY DEF Inv, UsesFit, TypeOK, Images
    <3> QED BY <2>1, <3>2, <3>3 DEF Softly
  <2>8. mem' \in Images /\ mem'.shown = mem.shown /\ mem'.receipt = mem.receipt /\ mem'.rule = mem.rule
    BY <1>5, <1>8
  <2>9. fenced' \in Seq(Requests) /\ \A i, j \in DOMAIN fenced' : fenced'[i] = fenced'[j] => i = j
    BY <1>8 DEF Inv, TypeOK, Hands
  <2> QED BY <2>1, <2>2, <2>3, <2>4, <2>5, <2>6, <2>7, <2>8, <2>9 DEF PersistEnded
<1>9. CASE /\ \/ Answer(r, "denied") /\ UNCHANGED fenced
              \/ fenced' = Append(fenced, r) /\ UNCHANGED <<provider, told>>
           /\ mem' = Unused(mem) /\ run' = Idle
           /\ tail' \in {Tail(tail), Shared(Tail(tail), 1, {})}
  <2>1. /\ Softly
        /\ provider' \in [Requests -> {"unasked", "waiting", "answered", "elsewhere", "dropped"}]
        /\ told' \in [Requests -> {"none", "denied", "person", "policy", "rule"}]
        /\ \A q \in Requests : q # r => provider'[q] = provider[q] /\ told'[q] = told[q]
    <3>1. CASE Answer(r, "denied")
      BY <1>1, <1>3, <3>1, SoftAnswer
    <3>2. CASE UNCHANGED <<provider, told>>
      BY <3>2, SoftUnchanged DEF Inv, TypeOK
    <3> QED BY <1>9, <3>1, <3>2
  <2>2. run' \in Handlers /\ run'.kind = "none"
    BY <1>9, IdleIs
  <2>3. tail' \in Seq(Writes) /\ LanesFit(tail', run')
    <3>1. LanesFit(Tail(tail), run')
      BY <1>4, LanesOfNone
    <3>2. {} \in SUBSET {"stop"} /\ {} \in SUBSET {"lane", "stop"} /\ 1 \in {1, 2}
      OBVIOUS
    <3>3. Shared(Tail(tail), 1, {}) \in Seq(Writes) /\ LanesFit(Shared(Tail(tail), 1, {}), run')
      BY <1>4, <3>1, <3>2, SharedFacts, OtherShared
    <3> QED BY <1>4, <1>9, <3>1, <3>3
  <2>4. \A q \in Requests : ~Handling(q)' /\ ~Using(q)'
    BY <2>2 DEF Handling, Using
  <2>5. /\ fenced' \in Seq(Requests) /\ \A i, j \in DOMAIN fenced' : fenced'[i] = fenced'[j] => i = j
        /\ \A q \in Requests : AtFence(q)' => AtFence(q) \/ (q = r /\ told'[r] = "none")
        /\ \A q \in Requests : q # r /\ AtFence(q)' => AtFence(q)
    <3>1. CASE fenced' = fenced
      BY <3>1 DEF Inv, TypeOK, Hands, AtFence
    <3>2. CASE fenced' = Append(fenced, r) /\ UNCHANGED <<provider, told>>
      BY <1>1, <1>3, <3>2, FenceAppend
    <3> QED BY <1>9, <3>1, <3>2
  <2>6. \A q \in Requests :
          /\ ~(Queued(q) /\ AtFence(q)')
          /\ Queued(q) \/ AtFence(q)' =>
               provider[q] # "unasked" /\ told'[q] = "none" /\ card[q] = <<>>
    BY <1>3, <2>1, <2>5 DEF Inv, Hands
  <2>7. RunFits'
    BY <2>2 DEF RunFits
  <2>8. /\ mem' \in Images /\ mem'.shown = mem.shown /\ mem'.receipt = mem.receipt /\ mem'.rule = mem.rule
        /\ mem'.uses[by] = mem.uses[by] - 1
        /\ \A q \in Requests : q # by => mem'.uses[q] = mem.uses[q]
    BY <1>1, <1>5, <1>9, UnusedIs
  <2>9. UsesFit'
    <3>1. Used \subseteq Used'
      BY <1>2, <2>1, <2>4, <2>5 DEF Used
    <3> SUFFICES ASSUME crashes = 0, NEW q \in Requests
                 PROVE  /\ mem'.uses[q] <= Cardinality(Used')
                        /\ mem'.uses[q] > 0 => told'[q] = "person"
      <4>1. Cardinality(Used') + 0 = Cardinality(Used')
        BY UsedFinite
      <4> QED BY <2>4, <4>1 DEF UsesFit
    <3>2. /\ mem.uses[q] <= Cardinality(Used) + (IF q = by THEN 1 ELSE 0)
          /\ mem.uses[q] > 0 => told[q] = "person"
          /\ mem.uses[q] \in Nat
      BY <1>5 DEF Inv, UsesFit, TypeOK, Images
    <3>3. told[q] = "person" => told'[q] = "person"
      BY <2>1 DEF Softly
    <3>4. mem'.uses[q] = IF q = by THEN mem.uses[q] - 1 ELSE mem.uses[q]
      BY <2>8
    <3> QED BY <3>1, <3>2, <3>3, <3>4, UsedFinite
  <2> QED BY <2>1, <2>2, <2>3, <2>4, <2>5, <2>6, <2>7, <2>8, <2>9 DEF PersistEnded
<1> QED BY <1>8, <1>9 DEF flushed

LEMMA EndPersistStep ==
  ASSUME Inv, NEW ok \in BOOLEAN, EndPersist(ok)
  PROVE  Inv'
<1> DEFINE lane == "lane" \in Head(tail).for
<1> DEFINE using == lane /\ run.kind = "request" /\ run.step = "using"
<1>1. /\ UNCHANGED <<stamp, target, card, mark, noted, turn, blocked, fence, gen, swaps, decisions, crashes>>
      /\ tail # <<>> /\ Head(tail).kind = "persist" /\ SaveEnds(ok, FALSE)
      /\ \/ stop' = "none" /\ queue' = queue \o later /\ later' = <<>>
         \/ UNCHANGED <<stop, queue, later>>
  BY DEF EndPersist, countVars
<1>2. /\ image' = NoImage /\ disk' \in {disk, image} /\ disk' \in Images
      /\ faults' \in 0..MaxFaults /\ failures' \in 0..FailureThreshold
  BY <1>1, SaveTyped
<1>3. \A q \in Requests : Queued(q)' <=> Queued(q)
  BY <1>1, QueuesAfter
<1>4. \/ ~using /\ run' = (IF lane THEN Idle ELSE run) /\ tail' = Tail(tail) /\ UNCHANGED <<provider, told, mem, fenced>>
      \/ /\ using /\ Answer(run.req, "rule") /\ UNCHANGED <<mem, fenced>>
         /\ run' = [run EXCEPT !.step = "flush"] /\ tail' = Shared(Tail(tail), 1, {"lane"})
      \/ /\ using
         /\ \/ Answer(run.req, "denied") /\ UNCHANGED fenced
            \/ fenced' = Append(fenced, run.req) /\ UNCHANGED <<provider, told>>
         /\ mem' = Unused(mem) /\ run' = Idle
         /\ tail' \in {Tail(tail), Shared(Tail(tail), 1, {})}
  BY DEF EndPersist, Refused, Held
<1>5. PersistEnded
  <2>1. CASE ~using
    BY <1>1, <1>3, <1>4, <2>1, PlainSaveEnds
  <2>2. CASE using
    BY <1>1, <1>3, <1>4, <2>2, UseEnds
  <2> QED BY <2>1, <2>2
<1> HIDE DEF lane, using
<1> QED BY <1>1, <1>2, <1>5, PersistEndedInv

---------------------------------------------------------------------------
(* A decision's own save ends *)

(* A snapshot that differs from memory in the decided request alone.         *)
Near(m) ==
  /\ m \in Images /\ m.uses = mem.uses
  /\ \A q \in Requests : q # run.req => /\ m.receipt[q] = mem.receipt[q] /\ m.rule[q] = mem.rule[q]
                                        /\ q \in m.shown <=> q \in mem.shown

LEMMA NearOnes ==
  ASSUME Inv, run.kind = "resolve"
  PROVE  /\ Near(mem) /\ Near(Decided(mem))
         /\ \A m : Near(m) => /\ Near(WithRule(m, "pending")) /\ Near(Withdrawn(m)) /\ Near(Undone(m))
                              /\ WithRule(m, "pending").shown = m.shown /\ WithRule(m, "pending").receipt = m.receipt
                              /\ WithRule(m, "pending").rule[run.req] = "pending"
                              /\ Withdrawn(m).shown = m.shown /\ Undone(m).shown = m.shown \cup {run.req}
                              /\ Withdrawn(m).receipt[run.req] = "none" /\ Withdrawn(m).rule[run.req] = "none"
                              /\ Undone(m).receipt[run.req] = "none" /\ Undone(m).rule[run.req] = "none"
<1>1. run.req \in Requests /\ run.verdict \in Verdicts /\ mem \in Images
  BY ResolveRuns DEF Inv, TypeOK
<1>2. Near(mem)
  BY <1>1 DEF Near
<1>3. Near(Decided(mem))
  BY <1>1, DecidedIs DEF Near
<1>4. ASSUME NEW m, Near(m)
      PROVE  /\ Near(WithRule(m, "pending")) /\ Near(Withdrawn(m)) /\ Near(Undone(m))
             /\ WithRule(m, "pending").shown = m.shown /\ WithRule(m, "pending").receipt = m.receipt
             /\ WithRule(m, "pending").rule[run.req] = "pending"
             /\ Withdrawn(m).shown = m.shown /\ Undone(m).shown = m.shown \cup {run.req}
             /\ Withdrawn(m).receipt[run.req] = "none" /\ Withdrawn(m).rule[run.req] = "none"
             /\ Undone(m).receipt[run.req] = "none" /\ Undone(m).rule[run.req] = "none"
  <2>1. m \in Images
    BY <1>4 DEF Near
  <2> DEFINE a == WithRule(m, "pending")
  <2>2. /\ a \in Images /\ a.shown = m.shown /\ a.receipt = m.receipt /\ a.uses = m.uses
        /\ a.rule[run.req] = "pending" /\ \A q \in Requests : q # run.req => a.rule[q] = m.rule[q]
    BY <1>1, <2>1, WithRuleIs
  <2> HIDE DEF a
  <2>3. Near(a)
    BY <1>4, <2>2 DEF Near
  <2> DEFINE b == Withdrawn(m)
  <2>4. /\ b \in Images /\ b.shown = m.shown /\ b.uses = m.uses /\ b.receipt[run.req] = "none" /\ b.rule[run.req] = "none"
        /\ \A q \in Requests : q # run.req => b.receipt[q] = m.receipt[q] /\ b.rule[q] = m.rule[q]
    BY <1>1, <2>1, WithdrawnIs
  <2> HIDE DEF b
  <2>5. Near(b)
    BY <1>4, <2>4 DEF Near
  <2> DEFINE c == Undone(m)
  <2>6. /\ c \in Images /\ c.shown = m.shown \cup {run.req} /\ c.uses = m.uses /\ c.receipt[run.req] = "none"
        /\ c.rule[run.req] = "none"
        /\ \A q \in Requests : q # run.req => c.receipt[q] = m.receipt[q] /\ c.rule[q] = m.rule[q]
    BY <1>1, <2>1, UndoneIs
  <2> HIDE DEF c
  <2>7. Near(c)
    BY <1>4, <2>6 DEF Near
  <2> QED BY <2>2, <2>3, <2>4, <2>5, <2>6, <2>7 DEF a, b, c
<1> QED BY <1>2, <1>3, <1>4

(* What every outcome of a decision's save has in common.                    *)
DecisionEnded ==
  LET r == run.req IN
  /\ Near(mem')
  /\ \/ UNCHANGED <<provider, told>>
     \/ /\ provider[r] = "waiting" /\ provider' = [provider EXCEPT ![r] = "answered"]
        /\ told' = [told EXCEPT ![r] = "denied"] \/ told' = [told EXCEPT ![r] = "person"]
  /\ mem'.rule[r] = "active" => told'[r] = "person"
  /\ mem'.receipt[r] # "none" => mark[r] = "none"
  /\ r \in mem'.shown =>
       told'[r] = "none" /\ mem'.receipt[r] = "none" /\ stop = "none" /\ stamp[r] = [gen |-> gen, during |-> FALSE]
  /\ told'[r] = "person" => mem'.receipt[r] \in Allows /\ (told[r] = "person" \/ disk'.receipt[r] \in Allows)
  /\ crashes = 0 /\ mem'.receipt[r] \in Allows =>
       told'[r] = "person" \/ (run'.kind = "resolve" /\ run'.step = "staging" /\ run'.req = r)
  /\ run' \in Handlers /\ run'.kind # "request" /\ tail' \in Seq(Writes) /\ LanesFit(tail', run')
  /\ RunFits'

LEMMA DecisionEndedInv ==
  ASSUME Inv, DecisionEnded, run.kind = "resolve",
         image' = NoImage, disk' \in {disk, image}, disk' \in Images,
         faults' \in 0..MaxFaults, failures' \in 0..FailureThreshold,
         UNCHANGED <<stop, stamp, target, card, mark, noted, turn, blocked, fence, fenced, queue,
                     gen, later, swaps, decisions, crashes>>
  PROVE  Inv'
<1> DEFINE r == run.req
<1>1. r \in Requests /\ card[r] # <<>>
  BY ResolveRuns DEF Inv, RunFits
<1>2. /\ provider \in [Requests -> {"unasked", "waiting", "answered", "elsewhere", "dropped"}]
      /\ told \in [Requests -> {"none", "denied", "person", "policy", "rule"}]
      /\ \A q \in Requests : told[q] # "none" <=> provider[q] = "answered"
  BY DEF Inv, TypeOK, Asked
<1>3. /\ Near(mem')
      /\ \/ UNCHANGED <<provider, told>>
         \/ /\ provider[r] = "waiting" /\ provider' = [provider EXCEPT ![r] = "answered"]
            /\ told' = [told EXCEPT ![r] = "denied"] \/ told' = [told EXCEPT ![r] = "person"]
      /\ mem'.rule[r] = "active" => told'[r] = "person"
      /\ mem'.receipt[r] # "none" => mark[r] = "none"
      /\ r \in mem'.shown =>
           told'[r] = "none" /\ mem'.receipt[r] = "none" /\ stop = "none" /\ stamp[r] = [gen |-> gen, during |-> FALSE]
      /\ told'[r] = "person" => mem'.receipt[r] \in Allows /\ (told[r] = "person" \/ disk'.receipt[r] \in Allows)
      /\ crashes = 0 /\ mem'.receipt[r] \in Allows =>
           told'[r] = "person" \/ (run'.kind = "resolve" /\ run'.step = "staging" /\ run'.req = r)
      /\ run' \in Handlers /\ run'.kind # "request" /\ tail' \in Seq(Writes) /\ LanesFit(tail', run')
      /\ RunFits'
  BY DEF DecisionEnded
<1> HIDE DEF r
<1>4. /\ provider' \in [Requests -> {"unasked", "waiting", "answered", "elsewhere", "dropped"}]
      /\ told' \in [Requests -> {"none", "denied", "person", "policy", "rule"}]
      /\ \A q \in Requests : q # r => provider'[q] = provider[q] /\ told'[q] = told[q]
      /\ \/ provider'[r] = provider[r] /\ told'[r] = told[r]
         \/ provider[r] = "waiting" /\ provider'[r] = "answered" /\ told'[r] \in {"denied", "person"}
  <2>1. CASE UNCHANGED <<provider, told>>
    BY <1>2, <2>1
  <2>2. CASE /\ provider[r] = "waiting" /\ provider' = [provider EXCEPT ![r] = "answered"]
             /\ told' = [told EXCEPT ![r] = "denied"] \/ told' = [told EXCEPT ![r] = "person"]
    BY <1>1, <1>2, <2>2
  <2> QED BY <1>3, <2>1, <2>2
<1>5. \A q \in Requests : /\ provider'[q] = "elsewhere" <=> provider[q] = "elsewhere"
                          /\ provider'[q] = "unasked" <=> provider[q] = "unasked"
                          /\ told'[q] # "none" <=> provider'[q] = "answered"
                          /\ told[q] = "person" => told'[q] = "person"
  BY <1>1, <1>2, <1>4
<1>6. /\ mem' \in Images /\ mem'.uses = mem.uses
      /\ \A q \in Requests : q # r => /\ mem'.receipt[q] = mem.receipt[q] /\ mem'.rule[q] = mem.rule[q]
                                      /\ q \in mem'.shown <=> q \in mem.shown
  BY <1>3 DEF Near, r
<1>0. UNCHANGED <<stop, stamp, card, mark, noted, fenced, queue, gen, later, crashes>>
  OBVIOUS
<1>7. TypeOK'
  <2>1. image' \in Images \cup {NoImage} /\ {faults', swaps', crashes'} \subseteq 0..MaxFaults
    BY DEF Inv, TypeOK
  <2> QED BY <1>3, <1>4, <1>6, <2>1 DEF Inv, TypeOK
<1>8. Lanes' /\ ImageFits'
  BY <1>3 DEF Lanes, ImageFits
<1>9. \A q \in Requests : /\ Queued(q)' <=> Queued(q)
                          /\ AtFence(q)' <=> AtFence(q)
                          /\ ~Handling(q) /\ ~Handling(q)' /\ ~Using(q)
  BY <1>0, <1>3 DEF Queued, AtFence, Handling, Using
<1>10. Hands'
  <2>1. \A q \in Requests : Queued(q)' \/ AtFence(q)' =>
          q # r /\ provider'[q] # "unasked" /\ told'[q] = "none" /\ card'[q] = <<>>
    BY <1>0, <1>1, <1>4, <1>9 DEF Inv, Hands
  <2> QED BY <1>0, <1>9, <2>1 DEF Inv, Hands
<1>11. JobsFit'
  <2>1. \A k \in Range(queue) \cup Range(later) : k.req \in Requests
    BY JobsTyped DEF Inv, TypeOK
  <2> QED BY <1>0, <1>5, <2>1 DEF Inv, JobsFit
<1>12. Asked'
  BY <1>0, <1>5 DEF Inv, Asked
<1>13. Cards'
  <2> SUFFICES ASSUME NEW q \in mem'.shown
               PROVE  /\ card[q] # <<>> /\ told'[q] = "none" /\ mem'.receipt[q] = "none"
                      /\ stop = "none" /\ stamp[q] = [gen |-> gen, during |-> FALSE]
    BY <1>0 DEF Cards
  <2>1. q \in Requests
    BY <1>6 DEF Images
  <2>2. CASE q = r
    BY <1>1, <1>3, <2>2
  <2>3. CASE q # r
    <3>1. q \in mem.shown /\ mem'.receipt[q] = mem.receipt[q] /\ told'[q] = told[q]
      BY <1>4, <1>6, <2>1, <2>3
    <3>2. /\ card[q] # <<>> /\ told[q] = "none" /\ mem.receipt[q] = "none"
          /\ stop = "none" /\ stamp[q] = [gen |-> gen, during |-> FALSE]
      BY <3>1 DEF Inv, Cards
    <3> QED BY <3>1, <3>2
  <2> QED BY <2>2, <2>3
<1>14. Saved'
  <2>1. CopyFits(mem)
    BY DEF Inv, Saved, Copies
  <2>2. CopyFits(mem)'
    BY <1>0, <1>1, <1>3, <1>4, <1>6, <2>1 DEF CopyFits
  <2>3. \A q \in Requests : told'[q] = "person" => told[q] = "person" \/ disk'.receipt[q] \in Allows
    BY <1>3, <1>4
  <2> QED BY <1>0, <1>5, <2>2, <2>3, NoImageIsNone, SavedEnds
<1>15. Truth'
  <2> SUFFICES ASSUME crashes = 0, NEW q \in Requests, mem'.receipt[q] \in Allows
               PROVE  told'[q] = "person" \/ (run'.kind = "resolve" /\ run'.step = "staging" /\ run'.req = q)
    BY <1>0 DEF Truth
  <2>1. CASE q = r
    BY <1>3, <2>1
  <2>2. CASE q # r
    BY <1>4, <1>6, <2>2 DEF Inv, Truth, r
  <2> QED BY <2>1, <2>2
<1>16. NoReceiptElsewhere'
  BY <1>0, <1>3, <1>6 DEF Inv, NoReceiptElsewhere
<1>17. UsesFit'
  <2>1. \A q \in Requests : told[q] = "rule" \/ (told[q] = "none" /\ provider[q] \in {"elsewhere", "dropped"})
                            => told'[q] = told[q] /\ provider'[q] = provider[q]
    <3> SUFFICES ASSUME NEW q \in Requests,
                        told[q] = "rule" \/ (told[q] = "none" /\ provider[q] \in {"elsewhere", "dropped"})
                 PROVE  told'[q] = told[q] /\ provider'[q] = provider[q]
      OBVIOUS
    <3>1. provider[q] # "waiting"
      BY <1>2
    <3> QED BY <1>4, <3>1
  <2>2. Used \subseteq Used'
    BY <1>9, <2>1 DEF Used
  <2> QED BY <1>0, <1>5, <1>6, <1>9, <2>2, UsesGrow
<1>18. ReportKept'
  BY <1>0, <1>5 DEF Inv, ReportKept
<1> QED BY <1>3, <1>7, <1>8, <1>10, <1>11, <1>12, <1>13, <1>14, <1>15, <1>16, <1>17, <1>18 DEF Inv

(* What becomes of the handler that waited for a decision's save.            *)
Went ==
  /\ run' \in Handlers /\ run'.kind # "request" /\ tail' \in Seq(Writes) /\ LanesFit(tail', run')
  /\ RunFits'

LEMMA GoesBack ==
  ASSUME Inv, tail # <<>>, Head(tail).kind # "persist", card' = card,
         run' = [run EXCEPT !.step = "undoing"], tail' = Shared(Tail(tail), 1, {"lane"})
  PROVE  Went
<1>1. /\ Tail(tail) \in Seq(Writes) /\ NoLane(Tail(tail)) /\ run.kind = "resolve"
  BY HeadWaits
<1>2. run' = At("undoing", run.read)
  BY <1>1, Stepped
<1>3. run.read \in Nat /\ card[run.req] # <<>>
  BY <1>1, ResolveRuns DEF Inv, RunFits
<1>4. run' \in Handlers /\ run'.kind = "resolve" /\ run'.step = "undoing" /\ run'.req = run.req
  BY <1>1, <1>2, <1>3, AtIs
<1>5. Waits(run', "persist") /\ {"lane"} \in SUBSET {"lane", "stop"} /\ 1 \in {1, 2}
  BY <1>4 DEF Waits
<1>6. tail' \in Seq(Writes) /\ LanesFit(tail', run')
  BY <1>1, <1>5, SharedFacts, LaneShared
<1>7. RunFits'
  BY <1>3, <1>4 DEF RunFits
<1> QED BY <1>4, <1>6, <1>7 DEF Went

LEMMA GoesIdle ==
  ASSUME Inv, tail # <<>>, Head(tail).kind # "persist", run' = Idle, tail' = Tail(tail)
  PROVE  Went
<1>1. Tail(tail) \in Seq(Writes) /\ NoLane(Tail(tail))
  BY HeadWaits
<1>2. run' \in Handlers /\ run'.kind = "none"
  BY IdleIs
<1>3. tail' \in Seq(Writes) /\ LanesFit(tail', run')
  BY <1>1, LanesOfNone
<1>4. RunFits'
  BY <1>2 DEF RunFits
<1> QED BY <1>2, <1>3, <1>4 DEF Went

LEMMA GoesToPromote ==
  ASSUME Inv, tail # <<>>, Head(tail).kind # "persist", card' = card, told'[run.req] = "person",
         run' = [run EXCEPT !.step = "promoting"], tail' = Saving(Tail(tail), "promote")
  PROVE  Went
<1>1. Tail(tail) \in Seq(Writes) /\ NoLane(Tail(tail)) /\ run.kind = "resolve"
  BY HeadWaits
<1>2. run' = At("promoting", run.read)
  BY <1>1, Stepped
<1>3. run.read \in Nat /\ card[run.req] # <<>>
  BY <1>1, ResolveRuns DEF Inv, RunFits
<1>4. run' \in Handlers /\ run'.kind = "resolve" /\ run'.step = "promoting" /\ run'.req = run.req
  BY <1>1, <1>2, <1>3, AtIs
<1>5. Waits(run', "promote")
  BY <1>4 DEF Waits
<1>6. tail' \in Seq(Writes) /\ LanesFit(tail', run')
  BY <1>1, <1>5, LaneSaving
<1>7. RunFits'
  BY <1>3, <1>4 DEF RunFits
<1> QED BY <1>4, <1>6, <1>7 DEF Went

(* A decision that is made in a snapshot and that nobody has heard of.       *)
Unheard(m) ==
  /\ Near(m) /\ run.req \notin m.shown /\ m.receipt[run.req] = run.verdict /\ m.rule[run.req] # "active"
  /\ told[run.req] = "none" /\ mark[run.req] = "none" /\ stop = "none"
  /\ stamp[run.req] = [gen |-> gen, during |-> FALSE]

LEMMA DeliverEnds ==
  ASSUME Inv, tail # <<>>, Head(tail).kind # "persist", card' = card,
         NEW m, Unheard(m), NEW faulty \in BOOLEAN, Deliver(m, Tail(tail), faulty),
         disk'.receipt[run.req] = run.verdict
  PROVE  DecisionEnded
<1> DEFINE r == run.req
<1>1. r \in Requests /\ run.kind = "resolve" /\ run.verdict \in Verdicts
  BY HeadWaits
<1>2. /\ Near(m) /\ r \notin m.shown /\ m.receipt[r] = run.verdict /\ m.rule[r] # "active"
      /\ told[r] = "none" /\ mark[r] = "none" /\ stop = "none"
      /\ stamp[r] = [gen |-> gen, during |-> FALSE]
  BY DEF Unheard
<1>3. told \in [Requests -> {"none", "denied", "person", "policy", "rule"}]
  BY DEF Inv, TypeOK
<1>4. CASE /\ provider[r] = "waiting"
           /\ told' = [told EXCEPT ![r] = IF run.verdict = "deny" THEN "denied" ELSE "person"]
           /\ provider' = [provider EXCEPT ![r] = "answered"]
           /\ mem' = m
           /\ IF run.verdict = "always-project"
              THEN run' = [run EXCEPT !.step = "promoting"] /\ tail' = Saving(Tail(tail), "promote")
              ELSE run' = Idle /\ tail' = Tail(tail)
  <2>1. /\ told'[r] = IF run.verdict = "deny" THEN "denied" ELSE "person"
        /\ told' = [told EXCEPT ![r] = "denied"] \/ told' = [told EXCEPT ![r] = "person"]
    BY <1>1, <1>3, <1>4
  <2>2. Went
    <3>1. CASE run.verdict = "always-project"
      BY <1>4, <2>1, <3>1, GoesToPromote
    <3>2. CASE run.verdict # "always-project"
      BY <1>4, <3>2, GoesIdle
    <3> QED BY <3>1, <3>2
  <2>3. told'[r] = "person" <=> run.verdict \in Allows
    BY <1>1, <2>1 DEF Verdicts, Allows
  <2>4. mem'.receipt[r] = run.verdict /\ r \notin mem'.shown /\ mem'.rule[r] # "active" /\ Near(mem')
    BY <1>2, <1>4
  <2> QED BY <1>2, <1>4, <2>1, <2>2, <2>3, <2>4 DEF DecisionEnded, Went
<1>5. CASE TakeBack(Withdrawn(m), Tail(tail)) /\ UNCHANGED <<told, provider>>
  <2>1. Went
    BY <1>5, GoesBack DEF TakeBack
  <2>2. mem' = Withdrawn(m)
    BY <1>5 DEF TakeBack
  <2>3. Near(mem') /\ mem'.shown = m.shown /\ mem'.receipt[r] = "none" /\ mem'.rule[r] = "none"
    BY <1>1, <1>2, <2>2, NearOnes
  <2>4. mem'.receipt[r] \notin Allows
    BY <2>3 DEF Allows
  <2> QED BY <1>2, <1>5, <2>1, <2>3, <2>4 DEF DecisionEnded, Went
<1>6. CASE /\ run.verdict = "deny" /\ mem' = m /\ run' = Idle /\ tail' = Tail(tail)
           /\ UNCHANGED <<told, provider>>
  <2>1. Went
    BY <1>6, GoesIdle
  <2>2. mem'.receipt[r] \notin Allows
    BY <1>2, <1>6 DEF Allows
  <2> QED BY <1>2, <1>6, <2>1, <2>2 DEF DecisionEnded, Went
<1>7. CASE TakeBack(Undone(m), Tail(tail)) /\ UNCHANGED <<told, provider>>
  <2>1. Went
    BY <1>7, GoesBack DEF TakeBack
  <2>2. mem' = Undone(m)
    BY <1>7 DEF TakeBack
  <2>3. Near(mem') /\ mem'.receipt[r] = "none" /\ mem'.rule[r] = "none"
    BY <1>1, <1>2, <2>2, NearOnes
  <2>4. mem'.receipt[r] \notin Allows
    BY <2>3 DEF Allows
  <2> QED BY <1>2, <1>7, <2>1, <2>3, <2>4 DEF DecisionEnded, Went
<1> QED BY <1>4, <1>5, <1>6, <1>7 DEF Deliver

(* An outcome that leaves memory as it was, before the decision was made.    *)
LEMMA NothingDecided ==
  ASSUME Inv, tail # <<>>, Head(tail).kind = "decide", Went, UNCHANGED <<mem, provider, told>>
  PROVE  DecisionEnded
<1> DEFINE r == run.req
<1>1. r \in Requests /\ run.kind = "resolve" /\ run.step = "deciding"
  BY HeadWaits
<1>2. Near(mem')
  BY <1>1, NearOnes
<1>3. CopyFits(mem)
  BY DEF Inv, Saved, Copies
<1>4. /\ mem.rule[r] = "active" => told[r] = "person"
      /\ told[r] = "person" => mem.receipt[r] \in Allows
  BY <1>1, <1>3 DEF CopyFits
<1>5. mem.receipt[r] # "none" => mark[r] = "none"
  BY <1>1 DEF Inv, NoReceiptElsewhere
<1>6. r \in mem.shown =>
        told[r] = "none" /\ mem.receipt[r] = "none" /\ stop = "none" /\ stamp[r] = [gen |-> gen, during |-> FALSE]
  BY DEF Inv, Cards
<1>7. crashes = 0 /\ mem.receipt[r] \in Allows => told[r] = "person"
  BY <1>1 DEF Inv, Truth
<1> HIDE DEF r
<1> QED BY <1>2, <1>4, <1>5, <1>6, <1>7 DEF DecisionEnded, Went, r

LEMMA PendingUnheard ==
  ASSUME Inv, run.kind = "resolve", StillPending
  PROVE  Unheard(Decided(mem))
<1> DEFINE r == run.req
<1> DEFINE m == Decided(mem)
<1>1. r \in Requests /\ run.verdict \in Verdicts
  BY ResolveRuns
<1>2. r \in mem.shown /\ mark[r] = "none"
  BY DEF StillPending
<1>3. told[r] = "none" /\ stop = "none" /\ stamp[r] = [gen |-> gen, during |-> FALSE]
  BY <1>2 DEF Inv, Cards
<1>4. CopyFits(mem) /\ mem \in Images
  BY DEF Inv, Saved, Copies, TypeOK
<1>5. mem.rule[r] # "active"
  BY <1>1, <1>3, <1>4 DEF CopyFits
<1>6. m.shown = mem.shown \ {r} /\ m.receipt[r] = run.verdict /\ m.rule = mem.rule
  BY <1>1, <1>4, DecidedIs
<1>7. Near(m)
  BY NearOnes
<1> HIDE DEF m
<1>8. r \notin m.shown
  BY <1>6
<1>9. Unheard(m)
  BY <1>2, <1>3, <1>5, <1>6, <1>7, <1>8 DEF Unheard
<1> QED BY <1>9 DEF m

LEMMA EndDecideStep ==
  ASSUME Inv, NEW ok \in BOOLEAN, NEW faulty \in BOOLEAN, EndDecide(ok, faulty)
  PROVE  Inv'
<1> DEFINE r == run.req
<1>1. /\ UNCHANGED <<stop, stamp, target, card, mark, noted, turn, blocked, fence, fenced, queue,
                     gen, later, swaps, decisions, crashes>>
      /\ tail # <<>> /\ Head(tail).kind = "decide" /\ SaveEnds(ok, faulty)
  BY DEF EndDecide, rest, countVars
<1>2. /\ image # NoImage /\ image' = NoImage /\ disk' \in {disk, image} /\ disk' \in Images
      /\ faults' \in 0..MaxFaults /\ failures' \in 0..FailureThreshold
      /\ ok => disk' = image
  BY <1>1, SaveTyped
<1>3. r \in Requests /\ run.kind = "resolve" /\ run.step = "deciding" /\ run.verdict \in Verdicts
  BY <1>1, HeadWaits
<1>4. ok => disk'.receipt[r] = run.verdict
  BY <1>1, <1>2 DEF Inv, ImageFits
<1>5. StillPending => Unheard(Decided(mem))
  BY <1>3, PendingUnheard
<1>6. DecisionEnded
  <2>1. CASE run' = Idle /\ tail' = Tail(tail) /\ UNCHANGED <<provider, told, mem>>
    BY <1>1, <2>1, GoesIdle, NothingDecided
  <2>2. CASE TakeBack(mem, Tail(tail)) /\ UNCHANGED <<provider, told>>
    <3>1. mem' = mem /\ run' = [run EXCEPT !.step = "undoing"] /\ tail' = Shared(Tail(tail), 1, {"lane"})
      BY <2>2 DEF TakeBack
    <3>2. Went
      BY <1>1, <3>1, GoesBack
    <3> QED BY <1>1, <2>2, <3>1, <3>2, NothingDecided
  <2>3. CASE ok /\ StillPending /\ Deliver(Decided(mem), Tail(tail), faulty)
    BY <1>1, <1>4, <1>5, <2>3, DeliverEnds
  <2>4. CASE StillPending /\ TakeBack(Withdrawn(Decided(mem)), Tail(tail)) /\ UNCHANGED <<provider, told>>
    <3> DEFINE m == Decided(mem)
    <3>1. Unheard(m) /\ r \notin m.shown /\ Near(m)
      BY <1>5, <2>4 DEF Unheard
    <3> HIDE DEF m
    <3>2. mem' = Withdrawn(m) /\ run' = [run EXCEPT !.step = "undoing"] /\ tail' = Shared(Tail(tail), 1, {"lane"})
      BY <2>4 DEF TakeBack, m
    <3>3. Went
      BY <1>1, <3>2, GoesBack
    <3>4. Near(mem') /\ mem'.shown = m.shown /\ mem'.receipt[r] = "none" /\ mem'.rule[r] = "none"
      BY <1>3, <3>1, <3>2, NearOnes
    <3>5. mem'.receipt[r] \notin Allows /\ told[r] = "none" /\ mark[r] = "none"
      BY <3>1, <3>4 DEF Allows, Unheard
    <3> QED BY <2>4, <3>1, <3>3, <3>4, <3>5 DEF DecisionEnded, Went
  <2>5. CASE /\ StillPending /\ run.verdict = "always-project" /\ ~Cancelled
             /\ mem' = Decided(mem)
             /\ run' = [run EXCEPT !.step = "staging"]
             /\ tail' = Saving(Tail(tail), "stage")
             /\ UNCHANGED <<provider, told>>
    <3>1. Unheard(mem')
      BY <1>5, <2>5
    <3>2. /\ Near(mem') /\ r \notin mem'.shown /\ mem'.receipt[r] = "always-project" /\ mem'.rule[r] # "active"
          /\ told[r] = "none" /\ mark[r] = "none" /\ stop = "none"
          /\ stamp[r] = [gen |-> gen, during |-> FALSE]
      BY <2>5, <3>1 DEF Unheard
    <3>3. gen = run.gen
      BY <2>5 DEF Cancelled
    <3>4. run' = At("staging", run.read) /\ run.read \in Nat
      BY <1>3, <2>5, Stepped, ResolveRuns
    <3>5. /\ run' \in Handlers /\ run'.kind = "resolve" /\ run'.step = "staging" /\ run'.req = r
          /\ run'.verdict = run.verdict /\ run'.rev = run.rev /\ run'.gen = run.gen /\ run'.read = run.read
      BY <1>3, <3>4, AtIs
    <3>6. Waits(run', "stage")
      BY <3>5 DEF Waits
    <3>7. Tail(tail) \in Seq(Writes) /\ NoLane(Tail(tail))
      BY <1>1, HeadWaits
    <3>8. tail' \in Seq(Writes) /\ LanesFit(tail', run')
      BY <2>5, <3>6, <3>7, LaneSaving
    <3>9. /\ card[r] # <<>> /\ run.rev = Len(card[r]) /\ run.read = Last(card[r])
      <4>1. run.verdict \in Allows
        BY <2>5 DEF Allows
      <4> QED BY <1>3, <4>1 DEF Inv, RunFits
    <3>10. /\ card' = card /\ told' = told /\ stamp' = stamp
      BY <1>1, <2>5
    <3>11. RunFits'
      BY <2>5, <3>2, <3>3, <3>5, <3>9, <3>10 DEF RunFits
    <3> QED BY <2>5, <3>2, <3>5, <3>8, <3>11 DEF DecisionEnded
  <2> QED BY <2>1, <2>2, <2>3, <2>4, <2>5 DEF EndDecide
<1> HIDE DEF r
<1> QED BY <1>1, <1>2, <1>3, <1>6, DecisionEndedInv

(* The snapshot after the save of an Always' rule.                           *)
Staged(ok) == IF ok THEN WithRule(mem, "pending") ELSE mem

LEMMA StagedUnheard ==
  ASSUME Inv, run.kind = "resolve", run.step = "staging", NEW ok \in BOOLEAN
  PROVE  /\ mark[run.req] = "none" /\ mem.rule[run.req] # "active"
         /\ Near(Staged(ok)) /\ Staged(ok).shown = mem.shown /\ Staged(ok).receipt = mem.receipt
         /\ Staged(ok).rule[run.req] # "active"
         /\ ~Cancelled => Unheard(Staged(ok)) /\ stop = "none" /\ gen = run.gen
<1> DEFINE r == run.req
<1> DEFINE staged == Staged(ok)
<1>1. r \in Requests
  BY ResolveRuns
<1>2. /\ run.verdict = "always-project" /\ r \notin mem.shown
      /\ mem.receipt[r] = "always-project" /\ told[r] = "none"
      /\ stamp[r] = [gen |-> run.gen, during |-> FALSE]
  BY DEF Inv, RunFits
<1>3. mark[r] = "none" /\ mem.rule[r] # "active"
  <2>1. CopyFits(mem)
    BY DEF Inv, Saved, Copies
  <2> QED BY <1>1, <1>2, <2>1 DEF Inv, NoReceiptElsewhere, CopyFits
<1>4. Near(staged) /\ staged.shown = mem.shown /\ staged.receipt = mem.receipt /\ staged.rule[r] # "active"
  <2>1. Near(mem)
    BY NearOnes
  <2>2. CASE ok
    <3>1. /\ Near(WithRule(mem, "pending")) /\ WithRule(mem, "pending").shown = mem.shown
          /\ WithRule(mem, "pending").receipt = mem.receipt /\ WithRule(mem, "pending").rule[run.req] = "pending"
      BY <2>1, NearOnes
    <3>2. staged = WithRule(mem, "pending")
      BY <2>2 DEF Staged
    <3> HIDE DEF staged
    <3> QED BY <3>1, <3>2
  <2>3. CASE ~ok
    <3>1. staged = mem
      BY <2>3 DEF Staged
    <3> HIDE DEF staged
    <3> QED BY <1>3, <2>1, <3>1
  <2> QED BY <2>2, <2>3
<1> HIDE DEF staged
<1>5. ~Cancelled => Unheard(staged) /\ stop = "none" /\ gen = run.gen
  BY <1>2, <1>3, <1>4 DEF Cancelled, Unheard
<1> QED BY <1>3, <1>4, <1>5 DEF staged

LEMMA EndStageStep ==
  ASSUME Inv, NEW ok \in BOOLEAN, NEW faulty \in BOOLEAN, EndStage(ok, faulty)
  PROVE  Inv'
<1> DEFINE r == run.req
<1> DEFINE staged == Staged(ok)
<1>1. /\ UNCHANGED <<stop, stamp, target, card, mark, noted, turn, blocked, fence, fenced, queue,
                     gen, later, swaps, decisions, crashes>>
      /\ tail # <<>> /\ Head(tail).kind = "stage" /\ SaveEnds(ok, faulty)
  BY DEF EndStage, rest, countVars
<1>2. /\ image # NoImage /\ image' = NoImage /\ disk' \in {disk, image} /\ disk' \in Images
      /\ faults' \in 0..MaxFaults /\ failures' \in 0..FailureThreshold
      /\ ok => disk' = image
  BY <1>1, SaveTyped
<1>3. r \in Requests /\ run.kind = "resolve" /\ run.step = "staging" /\ run.verdict \in Verdicts
  BY <1>1, HeadWaits
<1>4. /\ run.verdict = "always-project" /\ r \notin mem.shown
      /\ mem.receipt[r] = "always-project" /\ told[r] = "none"
      /\ stamp[r] = [gen |-> run.gen, during |-> FALSE]
  BY <1>3 DEF Inv, RunFits
<1>5. ok => disk'.receipt[r] = run.verdict
  BY <1>1, <1>2, <1>4 DEF Inv, ImageFits
<1>6. /\ mark[r] = "none" /\ mem.rule[r] # "active"
      /\ Near(staged) /\ staged.shown = mem.shown /\ staged.receipt = mem.receipt /\ staged.rule[r] # "active"
      /\ ~Cancelled => Unheard(staged) /\ stop = "none" /\ gen = run.gen
  BY <1>3, StagedUnheard
<1> HIDE DEF staged
<1>7. DecisionEnded
  <2>1. CASE TakeBack(Withdrawn(staged), Tail(tail)) /\ UNCHANGED <<provider, told>>
    <3>1. mem' = Withdrawn(staged) /\ run' = [run EXCEPT !.step = "undoing"] /\ tail' = Shared(Tail(tail), 1, {"lane"})
      BY <2>1 DEF TakeBack
    <3>2. Went
      BY <1>1, <3>1, GoesBack
    <3>3. Near(mem') /\ mem'.shown = staged.shown /\ mem'.receipt[r] = "none" /\ mem'.rule[r] = "none"
      BY <1>3, <1>6, <3>1, NearOnes
    <3>4. mem'.receipt[r] \notin Allows
      BY <3>3 DEF Allows
    <3> QED BY <1>4, <1>6, <2>1, <3>2, <3>3, <3>4 DEF DecisionEnded, Went
  <2>2. CASE ~Cancelled /\ TakeBack(Undone(staged), Tail(tail)) /\ UNCHANGED <<provider, told>>
    <3>1. mem' = Undone(staged) /\ run' = [run EXCEPT !.step = "undoing"] /\ tail' = Shared(Tail(tail), 1, {"lane"})
      BY <2>2 DEF TakeBack
    <3>2. Went
      BY <1>1, <3>1, GoesBack
    <3>3. Near(mem') /\ mem'.receipt[r] = "none" /\ mem'.rule[r] = "none"
      BY <1>3, <1>6, <3>1, NearOnes
    <3>4. mem'.receipt[r] \notin Allows
      BY <3>3 DEF Allows
    <3>5. stop = "none" /\ stamp[r] = [gen |-> gen, during |-> FALSE]
      BY <1>4, <1>6, <2>2
    <3> QED BY <1>4, <1>6, <2>2, <3>2, <3>3, <3>4, <3>5 DEF DecisionEnded, Went
  <2>3. CASE ~Cancelled /\ ok /\ Deliver(staged, Tail(tail), faulty)
    BY <1>1, <1>5, <1>6, <2>3, DeliverEnds
  <2>4. \/ TakeBack(Withdrawn(staged), Tail(tail)) /\ UNCHANGED <<provider, told>>
        \/ ~Cancelled /\ TakeBack(Undone(staged), Tail(tail)) /\ UNCHANGED <<provider, told>>
        \/ ~Cancelled /\ ok /\ Deliver(staged, Tail(tail), faulty)
    BY DEF EndStage, Staged, staged
  <2> QED BY <2>1, <2>2, <2>3, <2>4
<1> HIDE DEF r
<1> QED BY <1>1, <1>2, <1>3, <1>7, DecisionEndedInv

---------------------------------------------------------------------------
(* The theorems *)

LEMMA InvStep == Inv /\ [Next]_vars => Inv'
<1> SUFFICES ASSUME Inv, [Next]_vars
             PROVE  Inv'
  OBVIOUS
<1>1. CASE BeginRequest \/ SettleRequest \/ BeginResolve \/ SettleAllow \/ TakeCheckpoint
  BY <1>1, BeginRequestStep, SettleRequestStep, BeginResolveStep, SettleAllowStep, CheckpointStep
<1>2. CASE BeginSave \/ HandleReport \/ Interrupt
  BY <1>2, BeginSaveStep, HandleReportStep, InterruptStep
<1>3. ASSUME NEW ok \in BOOLEAN, EndPersist(ok) \/ EndPromote(ok)
      PROVE  Inv'
  BY <1>3, EndPersistStep, EndPromoteStep
<1>4. ASSUME NEW ok \in BOOLEAN, NEW faulty \in BOOLEAN, EndDecide(ok, faulty) \/ EndStage(ok, faulty)
      PROVE  Inv'
  BY <1>4, EndDecideStep, EndStageStep
<1>5. CASE Steps
  BY <1>1, <1>2, <1>3, <1>4, <1>5 DEF Steps
<1>6. ASSUME NEW r \in Requests, Ask(r) \/ AnsweredElsewhere(r)
      PROVE  Inv'
  BY <1>6, AskStep, ElsewhereStep
<1>7. ASSUME NEW r \in Requests, NEW d \in Verdicts, NEW k \in 1..(MaxFaults + 1), Decide(r, d, k)
      PROVE  Inv'
  <2>1. k \in Nat
    BY ConstantsTyped
  <2> QED BY <1>7, <2>1, DecideStep
<1>8. CASE TakeFence \/ StartTurn \/ EndTurn \/ (\E r \in Requests : Swap(r)) \/ UNCHANGED vars
  BY <1>8, QuietStep
<1>9. CASE BeginStop \/ LiftFence \/ Disconnect \/ Crash
  BY <1>9, BeginStopStep, LiftFenceStep, DisconnectStep, CrashStep
<1> QED BY <1>5, <1>6, <1>7, <1>8, <1>9 DEF Next

LEMMA InvCorrect == Spec => []Inv
<1> QED BY InvInit, InvStep, PTL DEF Spec

(* A decision is on disk before the agent hears it and no later save or      *)
(* crash loses it; a standing rule is in force, here or after a restart,     *)
(* only if the agent has the decision that made it.                          *)
THEOREM SavedCorrect == Spec => []SavedFirst
<1>1. Inv => SavedFirst
  <2> SUFFICES ASSUME Inv
               PROVE  SavedFirst
    OBVIOUS
  <2>1. CopyFits(mem) /\ CopyFits(disk)
    BY DEF Inv, Saved, Copies
  <2> QED BY <2>1 DEF CopyFits, SavedFirst, AllowIsSaved, RuleAfterDelivery
<1> QED BY <1>1, InvCorrect, PTL

LEMMA UsesAreCounted ==
  ASSUME Inv
  PROVE  UsesCounted
<1> SUFFICES ASSUME crashes = 0, ~(run.kind = "request" /\ run.step = "using"), NEW q \in Requests
             PROVE  mem.uses[q] <= Cardinality({r \in Requests \ {q} : told[r] # "denied"})
  BY DEF UsesCounted
<1> DEFINE Counted == {r \in Requests \ {q} : told[r] # "denied"}
<1>1. /\ mem.uses[q] <= Cardinality(Used) + (IF Using(q) THEN 1 ELSE 0)
      /\ mem.uses[q] > 0 => told[q] = "person"
      /\ mem.uses[q] \in Nat /\ ~Using(q)
  BY DEF Inv, UsesFit, TypeOK, Images, Using
<1>2. IsFiniteSet(Counted)
  <2>1. Counted \subseteq Requests
    OBVIOUS
  <2> HIDE DEF Counted
  <2> QED BY <2>1, ConstantsTyped, FS_Subset
<1>3. Cardinality(Counted) \in Nat /\ Cardinality(Used) \in Nat
  <2> HIDE DEF Counted
  <2> QED BY <1>2, UsedFinite, FS_CardinalityType
<1>4. ASSUME told[q] = "person"
      PROVE  Cardinality(Used) <= Cardinality(Counted)
  <2>1. Used \subseteq Counted
    BY <1>4 DEF Used
  <2> HIDE DEF Counted
  <2> QED BY <1>2, <2>1, FS_Subset
<1> HIDE DEF Counted
<1> QED BY <1>1, <1>3, <1>4 DEF Counted

(* Receipts say what the agent was told, a request answered elsewhere has    *)
(* none, its report is not lost to an emergency stop, and a rule counts no   *)
(* request that was denied after all.                                        *)
THEOREM RecordsCorrect == Spec => []RecordsAreTrue
<1>1. Inv => RecordsAreTrue
  <2> SUFFICES ASSUME Inv
               PROVE  RecordsAreTrue
    OBVIOUS
  <2>1. ReceiptIsTrue
    BY IdleIs DEF Inv, Truth, ReceiptIsTrue
  <2>2. UsesCounted
    BY UsesAreCounted
  <2> QED BY <2>1, <2>2 DEF Inv, RecordsAreTrue
<1> QED BY <1>1, InvCorrect, PTL

(* What a step may tell the agent and show: nothing is allowed past a stop   *)
(* or the fence, and a person's allow is of the revision they were shown.    *)
Guarded ==
  /\ \A r \in Requests : told'[r] \in AllowedBy /\ told[r] = "none"
       => stop = "none" /\ stamp[r] = [gen |-> gen, during |-> FALSE]
  /\ fence => \A r \in Requests :
       /\ told'[r] \in {"policy", "rule"} => told[r] = told'[r]
       /\ r \in mem'.shown \ mem.shown => run.kind = "resolve"
  /\ \A r \in Requests : told'[r] = "person" /\ told[r] = "none"
       => run.rev = Len(card[r]) /\ card[r][run.rev] = run.read

(* A step that allows nothing and shows no card.                             *)
Allowing ==
  /\ \A r \in Requests : told'[r] \in AllowedBy => told'[r] = told[r]
  /\ mem'.shown \subseteq mem.shown

LEMMA NotAllowing ==
  ASSUME Allowing
  PROVE  Guarded
BY DEF Allowing, Guarded, AllowedBy

(* A request admitted past the stop and the fence.                           *)
LEMMA AdmittedOnes ==
  ASSUME Inv, NEW r \in Requests, Admitted(r)
  PROVE  stop = "none" /\ ~fence /\ stamp[r] = [gen |-> gen, during |-> FALSE]
<1>1. stop = "none" /\ ~fence /\ stamp[r].gen = gen /\ ~stamp[r].during
  BY DEF Admitted, StopOvertook
<1>2. stamp[r] \in [gen : Nat, during : BOOLEAN]
  BY DEF Inv, TypeOK
<1>3. stamp[r].during = FALSE
  BY <1>1, <1>2, Zenon
<1> QED BY <1>1, <1>2, <1>3

(* An answer that Domovoi gives of itself to an admitted request.            *)
LEMMA AnswerGuarded ==
  ASSUME Inv, NEW r \in Requests, Admitted(r), NEW a \in {"denied", "policy", "rule"}, Answer(r, a),
         mem'.shown = mem.shown
  PROVE  Guarded
<1>1. told \in [Requests -> {"none", "denied", "person", "policy", "rule"}]
  BY DEF Inv, TypeOK
<1>2. \A q \in Requests : told'[q] # told[q] => q = r /\ told'[q] = a
  BY <1>1 DEF Answer, Told
<1>3. stop = "none" /\ ~fence /\ stamp[r] = [gen |-> gen, during |-> FALSE]
  BY AdmittedOnes
<1> QED BY <1>2, <1>3 DEF Guarded, AllowedBy

(* A denial, or a request held.                                              *)
LEMMA DenialGuarded ==
  ASSUME Inv, NEW r \in Requests, Answer(r, "denied") \/ UNCHANGED told, mem'.shown = mem.shown
  PROVE  Guarded
<1>1. told \in [Requests -> {"none", "denied", "person", "policy", "rule"}]
  BY DEF Inv, TypeOK
<1>2. \A q \in Requests : told'[q] # told[q] => told'[q] = "denied"
  BY <1>1 DEF Answer, Told
<1>3. Allowing
  BY <1>2 DEF Allowing, AllowedBy
<1> QED BY <1>3, NotAllowing

LEMMA SettleGuarded ==
  ASSUME Inv, SettleRequest
  PROVE  Guarded
<1> DEFINE r == run.req
<1>1. r \in Requests /\ mem \in Images
  BY RequestRuns DEF SettleRequest, Inv, TypeOK
<1>2. CASE UNCHANGED mem /\ (Answer(r, "denied") \/ UNCHANGED told)
  BY <1>1, <1>2, DenialGuarded
<1>3. CASE Admitted(r) /\ Answer(r, "policy") /\ UNCHANGED mem
  BY <1>1, <1>3, AnswerGuarded
<1>4. CASE UNCHANGED told /\ \E q \in ActiveRules : mem' = [mem EXCEPT !.uses[q] = @ + 1]
  <2>1. mem'.shown = mem.shown
    BY <1>1, <1>4 DEF Images
  <2> QED BY <1>1, <1>4, <2>1, DenialGuarded
<1>5. CASE Admitted(r) /\ UNCHANGED told
  <2>1. ~fence
    BY <1>5 DEF Admitted
  <2> QED BY <1>5, <2>1 DEF Guarded, AllowedBy
<1> HIDE DEF r
<1>6. \/ UNCHANGED mem /\ (Answer(r, "denied") \/ UNCHANGED told)
      \/ Admitted(r) /\ Answer(r, "policy") /\ UNCHANGED mem
      \/ UNCHANGED told /\ \E q \in ActiveRules : mem' = [mem EXCEPT !.uses[q] = @ + 1]
      \/ Admitted(r) /\ UNCHANGED told
  BY DEF SettleRequest, Refused, Held, r
<1> QED BY <1>2, <1>3, <1>4, <1>5, <1>6

LEMMA PersistGuarded ==
  ASSUME Inv, NEW ok \in BOOLEAN, EndPersist(ok)
  PROVE  Guarded
<1> DEFINE r == run.req
<1>1. mem \in Images
  BY DEF Inv, TypeOK
<1>2. CASE UNCHANGED <<mem, told>>
  <2>1. Allowing
    BY <1>2 DEF Allowing
  <2> QED BY <2>1, NotAllowing
<1>3. CASE run.kind = "request" /\ Admitted(r) /\ Answer(r, "rule") /\ UNCHANGED mem
  <2>1. r \in Requests
    BY <1>3, RequestRuns
  <2> QED BY <1>3, <2>1, AnswerGuarded
<1>4. CASE run.kind = "request" /\ mem' = Unused(mem) /\ (Answer(r, "denied") \/ UNCHANGED told)
  <2>1. r \in Requests /\ run.by \in Requests
    BY <1>4, RequestRuns
  <2>2. mem'.shown = mem.shown
    BY <1>1, <1>4 DEF Images, Unused
  <2> QED BY <1>4, <2>1, <2>2, DenialGuarded
<1>5. \/ UNCHANGED <<mem, told>>
      \/ run.kind = "request" /\ Admitted(r) /\ Answer(r, "rule") /\ UNCHANGED mem
      \/ run.kind = "request" /\ mem' = Unused(mem) /\ (Answer(r, "denied") \/ UNCHANGED told)
  BY DEF EndPersist, Refused, Held
<1> QED BY <1>2, <1>3, <1>4, <1>5

(* A decision reaches the agent only as one that nothing overtook.           *)
LEMMA DeliverGuarded ==
  ASSUME Inv, tail # <<>>, Head(tail).kind \in {"decide", "stage"},
         NEW m, Unheard(m), NEW faulty \in BOOLEAN, Deliver(m, Tail(tail), faulty)
  PROVE  Guarded
<1> DEFINE r == run.req
<1>1. /\ r \in Requests /\ run.kind = "resolve" /\ run.step \in {"deciding", "staging"}
      /\ run.verdict \in Verdicts
  BY HeadWaits
<1>2. told \in [Requests -> {"none", "denied", "person", "policy", "rule"}] /\ card \in [Requests -> Seq(Nat)]
  BY DEF Inv, TypeOK
<1>3. stop = "none" /\ stamp[r] = [gen |-> gen, during |-> FALSE]
  BY DEF Unheard
<1>4. run.verdict \in Allows => run.rev = Len(card[r]) /\ card[r][run.rev] = run.read
  <2> SUFFICES ASSUME run.verdict \in Allows
               PROVE  run.rev = Len(card[r]) /\ card[r][run.rev] = run.read
    OBVIOUS
  <2>1. run.rev = Len(card[r]) /\ run.read = Last(card[r])
    BY <1>1 DEF Inv, RunFits
  <2> QED BY <2>1 DEF Last
<1>5. \A q \in Requests : told'[q] # told[q] =>
        q = r /\ (told'[q] = "denied" \/ (told'[q] = "person" /\ run.verdict \in Allows))
  <2>1. CASE told' = [told EXCEPT ![r] = IF run.verdict = "deny" THEN "denied" ELSE "person"]
    BY <1>1, <1>2, <2>1 DEF Verdicts, Allows
  <2>2. CASE UNCHANGED told
    BY <2>2
  <2> QED BY <2>1, <2>2 DEF Deliver
<1> HIDE DEF r
<1>6. run.kind = "resolve"
  BY <1>1
<1> QED BY <1>3, <1>4, <1>5, <1>6 DEF Guarded, AllowedBy

LEMMA DecisionGuarded ==
  ASSUME run.kind = "resolve", UNCHANGED told
  PROVE  Guarded
BY DEF Guarded, AllowedBy

LEMMA DecideGuarded ==
  ASSUME Inv, NEW ok \in BOOLEAN, NEW faulty \in BOOLEAN, EndDecide(ok, faulty)
  PROVE  Guarded
<1>1. tail # <<>> /\ Head(tail).kind = "decide"
  BY DEF EndDecide
<1>2. run.kind = "resolve" /\ run.step = "deciding"
  BY <1>1, HeadWaits
<1>3. CASE StillPending /\ Deliver(Decided(mem), Tail(tail), faulty)
  <2>1. Unheard(Decided(mem))
    BY <1>2, <1>3, PendingUnheard
  <2> QED BY <1>1, <1>3, <2>1, DeliverGuarded
<1>4. CASE UNCHANGED told
  BY <1>2, <1>4, DecisionGuarded
<1> QED BY <1>3, <1>4 DEF EndDecide

LEMMA StageGuarded ==
  ASSUME Inv, NEW ok \in BOOLEAN, NEW faulty \in BOOLEAN, EndStage(ok, faulty)
  PROVE  Guarded
<1>1. tail # <<>> /\ Head(tail).kind = "stage"
  BY DEF EndStage
<1>2. run.kind = "resolve" /\ run.step = "staging"
  BY <1>1, HeadWaits
<1>3. CASE ~Cancelled /\ Deliver(Staged(ok), Tail(tail), faulty)
  <2>1. Unheard(Staged(ok))
    BY <1>2, <1>3, StagedUnheard
  <2> QED BY <1>1, <1>3, <2>1, DeliverGuarded
<1>4. CASE UNCHANGED told
  BY <1>2, <1>4, DecisionGuarded
<1> QED BY <1>3, <1>4 DEF EndStage, Staged

(* An emergency stop, and the lifting of the fence, only deny.               *)
LEMMA StopGuarded ==
  ASSUME Inv, BeginStop \/ LiftFence
  PROVE  Guarded
<1>1. told \in [Requests -> {"none", "denied", "person", "policy", "rule"}] /\ mem \in Images
  BY DEF Inv, TypeOK
<1>2. \A q \in Requests : told'[q] \in {told[q], "denied"}
  BY <1>1 DEF BeginStop, LiftFence
<1>3. mem'.shown \subseteq mem.shown
  <2>1. CASE LiftFence
    BY <2>1 DEF LiftFence
  <2>2. CASE BeginStop
    <3> DEFINE x == [mem EXCEPT !.shown = {}]
    <3>1. \E y : mem' = [x EXCEPT !.receipt = y]
      BY <2>2 DEF BeginStop
    <3>2. x = [shown |-> {}, receipt |-> mem.receipt, rule |-> mem.rule, uses |-> mem.uses]
      BY <1>1, ShownIs
    <3> HIDE DEF x
    <3> QED BY <3>1, <3>2
  <2> QED BY <2>1, <2>2
<1>4. Allowing
  BY <1>2, <1>3 DEF Allowing, AllowedBy
<1> QED BY <1>4, NotAllowing

(* The steps that answer nobody and show nothing.                            *)
LEMMA OtherGuarded ==
  ASSUME Inv, told' = told, \/ mem' = mem
                            \/ HandleReport
                            \/ Disconnect
                            \/ Crash
                            \/ \E ok \in BOOLEAN : EndPromote(ok)
  PROVE  Guarded
<1>1. mem \in Images
  BY DEF Inv, TypeOK
<1>2. mem'.shown \subseteq mem.shown
  <2>1. CASE mem' = mem
    BY <2>1
  <2>2. CASE HandleReport \/ Disconnect
    <3>1. \E S \in SUBSET mem.shown : mem' = [mem EXCEPT !.shown = S]
      BY <2>2 DEF HandleReport, Disconnect
    <3> QED BY <1>1, <3>1, ShownIs
  <2>3. CASE Crash
    <3>1. mem' \in Images /\ mem'.shown = {}
      BY <2>3, CrashLoads
    <3> QED BY <3>1
  <2>4. ASSUME NEW ok \in BOOLEAN, EndPromote(ok)
        PROVE  mem'.shown \subseteq mem.shown
    <3>1. tail # <<>> /\ Head(tail).kind = "promote" /\ mem' = IF ok THEN WithRule(mem, "active") ELSE mem
      BY <2>4 DEF EndPromote
    <3>2. run.req \in Requests
      BY <3>1, HeadWaits
    <3> QED BY <1>1, <3>1, <3>2, WithRuleIs
  <2> QED BY <2>1, <2>2, <2>3, <2>4
<1>3. Allowing
  BY <1>2 DEF Allowing
<1> QED BY <1>3, NotAllowing

LEMMA GuardedNext ==
  ASSUME Inv, Next
  PROVE  Guarded
<1>1. CASE BeginRequest
  <2>1. mem' = mem /\ (told' = told \/ Answer(Head(queue).req, "denied")) /\ Head(queue).req \in Requests
    <3>1. Head(queue) \in Range(queue)
      BY <1>1, RangeTail DEF BeginRequest, Inv, TypeOK
    <3>2. Head(queue).req \in Requests
      BY <3>1, JobsTyped DEF Inv, TypeOK
    <3> QED BY <1>1, <3>2 DEF BeginRequest, Refused, Held
  <2> QED BY <2>1, DenialGuarded
<1>2. CASE BeginResolve \/ SettleAllow \/ TakeCheckpoint \/ BeginSave \/ Interrupt
  <2>1. mem' = mem /\ told' = told
    BY <1>2 DEF BeginResolve, SettleAllow, TakeCheckpoint, BeginSave, Interrupt
  <2> QED BY <2>1, OtherGuarded
<1>3. CASE HandleReport \/ Disconnect \/ Crash
  <2>1. told' = told
    BY <1>3 DEF HandleReport, Disconnect, Crash
  <2> QED BY <1>3, <2>1, OtherGuarded
<1>4. ASSUME NEW ok \in BOOLEAN, EndPersist(ok) \/ EndPromote(ok)
      PROVE  Guarded
  <2>1. CASE EndPromote(ok)
    <3>1. told' = told
      BY <2>1 DEF EndPromote
    <3> QED BY <2>1, <3>1, OtherGuarded
  <2> QED BY <1>4, <2>1, PersistGuarded
<1>5. ASSUME NEW ok \in BOOLEAN, NEW faulty \in BOOLEAN, EndDecide(ok, faulty) \/ EndStage(ok, faulty)
      PROVE  Guarded
  BY <1>5, DecideGuarded, StageGuarded
<1>6. CASE Steps
  BY <1>1, <1>2, <1>3, <1>4, <1>5, <1>6, SettleGuarded DEF Steps
<1>7. ASSUME NEW r \in Requests, Ask(r) \/ AnsweredElsewhere(r) \/ Swap(r)
      PROVE  Guarded
  <2>1. mem' = mem /\ told' = told
    BY <1>7 DEF Ask, AnsweredElsewhere, Swap, still
  <2> QED BY <2>1, OtherGuarded
<1>8. ASSUME NEW r \in Requests, NEW d \in Verdicts, NEW k \in 1..(MaxFaults + 1), Decide(r, d, k)
      PROVE  Guarded
  <2>1. mem' = mem /\ told' = told
    BY <1>8 DEF Decide
  <2> QED BY <2>1, OtherGuarded
<1>9. CASE TakeFence \/ StartTurn \/ EndTurn
  <2>1. mem' = mem /\ told' = told
    BY <1>9 DEF TakeFence, StartTurn, EndTurn, still
  <2> QED BY <2>1, OtherGuarded
<1>10. CASE BeginStop \/ LiftFence
  BY <1>10, StopGuarded
<1> QED BY <1>3, <1>6, <1>7, <1>8, <1>9, <1>10 DEF Next

LEMMA GuardedStep == Inv /\ [Next]_vars =>
  /\ [\A r \in Requests : told'[r] \in AllowedBy /\ told[r] = "none"
        => stop = "none" /\ stamp[r] = [gen |-> gen, during |-> FALSE]]_vars
  /\ [fence => \A r \in Requests :
       /\ told'[r] \in {"policy", "rule"} => told[r] = told'[r]
       /\ r \in mem'.shown \ mem.shown => run.kind = "resolve"]_vars
  /\ [\A r \in Requests : told'[r] = "person" /\ told[r] = "none"
        => run.rev = Len(card[r]) /\ card[r][run.rev] = run.read]_vars
<1> SUFFICES ASSUME Inv, Next
             PROVE  Guarded
  BY Zenon DEF Guarded
<1> QED BY GuardedNext

(* What reaches the agent as an allow was admitted: no emergency stop has    *)
(* begun since the request came, the handoff fence is not held, and a        *)
(* person's allow is of the revision and the target they were shown.         *)
THEOREM GuardedCorrect == Spec => AllowGuarded
<1>1. Spec => NoAllowPastStop /\ FenceHolds /\ AllowedAsShown
  BY InvCorrect, GuardedStep, PTL DEF Spec, NoAllowPastStop, FenceHolds, AllowedAsShown
<1> QED BY <1>1 DEF AllowGuarded

---------------------------------------------------------------------------
(* The queue the session's handlers run on                                   *)
(*                                                                           *)
(* The theorems below are about ResourceMutationQueue, for every number of   *)
(* resources, requests and cancellations; approvals are handled on the lane  *)
(* of their session, one of its resources.  A request waits for two promises *)
(* at most (or, when exclusive, for the last one of every resource), and yet *)
(* runs after every earlier request it conflicts with.  The argument is a    *)
(* chain: an unsettled task is never later than the tail of its resource     *)
(* (Tails), so what the next request captures reaches it (Chain); the tail   *)
(* may be forgotten only when it has settled, and then everything before it  *)
(* has too (InOrder).                                                        *)

\* onCancelled was called exactly when the entry says so.
CallsCounted ==
    \A t \in Lane!Tasks : calls[t] = IF notified[t] THEN 1 ELSE 0

LaneTypes == Lane!TypeOK /\ CallsCounted

\* Task numbers are handed out in order, and the unborn tasks are untouched.
Numbered ==
    \A t \in Lane!Tasks : phase[t] = "unborn" <=> t >= next

\* The fields of the queue point at tasks of the kind they are for.
Pointers ==
    /\ barrier # Lane!NoTask => barrier < next /\ name[barrier] = Exclusive
    /\ \A r \in Resources :
          resources[r] # Lane!NoTask => resources[r] < next /\ name[resources[r]] = r

\* A task waits for earlier tasks only, and no longer once it has started.
DepsEarlier ==
    /\ \A t \in Lane!Tasks : \A d \in deps[t] : d < t /\ d < next
    /\ \A t \in Lane!Tasks :
          phase[t] \in {"running", "settled"} => \A d \in deps[t] : phase[d] = "settled"

Unended(t) == phase[t] \in {"queued", "running"}

\* An unsettled task is not later than the tail of its chain.
Tails ==
    \A t \in Lane!Tasks :
        Unended(t) =>
            IF name[t] = Exclusive THEN t <= barrier ELSE t <= resources[name[t]]

\* Whoever waits for D waits for t: t is one of D, or a later task of D waited for it.
Reaches(D, t) == \E d \in D : t = d \/ (t < d /\ Lane!Conflict(t, d))

\* What a task captured reaches every unsettled earlier task it conflicts with.
Chain ==
    \A t, u \in Lane!Tasks :
        /\ t < u
        /\ Unended(t)
        /\ phase[u] # "unborn"
        /\ Lane!Conflict(t, u)
        => Reaches(deps[u], t)

OrderInv ==
    /\ LaneTypes
    /\ Numbered
    /\ Pointers
    /\ DepsEarlier
    /\ Tails
    /\ Chain
    /\ Lane!InOrder

\* Where a task is decides whether it was told of a cancellation: a told task is
\* aborted and waiting, or settled as cancelled; a queued task cancelAll forgot was told.
ToldOnce(t) ==
    /\ notified[t] =>
          \/ phase[t] = "queued" /\ aborted[t]
          \/ phase[t] = "settled" /\ result[t] = "cancelled"
    /\ result[t] = "cancelled" => notified[t]
    /\ phase[t] = "settled" <=> result[t] # "none"
    /\ phase[t] = "running" => t \in entries
    /\ phase[t] = "queued" => t \in entries \/ notified[t]
    /\ t \in entries => Unended(t)

ToldCancelled == \A t \in Lane!Tasks : ToldOnce(t)

CancelInv == OrderInv /\ ToldCancelled

\* A drain in progress awaits promises that reach every unsettled task before it.
Drains ==
    /\ drains.upTo <= next
    /\ \A d \in drains.awaits : d < next
    /\ drains.state # "idle" =>
          \A t \in Lane!Tasks : t < drains.upTo /\ Unended(t) => Reaches(drains.awaits, t)
    /\ drains.state = "done" => \A d \in drains.awaits : phase[d] = "settled"

DrainInv == OrderInv /\ Drains

-----------------------------------------------------------------------------

\* The types hold initially and every step keeps them, so onCancelled is called at
\* most once per request (#notifyCancelled).
LEMMA LaneTypeInit == Lane!Init => LaneTypes
BY LaneAssumption DEF Lane!QueueAssumption, Lane!Init, LaneTypes, Lane!TypeOK, CallsCounted, Lane!NoDrain,
     Lane!Names, Lane!NoTask, Lane!Tasks

LEMMA LaneTypeStep == LaneTypes /\ [Lane!Next]_Lane!vars => LaneTypes'
<1> SUFFICES ASSUME LaneTypes, [Lane!Next]_Lane!vars PROVE LaneTypes'
    OBVIOUS
<1> USE LaneAssumption DEF Lane!QueueAssumption, LaneTypes, Lane!TypeOK, CallsCounted, Lane!Names, Lane!NoTask,
     Lane!Tasks
<1>0. ASSUME NEW n \in Lane!Names PROVE Lane!Dependencies(n) \subseteq Lane!Tasks
    BY DEF Lane!Dependencies, Lane!Outstanding
<1>1. ASSUME NEW T, Lane!NotifyCancelled(T)
      PROVE  /\ notified' \in [Lane!Tasks -> BOOLEAN]
             /\ calls' \in [Lane!Tasks -> 0 .. 1]
             /\ \A t \in Lane!Tasks : calls'[t] = IF notified'[t] THEN 1 ELSE 0
  <2>1. notified' \in [Lane!Tasks -> BOOLEAN]
      BY <1>1, Zenon DEF Lane!NotifyCancelled
  <2>2. ASSUME NEW t \in Lane!Tasks
        PROVE  /\ calls'[t] \in 0 .. 1
               /\ calls'[t] = IF notified'[t] THEN 1 ELSE 0
    <3>1. notified[t] \in BOOLEAN /\ calls[t] = IF notified[t] THEN 1 ELSE 0
        OBVIOUS
    <3>2. notified'[t] = (notified[t] \/ t \in T)
        BY <1>1, Zenon DEF Lane!NotifyCancelled
    <3>3. calls'[t] = IF t \in T /\ ~notified[t] THEN calls[t] + 1 ELSE calls[t]
        BY <1>1, Zenon DEF Lane!NotifyCancelled
    <3>4. CASE notified[t]
      <4>1. notified'[t] /\ calls'[t] = calls[t] /\ calls[t] = 1
          BY <3>1, <3>2, <3>3, <3>4, Zenon
      <4> QED BY <4>1
    <3>5. CASE ~notified[t] /\ t \in T
      <4>1. notified'[t] /\ calls'[t] = calls[t] + 1 /\ calls[t] = 0
          BY <3>1, <3>2, <3>3, <3>5, Zenon
      <4> QED BY <4>1
    <3>6. CASE ~notified[t] /\ t \notin T
      <4>1. ~notified'[t] /\ calls'[t] = calls[t] /\ calls[t] = 0
          BY <3>1, <3>2, <3>3, <3>6, Zenon
      <4> QED BY <4>1
    <3> QED BY <3>4, <3>5, <3>6
  <2>3. calls' = [t \in Lane!Tasks |-> calls'[t]]
      BY <1>1 DEF Lane!NotifyCancelled
  <2> QED BY <2>1, <2>2, <2>3
<1>2. ASSUME NEW r \in Resources, Lane!Enqueue(r) PROVE LaneTypes'
    BY <1>0, <1>2 DEF Lane!Enqueue, Lane!Entry
<1>3. CASE Lane!EnqueueExclusive
    BY <1>0, <1>3 DEF Lane!EnqueueExclusive, Lane!Entry
<1>4. CASE Lane!CancelAll
  <2>1. generation' \in 0 .. MaxCancels
      BY <1>4 DEF Lane!CancelAll
  <2> QED BY <1>1, <1>4, <2>1 DEF Lane!CancelAll
<1>5. ASSUME NEW t \in Lane!Tasks, Lane!Skip(t) PROVE LaneTypes'
    BY <1>1, <1>5 DEF Lane!Skip
<1>6. ASSUME NEW t \in Lane!Tasks, Lane!Start(t) PROVE LaneTypes'
    BY <1>6 DEF Lane!Start
<1>7. ASSUME NEW t \in Lane!Tasks, Lane!Complete(t) PROVE LaneTypes'
    BY <1>7 DEF Lane!Complete
<1>8. ASSUME NEW t \in Lane!Tasks, Lane!Throw(t) PROVE LaneTypes'
    BY <1>1, <1>8 DEF Lane!Throw
<1>9. ASSUME NEW r \in Resources, Lane!Forget(r) PROVE LaneTypes'
    BY <1>9 DEF Lane!Forget, Lane!taskVars
<1>10. CASE Lane!Drain
    BY <1>10 DEF Lane!Drain, Lane!Outstanding, Lane!taskVars
<1>11. CASE Lane!Drained
    BY <1>11 DEF Lane!Drained, Lane!taskVars
<1>12. CASE UNCHANGED Lane!vars
    BY <1>12 DEF Lane!vars, Lane!taskVars
<1> QED
    BY <1>2, <1>3, <1>4, <1>5, <1>6, <1>7, <1>8, <1>9, <1>10, <1>11, <1>12 DEF Lane!Next

\* The queue's types hold in every reachable state.
THEOREM LaneTypeCorrect == LaneSpec => []Lane!TypeOK
<1>1. LaneTypes => Lane!TypeOK
    BY DEF LaneTypes
<1>2. Lane!Init => LaneTypes
    BY LaneTypeInit
<1>3. LaneTypes /\ [Lane!Next]_Lane!vars => LaneTypes'
    BY LaneTypeStep
<1> QED BY <1>1, <1>2, <1>3, PTL DEF LaneSpec, Lane!Spec

-----------------------------------------------------------------------------

\* The order's invariant, without the types.
Ordered == Numbered /\ Pointers /\ DepsEarlier /\ Tails /\ Chain /\ Lane!InOrder

\* The tasks whose promises D holds have settled, so everything D reaches has
\* settled: promises stand for the whole chain behind them.
LEMMA LaneReachSettled ==
    ASSUME OrderInv, NEW t \in Lane!Tasks, NEW D \in SUBSET Lane!Tasks, Reaches(D, t),
           phase[t] # "unborn", \A d \in D : phase[d] = "settled"
    PROVE  phase[t] = "settled"
BY DEF OrderInv, LaneTypes, Lane!TypeOK, Reaches, Lane!InOrder, Lane!Tasks

\* A task that starts or settles keeps the order.
LEMMA LaneAdvanceKeepsOrder ==
    ASSUME OrderInv, NEW a \in Lane!Tasks, NEW x \in {"running", "settled"},
           Lane!Ready(a) \/ phase[a] = "running",
           phase' = [phase EXCEPT ![a] = x],
           UNCHANGED <<next, barrier, resources, name, deps>>,
           x = "running" => phase[a] = "queued"
    PROVE  Ordered'
<1> USE DEF OrderInv, LaneTypes, Lane!TypeOK
<1>1. /\ phase[a] \in {"queued", "running"}
      /\ \A d \in deps[a] : phase[d] = "settled"
    BY DEF Lane!Ready, DepsEarlier
<1>2. \A t \in Lane!Tasks : phase'[t] = IF t = a THEN x ELSE phase[t]
    OBVIOUS
<1>3. \A t, u : Lane!Conflict(t, u)' <=> Lane!Conflict(t, u)
    BY DEF Lane!Conflict
<1>4. \A t \in Lane!Tasks : \A D : Reaches(D, t)' <=> Reaches(D, t)
    BY <1>3 DEF Reaches
<1>5. Numbered' /\ Pointers'
    BY <1>1, <1>2 DEF Numbered, Pointers
<1>6. DepsEarlier'
  <2>1. \A t \in Lane!Tasks : deps[t] \subseteq Lane!Tasks
      OBVIOUS
  <2>2. \A d \in Lane!Tasks : phase[d] = "settled" => phase'[d] = "settled"
      BY <1>1, <1>2
  <2> QED BY <1>1, <1>2, <2>1, <2>2 DEF DepsEarlier
<1>7. Tails'
    BY <1>1, <1>2 DEF Tails, Unended
<1>8. Chain'
    BY <1>1, <1>2, <1>3, <1>4 DEF Chain, Unended
<1>9. Lane!InOrder'
  <2> SUFFICES ASSUME NEW t \in Lane!Tasks, NEW u \in Lane!Tasks, t < u, phase'[t] # "unborn",
                      phase'[u] \in {"running", "settled"}, Lane!Conflict(t, u)
               PROVE  phase'[t] = "settled"
      BY <1>3 DEF Lane!InOrder
  <2>1. phase[t] # "unborn"
      BY <1>1, <1>2
  <2>2. CASE u # a
    <3>1. phase[t] = "settled"
        BY <1>2, <2>1, <2>2 DEF Lane!InOrder
    <3> QED BY <1>1, <1>2, <3>1
  <2>3. CASE u = a
    <3>1. CASE Unended(t)
      <4>1. Reaches(deps[u], t)
          BY <1>1, <2>3, <3>1 DEF Chain
      <4>2. phase[t] = "settled"
          BY <1>1, <2>1, <2>3, <4>1, LaneReachSettled
      <4> QED BY <3>1, <4>2 DEF Unended
    <3>2. CASE ~Unended(t)
        BY <1>2, <2>1, <2>3, <3>2 DEF Unended, Lane!Tasks
    <3> QED BY <3>1, <3>2
  <2> QED BY <2>2, <2>3
<1> QED BY <1>5, <1>6, <1>7, <1>8, <1>9 DEF Ordered

\* The promises of the queue reach every unsettled task the next request for n
\* conflicts with.
LEMMA LaneDependenciesReach ==
    ASSUME OrderInv, NEW n \in Lane!Names, NEW t \in Lane!Tasks, Unended(t),
           n = Exclusive \/ name[t] = Exclusive \/ name[t] = n
    PROVE  Reaches(Lane!Dependencies(n), t)
<1> USE LaneAssumption DEF Lane!QueueAssumption, OrderInv, LaneTypes, Lane!TypeOK, Lane!Names, Lane!NoTask,
     Lane!Tasks
<1>1. CASE name[t] = Exclusive
  <2>1. t <= barrier /\ barrier # Lane!NoTask
      BY <1>1 DEF Tails
  <2>2. barrier \in Lane!Dependencies(n)
      BY <2>1, Zenon DEF Lane!Dependencies, Lane!Outstanding
  <2>3. t = barrier \/ (t < barrier /\ Lane!Conflict(t, barrier))
      BY <1>1, <2>1 DEF Lane!Conflict
  <2> QED BY <2>2, <2>3 DEF Reaches
<1>2. CASE name[t] # Exclusive
  <2> DEFINE d == resources[name[t]]
  <2>1. name[t] \in Resources
      BY <1>2
  <2>2. t <= d /\ d # Lane!NoTask
      BY <1>2, <2>1 DEF Tails
  <2>3. d \in Lane!Dependencies(n)
      BY <1>2, <2>1, <2>2 DEF Lane!Dependencies, Lane!Outstanding
  <2>4. name[d] = name[t]
      BY <2>1, <2>2 DEF Pointers
  <2>5. t = d \/ (t < d /\ Lane!Conflict(t, d))
      BY <2>1, <2>2, <2>4 DEF Lane!Conflict
  <2> QED BY <2>3, <2>5 DEF Reaches
<1> QED BY <1>1, <1>2

\* A new task, for a resource or exclusive, keeps the order.
LEMMA LaneEntryKeepsOrder ==
    ASSUME OrderInv, NEW n \in Lane!Names, Lane!Entry(n),
           \/ n = Exclusive /\ barrier' = next /\ UNCHANGED resources
           \/ n # Exclusive /\ resources' = [resources EXCEPT ![n] = next] /\ UNCHANGED barrier
    PROVE  Ordered'
<1> USE LaneAssumption DEF Lane!QueueAssumption, OrderInv, LaneTypes, Lane!TypeOK, Lane!Names, Lane!NoTask,
     Lane!Tasks
<1>1. /\ next \in Lane!Tasks
      /\ next' = next + 1
      /\ phase[next] = "unborn"
      /\ \A t \in Lane!Tasks : phase'[t] = IF t = next THEN "queued" ELSE phase[t]
      /\ \A t \in Lane!Tasks : name'[t] = IF t = next THEN n ELSE name[t]
      /\ \A t \in Lane!Tasks : deps'[t] = IF t = next THEN Lane!Dependencies(n) ELSE deps[t]
    BY DEF Lane!Entry, Numbered
<1>2. /\ Lane!Dependencies(n) \subseteq Lane!Tasks
      /\ \A d \in Lane!Dependencies(n) : d < next
    BY DEF Lane!Dependencies, Lane!Outstanding, Pointers
<1>3. Numbered'
    BY <1>1 DEF Numbered
<1>4. Pointers'
  <2>1. barrier' # Lane!NoTask => barrier' < next' /\ name'[barrier'] = Exclusive
      BY <1>1 DEF Pointers
  <2>2. ASSUME NEW r \in Resources, resources'[r] # Lane!NoTask
        PROVE  resources'[r] < next' /\ name'[resources'[r]] = r
    <3>1. CASE r = n /\ n # Exclusive
      <4>1. resources'[r] = next
          BY <3>1
      <4> QED BY <1>1, <3>1, <4>1
    <3>2. CASE ~(r = n /\ n # Exclusive)
      <4>1. resources'[r] = resources[r]
          BY <3>2
      <4>2. resources[r] < next /\ name[resources[r]] = r /\ resources[r] \in Lane!Tasks
          BY <2>2, <4>1 DEF Pointers
      <4> QED BY <1>1, <4>1, <4>2
    <3> QED BY <3>1, <3>2
  <2> QED BY <2>1, <2>2 DEF Pointers
<1>5. DepsEarlier'
  <2>1. \A t \in Lane!Tasks : deps[t] \subseteq Lane!Tasks /\ next \notin deps[t]
      BY DEF DepsEarlier
  <2>2. ASSUME NEW t \in Lane!Tasks, NEW d \in deps'[t]
        PROVE  d < t /\ d < next'
    <3>1. CASE t = next
      <4>1. d \in Lane!Dependencies(n)
          BY <1>1, <2>2, <3>1
      <4>2. d \in Lane!Tasks /\ d < next
          BY <1>2, <4>1
      <4> QED BY <1>1, <3>1, <4>2
    <3>2. CASE t # next
      <4>1. d \in deps[t]
          BY <1>1, <2>2, <3>2
      <4>2. d \in Lane!Tasks /\ d < t /\ d < next
          BY <2>1, <4>1 DEF DepsEarlier
      <4> QED BY <1>1, <4>2
    <3> QED BY <3>1, <3>2
  <2>3. ASSUME NEW t \in Lane!Tasks, phase'[t] \in {"running", "settled"}, NEW d \in deps'[t]
        PROVE  phase'[d] = "settled"
    <3>1. t # next /\ phase[t] \in {"running", "settled"} /\ d \in deps[t]
        BY <1>1, <2>3
    <3>2. d \in Lane!Tasks /\ d # next /\ phase[d] = "settled"
        BY <2>1, <3>1 DEF DepsEarlier
    <3> QED BY <1>1, <3>2
  <2> QED BY <2>2, <2>3 DEF DepsEarlier
<1>6. Tails'
  <2> SUFFICES ASSUME NEW t \in Lane!Tasks, Unended(t)'
               PROVE  IF name'[t] = Exclusive THEN t <= barrier' ELSE t <= resources'[name'[t]]
      BY DEF Tails
  <2>1. CASE t = next
      BY <1>1, <2>1
  <2>2. CASE t # next
    <3>1. t < next /\ Unended(t) /\ name'[t] = name[t]
        BY <1>1, <2>2 DEF Unended, Numbered
    <3>2. IF name[t] = Exclusive THEN t <= barrier ELSE t <= resources[name[t]]
        BY <3>1 DEF Tails
    <3>3. CASE name[t] = Exclusive
        BY <1>1, <3>1, <3>2, <3>3
    <3>4. CASE name[t] # Exclusive
      <4>1. name[t] \in Resources /\ t <= resources[name[t]]
          BY <3>2, <3>4
      <4>2. resources'[name[t]] \in {next, resources[name[t]]}
          BY <4>1
      <4> QED BY <1>1, <3>1, <3>4, <4>1, <4>2
    <3> QED BY <3>3, <3>4
  <2> QED BY <2>1, <2>2
<1>7. \A t, u \in Lane!Tasks : t # next /\ u # next => (Lane!Conflict(t, u)' <=> Lane!Conflict(t, u))
    BY <1>1 DEF Lane!Conflict
<1>9. Chain'
  <2> SUFFICES ASSUME NEW t \in Lane!Tasks, NEW u \in Lane!Tasks, t < u, Unended(t)',
                      phase'[u] # "unborn", Lane!Conflict(t, u)'
               PROVE  \E d \in deps'[u] : t = d \/ (t < d /\ Lane!Conflict(t, d)')
      BY DEF Chain, Reaches
  <2>1. u <= next /\ t # next /\ Unended(t)
      BY <1>1 DEF Numbered, Unended
  <2>2. ASSUME NEW D \in SUBSET Lane!Tasks, next \notin D, Reaches(D, t)
        PROVE  \E d \in D : t = d \/ (t < d /\ Lane!Conflict(t, d)')
    <3>1. PICK d \in D : t = d \/ (t < d /\ Lane!Conflict(t, d))
        BY <2>2 DEF Reaches
    <3>2. d \in Lane!Tasks /\ d # next
        BY <2>2
    <3> QED BY <1>7, <2>1, <3>1, <3>2
  <2>3. CASE u = next
    <3>1. n = Exclusive \/ name[t] = Exclusive \/ name[t] = n
        BY <1>1, <2>1, <2>3 DEF Lane!Conflict
    <3>2. Reaches(Lane!Dependencies(n), t)
        BY <2>1, <3>1, LaneDependenciesReach
    <3>3. next \notin Lane!Dependencies(n)
        BY <1>2
    <3> QED BY <1>1, <1>2, <2>2, <2>3, <3>2, <3>3
  <2>4. CASE u # next
    <3>1. Reaches(deps[u], t)
        BY <1>1, <1>7, <2>1, <2>4 DEF Chain
    <3>2. next \notin deps[u] /\ deps[u] \in SUBSET Lane!Tasks
        BY DEF DepsEarlier
    <3> QED BY <1>1, <2>2, <2>4, <3>1, <3>2
  <2> QED BY <2>3, <2>4
<1>10. Lane!InOrder'
    BY <1>1, <1>7 DEF Lane!InOrder, Numbered
<1> QED BY <1>3, <1>4, <1>5, <1>6, <1>9, <1>10 DEF Ordered

\* Forgetting a resource whose last execution settled keeps the order: no earlier
\* execution of it is unsettled.
LEMMA LaneForgetKeepsOrder ==
    ASSUME OrderInv, NEW r \in Resources, Lane!Forget(r)
    PROVE  Ordered'
<1> USE LaneAssumption DEF Lane!QueueAssumption, OrderInv, LaneTypes, Lane!TypeOK, Lane!Names, Lane!NoTask,
     Lane!Tasks, Lane!Forget, Lane!taskVars
<1>1. Numbered' /\ Pointers' /\ DepsEarlier' /\ Chain' /\ Lane!InOrder'
    BY DEF Numbered, Pointers, DepsEarlier, Chain, Lane!InOrder, Reaches, Lane!Conflict, Unended
<1>2. \A t \in Lane!Tasks : name[t] = r => ~Unended(t)
  <2> SUFFICES ASSUME NEW t \in Lane!Tasks, name[t] = r, Unended(t) PROVE FALSE
      OBVIOUS
  <2>1. t <= resources[r] /\ resources[r] \in Lane!Tasks /\ name[resources[r]] = r
      BY DEF Tails, Pointers
  <2>2. Lane!Conflict(t, resources[r])
      BY <2>1 DEF Lane!Conflict
  <2>3. phase[resources[r]] = "settled" /\ phase[t] \in {"queued", "running"}
      BY DEF Unended
  <2>4. CASE t = resources[r]
      BY <2>3, <2>4
  <2>5. CASE t < resources[r]
    <3>1. phase[t] = "settled"
        BY <2>1, <2>2, <2>3, <2>5 DEF Lane!InOrder
    <3> QED BY <2>3, <3>1
  <2> QED BY <2>1, <2>4, <2>5
<1>3. Tails'
    BY <1>2 DEF Tails, Unended
<1> QED BY <1>1, <1>3 DEF Ordered

LEMMA LaneOrderInit == Lane!Init => OrderInv
<1> SUFFICES ASSUME Lane!Init PROVE OrderInv
    OBVIOUS
<1>1. LaneTypes
    BY LaneTypeInit
<1>2. Numbered /\ Pointers /\ DepsEarlier /\ Tails /\ Chain /\ Lane!InOrder
    BY LaneAssumption DEF Lane!QueueAssumption, Lane!Init, Numbered, Pointers, DepsEarlier, Tails, Chain,
         Lane!InOrder,
       Unended, Lane!Tasks, Lane!NoTask
<1> QED BY <1>1, <1>2 DEF OrderInv

LEMMA LaneOrderStep == OrderInv /\ [Lane!Next]_Lane!vars => OrderInv'
<1> SUFFICES ASSUME OrderInv, [Lane!Next]_Lane!vars PROVE Ordered'
    BY LaneTypeStep DEF OrderInv, Ordered
<1>1. ASSUME NEW r \in Resources, Lane!Enqueue(r) PROVE Ordered'
    BY LaneAssumption, <1>1, LaneEntryKeepsOrder DEF Lane!QueueAssumption, Lane!Enqueue, Lane!Names
<1>2. CASE Lane!EnqueueExclusive
    BY <1>2, LaneEntryKeepsOrder DEF Lane!EnqueueExclusive, Lane!Names
<1>3. ASSUME NEW t \in Lane!Tasks, Lane!Skip(t) PROVE Ordered'
    BY <1>3, LaneAdvanceKeepsOrder DEF Lane!Skip
<1>4. ASSUME NEW t \in Lane!Tasks, Lane!Start(t) PROVE Ordered'
    BY <1>4, LaneAdvanceKeepsOrder DEF Lane!Start, Lane!Ready
<1>5. ASSUME NEW t \in Lane!Tasks, Lane!Complete(t) PROVE Ordered'
    BY <1>5, LaneAdvanceKeepsOrder DEF Lane!Complete
<1>6. ASSUME NEW t \in Lane!Tasks, Lane!Throw(t) PROVE Ordered'
    BY <1>6, LaneAdvanceKeepsOrder DEF Lane!Throw
<1>7. ASSUME NEW r \in Resources, Lane!Forget(r) PROVE Ordered'
    BY <1>7, LaneForgetKeepsOrder
<1>8. ASSUME UNCHANGED <<next, barrier, resources, phase, name, deps>> PROVE Ordered'
    BY <1>8 DEF OrderInv, Ordered, Numbered, Pointers, DepsEarlier, Tails, Chain, Lane!InOrder,
       Unended, Reaches, Lane!Conflict
<1>9. CASE Lane!CancelAll
    BY <1>8, <1>9 DEF Lane!CancelAll
<1>10. CASE Lane!Drain \/ Lane!Drained
    BY <1>8, <1>10 DEF Lane!Drain, Lane!Drained, Lane!taskVars
<1>11. CASE UNCHANGED Lane!vars
    BY <1>8, <1>11 DEF Lane!vars, Lane!taskVars
<1> QED
    BY <1>1, <1>2, <1>3, <1>4, <1>5, <1>6, <1>7, <1>9, <1>10, <1>11 DEF Lane!Next

\* Requests take effect in the order they arrived, for any number of resources,
\* requests and cancellations: awaiting the barrier and the previous execution of the
\* resource (enqueue), or the barrier and the last execution of every resource
\* (enqueueExclusive), is enough.
THEOREM LaneOrderCorrect == LaneSpec => []InOrder
<1>1. OrderInv => InOrder
    BY DEF OrderInv, InOrder
<1>2. Lane!Init => OrderInv
    BY LaneOrderInit
<1>3. OrderInv /\ [Lane!Next]_Lane!vars => OrderInv'
    BY LaneOrderStep
<1> QED BY <1>1, <1>2, <1>3, PTL DEF LaneSpec, Lane!Spec

\* Handlers that conflict are never in progress together.
THEOREM LaneExclusionCorrect == LaneSpec => []Lane!MutualExclusion
<1>1. OrderInv => Lane!MutualExclusion
  <2> SUFFICES ASSUME OrderInv, NEW t \in Lane!Tasks, NEW u \in Lane!Tasks, t # u,
                      phase[t] = "running", phase[u] = "running", Lane!Conflict(t, u)
               PROVE  FALSE
      BY DEF Lane!MutualExclusion
  <2>1. Lane!Conflict(u, t)
      BY DEF Lane!Conflict
  <2>2. t < u \/ u < t
      BY LaneAssumption DEF Lane!QueueAssumption, Lane!Tasks
  <2> QED BY <2>1, <2>2 DEF OrderInv, Lane!InOrder
<1>2. Lane!Init => OrderInv
    BY LaneOrderInit
<1>3. OrderInv /\ [Lane!Next]_Lane!vars => OrderInv'
    BY LaneOrderStep
<1> QED BY <1>1, <1>2, <1>3, PTL DEF LaneSpec, Lane!Spec

-----------------------------------------------------------------------------

LEMMA LaneCancelInit == Lane!Init => CancelInv
<1> SUFFICES ASSUME Lane!Init PROVE CancelInv
    OBVIOUS
<1>1. OrderInv
    BY LaneOrderInit
<1>2. ToldCancelled
    BY Zenon DEF Lane!Init, ToldCancelled, ToldOnce, Unended
<1> QED BY <1>1, <1>2 DEF CancelInv

\* What a step does to one task's notification.
LEMMA LaneNotifyMeans ==
    ASSUME LaneTypes, NEW T, Lane!NotifyCancelled(T), NEW t \in Lane!Tasks
    PROVE  notified'[t] <=> notified[t] \/ t \in T
BY Zenon DEF Lane!NotifyCancelled

LEMMA LaneToldStep == OrderInv /\ ToldCancelled /\ [Lane!Next]_Lane!vars => ToldCancelled'
<1> SUFFICES ASSUME OrderInv, ToldCancelled, [Lane!Next]_Lane!vars, NEW t \in Lane!Tasks
             PROVE  ToldOnce(t)'
    BY DEF ToldCancelled
<1> USE DEF ToldOnce
<1>1. ToldOnce(t)
    BY DEF ToldCancelled
<1>2. /\ phase \in [Lane!Tasks -> {"unborn", "queued", "running", "settled"}]
      /\ result \in [Lane!Tasks -> {"none", "completed", "failed", "cancelled"}]
      /\ aborted \in [Lane!Tasks -> BOOLEAN]
      /\ notified \in [Lane!Tasks -> BOOLEAN]
    BY DEF OrderInv, LaneTypes, Lane!TypeOK
<1>3. ASSUME NEW n, Lane!Entry(n) PROVE ToldOnce(t)'
  <2>1. CASE t = next
    <3>1. phase[t] = "unborn" /\ phase'[t] = "queued" /\ t \in entries'
        BY <1>2, <1>3, <2>1 DEF Lane!Entry, OrderInv, Numbered, LaneTypes, Lane!TypeOK
    <3> QED BY <1>1, <1>3, <3>1, Zenon DEF Lane!Entry, Unended
  <2>2. CASE t # next
    <3>1. phase'[t] = phase[t] /\ (t \in entries' <=> t \in entries)
        BY <1>2, <1>3, <2>2 DEF Lane!Entry
    <3> QED BY <1>1, <1>3, <3>1, Zenon DEF Lane!Entry, Unended
  <2> QED BY <2>1, <2>2
<1>4. CASE Lane!CancelAll
  <2>1. notified'[t] <=> notified[t] \/ t \in {u \in entries : phase[u] = "queued"}
      BY <1>4, LaneNotifyMeans DEF Lane!CancelAll, OrderInv
  <2>2. aborted'[t] <=> aborted[t] \/ t \in entries
      BY <1>4, Zenon DEF Lane!CancelAll
  <2> QED BY <1>1, <1>4, <2>1, <2>2, Zenon DEF Lane!CancelAll, Unended
<1>5. ASSUME NEW a \in Lane!Tasks, Lane!Skip(a) PROVE ToldOnce(t)'
  <2>1. notified'[t] <=> notified[t] \/ t = a
      BY <1>5, LaneNotifyMeans DEF Lane!Skip, OrderInv
  <2>2. phase'[t] = (IF t = a THEN "settled" ELSE phase[t])
        /\ result'[t] = (IF t = a THEN "cancelled" ELSE result[t])
      BY <1>2, <1>5 DEF Lane!Skip
  <2> QED BY <1>1, <1>5, <2>1, <2>2 DEF Lane!Skip, Unended
<1>6. ASSUME NEW a \in Lane!Tasks, Lane!Start(a) PROVE ToldOnce(t)'
  <2>1. phase'[t] = (IF t = a THEN "running" ELSE phase[t])
      BY <1>2, <1>6 DEF Lane!Start
  <2> QED BY <1>1, <1>6, <2>1 DEF Lane!Start, Unended, Lane!Ready, Lane!Stale
<1>7. ASSUME NEW a \in Lane!Tasks, Lane!Complete(a) PROVE ToldOnce(t)'
  <2>1. phase'[t] = (IF t = a THEN "settled" ELSE phase[t])
        /\ result'[t] = (IF t = a THEN "completed" ELSE result[t])
      BY <1>2, <1>7 DEF Lane!Complete
  <2> QED BY <1>1, <1>7, <2>1 DEF Lane!Complete, Unended
<1>8. ASSUME NEW a \in Lane!Tasks, Lane!Throw(a) PROVE ToldOnce(t)'
  <2>1. notified'[t] <=> notified[t] \/ t \in (IF aborted[a] THEN {a} ELSE {})
      BY <1>8, LaneNotifyMeans DEF Lane!Throw, OrderInv
  <2>2. phase'[t] = (IF t = a THEN "settled" ELSE phase[t])
        /\ result'[t] = (IF t = a THEN (IF aborted[a] THEN "cancelled" ELSE "failed") ELSE result[t])
      BY <1>2, <1>8 DEF Lane!Throw
  <2>3. CASE t # a
    <3>1. (notified'[t] <=> notified[t]) /\ phase'[t] = phase[t] /\ result'[t] = result[t]
        BY <2>1, <2>2, <2>3, Zenon
    <3> QED BY <1>1, <1>8, <2>3, <3>1, Zenon DEF Lane!Throw, Unended
  <2>4. CASE t = a /\ aborted[a]
    <3>1. notified'[t] /\ phase'[t] = "settled" /\ result'[t] = "cancelled"
        BY <2>1, <2>2, <2>4, Zenon
    <3> QED BY <1>8, <2>4, <3>1 DEF Lane!Throw
  <2>5. CASE t = a /\ ~aborted[a]
    <3>1. (notified'[t] <=> notified[t]) /\ phase'[t] = "settled" /\ result'[t] = "failed"
        BY <2>1, <2>2, <2>5, Zenon
    <3>2. ~notified[t]
        BY <1>1, <1>8, <2>5 DEF Lane!Throw
    <3> QED BY <1>8, <2>5, <3>1, <3>2 DEF Lane!Throw
  <2> QED BY <2>3, <2>4, <2>5, Zenon
<1>9. ASSUME UNCHANGED Lane!taskVars, UNCHANGED entries PROVE ToldOnce(t)'
    BY <1>1, <1>9, Zenon DEF Lane!taskVars, Unended
<1> QED
    BY <1>3, <1>4, <1>5, <1>6, <1>7, <1>8, <1>9
    DEF Lane!Next, Lane!Enqueue, Lane!EnqueueExclusive, Lane!Forget, Lane!Drain, Lane!Drained,
         Lane!vars

LEMMA LaneCancelStep == CancelInv /\ [Lane!Next]_Lane!vars => CancelInv'
BY LaneOrderStep, LaneToldStep DEF CancelInv

\* A requester that was told of the cancellation never has its request carried out:
\* cancelAll and the head of #run agree on which entries may still start.
THEOREM LaneCancelledCorrect == LaneSpec => []Lane!CancelledNeverRuns
<1>1. CancelInv => Lane!CancelledNeverRuns
  <2> SUFFICES ASSUME CancelInv, NEW t \in Lane!Tasks, calls[t] > 0
               PROVE  phase[t] # "running" /\ result[t] \notin {"completed", "failed"}
      BY DEF Lane!CancelledNeverRuns
  <2>1. notified[t]
      BY DEF CancelInv, OrderInv, LaneTypes, CallsCounted
  <2>2. \/ phase[t] = "queued" /\ aborted[t]
        \/ phase[t] = "settled" /\ result[t] = "cancelled"
      BY <2>1, Zenon DEF CancelInv, ToldCancelled, ToldOnce
  <2>3. phase[t] = "queued" => result[t] = "none"
      BY DEF CancelInv, ToldCancelled, ToldOnce
  <2> QED BY <2>2, <2>3
<1>2. Lane!Init => CancelInv
    BY LaneCancelInit
<1>3. CancelInv /\ [Lane!Next]_Lane!vars => CancelInv'
    BY LaneCancelStep
<1> QED BY <1>1, <1>2, <1>3, PTL DEF LaneSpec, Lane!Spec

\* Every request is accounted for exactly once, by its handler's end or by onCancelled.
THEOREM LaneAccountedCorrect == LaneSpec => []AccountedOnce
<1>1. CancelInv => AccountedOnce
  <2> SUFFICES ASSUME CancelInv, NEW t \in Lane!Tasks
               PROVE  /\ calls[t] <= 1
                      /\ phase[t] = "settled" =>
                            (calls[t] = 1) # (result[t] \in {"completed", "failed"})
      BY DEF AccountedOnce, Lane!AccountedOnce
  <2>1. /\ result[t] \in {"none", "completed", "failed", "cancelled"}
        /\ notified[t] \in BOOLEAN
      BY DEF CancelInv, OrderInv, LaneTypes, Lane!TypeOK
  <2>2. calls[t] = IF notified[t] THEN 1 ELSE 0
      BY DEF CancelInv, OrderInv, LaneTypes, CallsCounted
  <2>3. phase[t] = "settled" =>
          (IF notified[t] THEN result[t] = "cancelled" ELSE result[t] \in {"completed", "failed"})
      BY <2>1, Zenon DEF CancelInv, ToldCancelled, ToldOnce
  <2>4. CASE notified[t]
      BY <2>2, <2>3, <2>4
  <2>5. CASE ~notified[t]
      BY <2>2, <2>3, <2>5
  <2> QED BY <2>4, <2>5
<1>2. Lane!Init => CancelInv
    BY LaneCancelInit
<1>3. CancelInv /\ [Lane!Next]_Lane!vars => CancelInv'
    BY LaneCancelStep
<1> QED BY <1>1, <1>2, <1>3, PTL DEF LaneSpec, Lane!Spec

\* Emergency stop reaches every handler in progress.
THEOREM LaneStopCorrect == LaneSpec => []Lane!StopReachesRunning
<1>1. CancelInv => Lane!StopReachesRunning
    BY DEF CancelInv, ToldCancelled, ToldOnce, Lane!StopReachesRunning
<1>2. Lane!Init => CancelInv
    BY LaneCancelInit
<1>3. CancelInv /\ [Lane!Next]_Lane!vars => CancelInv'
    BY LaneCancelStep
<1> QED BY <1>1, <1>2, <1>3, PTL DEF LaneSpec, Lane!Spec

-----------------------------------------------------------------------------

LEMMA LaneDrainInit == Lane!Init => DrainInv
<1> SUFFICES ASSUME Lane!Init PROVE DrainInv
    OBVIOUS
<1>1. Drains
    BY DEF Lane!Init, Drains, Lane!NoDrain
<1> QED BY <1>1, LaneOrderInit DEF DrainInv

\* The promises drain takes reach every unsettled task.
LEMMA LaneOutstandingReach ==
    ASSUME OrderInv, NEW t \in Lane!Tasks, Unended(t)
    PROVE  Reaches(Lane!Outstanding, t)
<1>1. Reaches(Lane!Dependencies(Exclusive), t)
    BY LaneDependenciesReach DEF Lane!Names
<1> QED BY <1>1 DEF Lane!Dependencies

LEMMA LaneDrainsStep == DrainInv /\ [Lane!Next]_Lane!vars => Drains'
<1> SUFFICES ASSUME DrainInv, [Lane!Next]_Lane!vars PROVE Drains'
    OBVIOUS
<1> USE LaneAssumption DEF Lane!QueueAssumption, DrainInv
<1>1. Lane!TypeOK /\ Lane!TypeOK'
    BY LaneTypeStep DEF OrderInv, LaneTypes
<1>2. ASSUME UNCHANGED drains,
             next' \in {next, next + 1},
             \A u \in Lane!Tasks : u < next => name'[u] = name[u],
             \A u \in Lane!Tasks : u < next /\ Unended(u)' => Unended(u),
             \A u \in Lane!Tasks : phase[u] = "settled" => phase'[u] = "settled"
      PROVE  Drains'
  <2>1. drains'.upTo <= next' /\ \A d \in drains'.awaits : d < next'
      BY <1>1, <1>2 DEF Drains, Lane!TypeOK, Lane!Tasks
  <2>2. ASSUME drains.state # "idle", NEW t \in Lane!Tasks, t < drains.upTo, Unended(t)'
        PROVE  \E d \in drains.awaits : t = d \/ (t < d /\ Lane!Conflict(t, d)')
    <3>1. t < next /\ Unended(t)
        BY <1>1, <1>2, <2>2 DEF Drains, Lane!TypeOK, Lane!Tasks
    <3>2. PICK d \in drains.awaits : t = d \/ (t < d /\ Lane!Conflict(t, d))
        BY <2>2, <3>1 DEF Drains, Reaches
    <3>3. d \in Lane!Tasks /\ d < next
        BY <1>1, <3>2 DEF Drains, Lane!TypeOK
    <3> QED BY <1>2, <3>1, <3>2, <3>3 DEF Lane!Conflict
  <2>3. drains.state = "done" => \A d \in drains.awaits : phase'[d] = "settled"
      BY <1>1, <1>2 DEF Drains, Lane!TypeOK
  <2> QED BY <1>2, <2>1, <2>2, <2>3 DEF Drains, Reaches
<1>3. ASSUME NEW n \in Lane!Names, Lane!Entry(n) PROVE Drains'
  <2>1. /\ \A u \in Lane!Tasks : u # next => phase'[u] = phase[u] /\ name'[u] = name[u]
        /\ phase[next] = "unborn"
        /\ next' = next + 1
        /\ UNCHANGED drains
      BY <1>1, <1>3 DEF Lane!Entry, Lane!TypeOK, OrderInv, Numbered
  <2>2. /\ \A u \in Lane!Tasks : u < next => name'[u] = name[u] /\ phase'[u] = phase[u]
        /\ \A u \in Lane!Tasks : phase[u] = "settled" => phase'[u] = "settled"
      BY <1>1, <2>1 DEF Lane!TypeOK, Lane!Tasks
  <2> QED BY <1>2, <2>1, <2>2 DEF Unended
<1>4. ASSUME NEW a \in Lane!Tasks, NEW x \in {"running", "settled"},
             phase[a] \in {"queued", "running"}, phase' = [phase EXCEPT ![a] = x],
             UNCHANGED <<next, name, drains>>
      PROVE  Drains'
  <2>1. \A u \in Lane!Tasks : phase'[u] = IF u = a THEN x ELSE phase[u]
      BY <1>1, <1>4 DEF Lane!TypeOK
  <2> QED BY <1>2, <1>4, <2>1 DEF Unended
<1>5. CASE Lane!Drain
  <2>1. /\ drains' = [state |-> "waiting", awaits |-> Lane!Outstanding, upTo |-> next]
        /\ UNCHANGED <<next, phase, name>>
      BY <1>5 DEF Lane!Drain, Lane!taskVars
  <2>2. \A d \in Lane!Outstanding : d < next
      BY DEF Lane!Outstanding, OrderInv, Pointers
  <2>3. \A t \in Lane!Tasks : Unended(t) => Reaches(Lane!Outstanding, t)
      BY LaneOutstandingReach
  <2>4. \A t \in Lane!Tasks : Unended(t)' => \E d \in Lane!Outstanding : t = d \/ (t < d /\ Lane!Conflict(t, d)')
      BY <2>1, <2>3 DEF Unended, Reaches, Lane!Conflict
  <2> QED BY <1>1, <2>1, <2>2, <2>4 DEF Drains, Reaches, Lane!TypeOK
<1>6. CASE Lane!Drained
  <2>1. /\ drains.state = "waiting"
        /\ \A d \in drains.awaits : phase[d] = "settled"
        /\ drains' = [drains EXCEPT !.state = "done"]
        /\ UNCHANGED <<next, phase, name>>
      BY <1>6 DEF Lane!Drained, Lane!taskVars
  <2>2. drains'.upTo = drains.upTo /\ drains'.awaits = drains.awaits
      BY <1>1, <2>1 DEF Lane!TypeOK
  <2> QED BY <2>1, <2>2 DEF Drains, Reaches, Unended, Lane!Conflict
<1>7. ASSUME UNCHANGED <<next, phase, name, drains>> PROVE Drains'
    BY <1>2, <1>7 DEF Unended
<1>8. ASSUME NEW r \in Resources, Lane!Enqueue(r) PROVE Drains'
    BY <1>3, <1>8 DEF Lane!Enqueue, Lane!Names
<1>9. CASE Lane!EnqueueExclusive
    BY <1>3, <1>9 DEF Lane!EnqueueExclusive, Lane!Names
<1>10. ASSUME NEW t \in Lane!Tasks, Lane!Skip(t) \/ Lane!Start(t) \/ Lane!Complete(t) \/ Lane!Throw(t) PROVE Drains'
    BY <1>4, <1>10 DEF Lane!Skip, Lane!Start, Lane!Complete, Lane!Throw, Lane!Ready
<1>11. ASSUME NEW r \in Resources, Lane!Forget(r) PROVE Drains'
    BY <1>7, <1>11 DEF Lane!Forget, Lane!taskVars
<1>12. CASE Lane!CancelAll \/ UNCHANGED Lane!vars
    BY <1>7, <1>12 DEF Lane!CancelAll, Lane!vars, Lane!taskVars
<1> QED
    BY <1>5, <1>6, <1>8, <1>9, <1>10, <1>11, <1>12 DEF Lane!Next

\* When the drain of shutdown resolves, every request made before it has ended.
THEOREM LaneDrainCorrect == LaneSpec => []DrainIsComplete
<1>1. DrainInv => DrainIsComplete
  <2> SUFFICES ASSUME DrainInv, drains.state = "done", NEW t \in Lane!Tasks, t < drains.upTo
               PROVE  phase[t] = "settled"
      BY DEF DrainIsComplete, Lane!DrainIsComplete
  <2>1. Lane!TypeOK /\ t < next /\ phase[t] # "unborn"
      BY LaneAssumption DEF Lane!QueueAssumption, DrainInv, OrderInv, LaneTypes, Lane!TypeOK, Drains, Numbered,
           Lane!Tasks
  <2>2. CASE Unended(t)
    <3>1. Reaches(drains.awaits, t) /\ \A d \in drains.awaits : phase[d] = "settled"
        BY <2>2 DEF DrainInv, Drains
    <3>2. drains.awaits \in SUBSET Lane!Tasks
        BY <2>1 DEF Lane!TypeOK
    <3> QED BY <2>1, <3>1, <3>2, LaneReachSettled DEF DrainInv
  <2> QED BY <2>1, <2>2 DEF Unended, Lane!TypeOK
<1>2. DrainInv /\ [Lane!Next]_Lane!vars => DrainInv'
    BY LaneOrderStep, LaneDrainsStep DEF DrainInv
<1>3. Lane!Init => DrainInv
    BY LaneDrainInit
<1> QED BY <1>1, <1>2, <1>3, PTL DEF LaneSpec, Lane!Spec

=============================================================================
