---------------------------- MODULE SenderProofs ----------------------------
(***************************************************************************)
(* Machine-checked proofs about Sender, for every number of goroutines,    *)
(* managers, calls and events, and every configuration of the presence     *)
(* managers.  A goroutine is a sequence of steps that it has still to do;  *)
(* what has to be known of it is which steps occur in it, and in which     *)
(* order.                                                                  *)
(***************************************************************************)
EXTENDS Sender, BackoffProofs

-----------------------------------------------------------------------------
(* Occurrences of steps.                                                   *)
Steps  == Seq(StepNames)

Has(s, X) == \E i \in DOMAIN s : s[i] \in X

(* Every step of X is followed by one of Y.                                *)
Followed(s, X, Y) ==
    \A i \in DOMAIN s : s[i] \in X => \E j \in DOMAIN s : i < j /\ s[j] \in Y

(* At most one step of X.                                                  *)
Once(s, X) == \A i, j \in DOMAIN s : s[i] \in X /\ s[j] \in X => i = j

LEMMA EmptySteps ==
  ASSUME NEW X, NEW Y
  PROVE  <<>> \in Steps /\ ~Has(<<>>, X) /\ Followed(<<>>, X, Y) /\ Once(<<>>, X)
  BY EmptySeq DEF Steps, Has, Followed, Once

(* What does not occur needs no follower and occurs at most once.          *)
LEMMA NoSteps ==
  ASSUME NEW s, NEW X, NEW Y, ~Has(s, X)
  PROVE  Followed(s, X, Y) /\ Once(s, X)
  BY DEF Has, Followed, Once

LEMMA FewerSteps ==
  ASSUME NEW s, NEW X, NEW Y, X \subseteq Y
  PROVE  Has(s, X) => Has(s, Y)
  BY DEF Has

(* One step.                                                               *)
LEMMA OneStep ==
  ASSUME NEW x \in StepNames, NEW X, NEW Y
  PROVE  /\ <<x>> \in Steps
         /\ Has(<<x>>, X) <=> x \in X
         /\ x \notin X => Followed(<<x>>, X, Y)
         /\ Once(<<x>>, X)
<1>1. <<x>> \in Seq(StepNames) /\ DOMAIN <<x>> = 1 .. 1 /\ <<x>>[1] = x
  OBVIOUS
<1>2. \A i \in 1 .. 1 : i = 1
  OBVIOUS
<1> QED
  BY <1>1, <1>2 DEF Steps, Has, Followed, Once

LEMMA TailSteps ==
  ASSUME NEW s \in Steps, s # <<>>, NEW X, NEW Y
  PROVE  /\ Tail(s) \in Steps
         /\ Has(Tail(s), X) => Has(s, X)
         /\ Has(s, X) /\ Head(s) \notin X => Has(Tail(s), X)
         /\ Followed(s, X, Y) => Followed(Tail(s), X, Y)
         /\ Followed(s, X, Y) /\ Head(s) \in X => Has(Tail(s), Y)
         /\ Once(s, X) => Once(Tail(s), X)
         /\ Once(s, X) /\ Head(s) \in X => ~Has(Tail(s), X)
         /\ Head(s) \in X => Has(s, X)
<1> DEFINE t == Tail(s)
<1>1. /\ s \in Seq(StepNames) /\ Len(s) \in Nat /\ DOMAIN s = 1 .. Len(s) /\ Len(s) > 0
  BY LenProperties, EmptySeq DEF Steps
<1>2. /\ t \in Seq(StepNames) /\ Len(t) = Len(s) - 1 /\ DOMAIN t = 1 .. Len(s) - 1
      /\ \A i \in 1 .. Len(s) - 1 : t[i] = s[i + 1]
      /\ Head(s) = s[1]
  BY <1>1, HeadTailProperties, LenProperties
<1> HIDE DEF t
<1>3. Has(t, X) => Has(s, X)
  BY <1>1, <1>2 DEF Has
<1>4. \A Z : Has(s, Z) /\ Head(s) \notin Z => Has(t, Z)
  <2> SUFFICES ASSUME NEW Z, NEW i \in DOMAIN s, s[i] \in Z, Head(s) \notin Z
               PROVE  Has(t, Z)
    BY DEF Has
  <2>1. i - 1 \in DOMAIN t /\ t[i - 1] = s[i]
    BY <1>1, <1>2
  <2> QED
    BY <2>1 DEF Has
<1>5. ASSUME Followed(s, X, Y), NEW i \in DOMAIN s, s[i] \in X
      PROVE  \E j \in DOMAIN t : i <= j /\ t[j] \in Y
  <2>1. PICK j \in DOMAIN s : i < j /\ s[j] \in Y
    BY <1>5 DEF Followed
  <2>2. j - 1 \in DOMAIN t /\ t[j - 1] = s[j] /\ i <= j - 1
    BY <1>1, <1>2, <2>1
  <2> QED
    BY <2>1, <2>2
<1>6. ASSUME Followed(s, X, Y) PROVE Followed(t, X, Y)
  <2> SUFFICES ASSUME NEW i \in DOMAIN t, t[i] \in X
               PROVE  \E j \in DOMAIN t : i < j /\ t[j] \in Y
    BY DEF Followed
  <2>1. i + 1 \in DOMAIN s /\ s[i + 1] \in X
    BY <1>1, <1>2
  <2>2. PICK j \in DOMAIN t : i + 1 <= j /\ t[j] \in Y
    BY <1>5, <1>6, <2>1
  <2> QED
    BY <1>1, <1>2, <2>2
<1>7. ASSUME Followed(s, X, Y), Head(s) \in X PROVE Has(t, Y)
  BY <1>1, <1>2, <1>5, <1>7 DEF Has
<1>8. ASSUME Once(s, X) PROVE Once(t, X)
  <2> SUFFICES ASSUME NEW i \in DOMAIN t, NEW j \in DOMAIN t, t[i] \in X, t[j] \in X
               PROVE  i = j
    BY DEF Once
  <2>1. i + 1 \in DOMAIN s /\ s[i + 1] \in X /\ j + 1 \in DOMAIN s /\ s[j + 1] \in X
    BY <1>1, <1>2
  <2>2. i + 1 = j + 1
    BY <1>8, <2>1 DEF Once
  <2> QED
    BY <1>2, <2>2
<1>9. ASSUME Once(s, X), Head(s) \in X, Has(t, X) PROVE FALSE
  <2>1. PICK i \in DOMAIN t : t[i] \in X
    BY <1>9 DEF Has
  <2>2. i + 1 \in DOMAIN s /\ s[i + 1] \in X /\ 1 \in DOMAIN s /\ s[1] \in X /\ i + 1 # 1
    BY <1>1, <1>2, <1>9, <2>1
  <2> QED
    BY <1>9, <2>2 DEF Once
<1>10. Head(s) \in X => Has(s, X)
  BY <1>1, <1>2 DEF Has
<1> QED
  BY <1>2, <1>3, <1>4, <1>6, <1>7, <1>8, <1>9, <1>10 DEF t, Steps

LEMMA ConcatSteps ==
  ASSUME NEW s \in Steps, NEW t \in Steps, NEW X, NEW Y
  PROVE  /\ s \o t \in Steps
         /\ Has(s \o t, X) <=> Has(s, X) \/ Has(t, X)
         /\ Followed(s, X, Y) /\ Followed(t, X, Y) => Followed(s \o t, X, Y)
         /\ Has(t, Y) /\ Followed(t, X, Y) => Followed(s \o t, X, Y)
         /\ Once(s, X) /\ Once(t, X) /\ ~(Has(s, X) /\ Has(t, X)) => Once(s \o t, X)
<1> DEFINE u == s \o t
<1>1. /\ Len(s) \in Nat /\ DOMAIN s = 1 .. Len(s)
      /\ Len(t) \in Nat /\ DOMAIN t = 1 .. Len(t)
  BY LenProperties DEF Steps
<1>2. /\ u \in Seq(StepNames) /\ DOMAIN u = 1 .. Len(s) + Len(t)
      /\ \A i \in 1 .. Len(s) + Len(t) : u[i] = IF i <= Len(s) THEN s[i] ELSE t[i - Len(s)]
  BY ConcatProperties, LenProperties DEF Steps
<1> HIDE DEF u
<1>3. \A i \in DOMAIN s : i \in DOMAIN u /\ u[i] = s[i]
  BY <1>1, <1>2
<1>4. \A i \in DOMAIN t : i + Len(s) \in DOMAIN u /\ u[i + Len(s)] = t[i]
  BY <1>1, <1>2
<1>5. \A i \in DOMAIN u : (i \in DOMAIN s /\ u[i] = s[i])
                          \/ (i - Len(s) \in DOMAIN t /\ u[i] = t[i - Len(s)])
  BY <1>1, <1>2
<1>6. Has(u, X) <=> Has(s, X) \/ Has(t, X)
  BY <1>3, <1>4, <1>5 DEF Has
<1>7. ASSUME Followed(t, X, Y), NEW i \in DOMAIN u, u[i] \in X, i \notin DOMAIN s
      PROVE  \E j \in DOMAIN u : i < j /\ u[j] \in Y
  <2>1. i - Len(s) \in DOMAIN t /\ t[i - Len(s)] \in X
    BY <1>5, <1>7
  <2>2. PICK j \in DOMAIN t : i - Len(s) < j /\ t[j] \in Y
    BY <1>7, <2>1 DEF Followed
  <2> QED
    BY <1>1, <1>2, <1>4, <2>2
<1>8. ASSUME Followed(s, X, Y), Followed(t, X, Y) PROVE Followed(u, X, Y)
  <2> SUFFICES ASSUME NEW i \in DOMAIN s, u[i] \in X
               PROVE  \E j \in DOMAIN u : i < j /\ u[j] \in Y
    BY <1>7, <1>8 DEF Followed
  <2> QED
    BY <1>3, <1>8 DEF Followed
<1>9. ASSUME Has(t, Y), Followed(t, X, Y) PROVE Followed(u, X, Y)
  <2> SUFFICES ASSUME NEW i \in DOMAIN s, u[i] \in X
               PROVE  \E j \in DOMAIN u : i < j /\ u[j] \in Y
    BY <1>7, <1>9 DEF Followed
  <2>1. PICK j \in DOMAIN t : t[j] \in Y
    BY <1>9 DEF Has
  <2> QED
    BY <1>1, <1>2, <1>4, <2>1
<1>10. ASSUME Once(s, X), Once(t, X), ~(Has(s, X) /\ Has(t, X)) PROVE Once(u, X)
  <2> SUFFICES ASSUME NEW i \in DOMAIN u, NEW j \in DOMAIN u, u[i] \in X, u[j] \in X
               PROVE  i = j
    BY DEF Once
  <2>1. CASE Has(s, X)
    <3>1. i \in DOMAIN s /\ s[i] \in X /\ j \in DOMAIN s /\ s[j] \in X
      BY <1>5, <1>10, <2>1 DEF Has
    <3> QED
      BY <1>10, <3>1 DEF Once
  <2>2. CASE ~Has(s, X)
    <3>1. /\ i - Len(s) \in DOMAIN t /\ t[i - Len(s)] \in X
          /\ j - Len(s) \in DOMAIN t /\ t[j - Len(s)] \in X
      BY <1>5, <2>2 DEF Has
    <3>2. i - Len(s) = j - Len(s)
      BY <1>10, <3>1 DEF Once
    <3> QED
      BY <1>1, <1>2, <3>2
  <2> QED
    BY <2>1, <2>2
<1> QED
  BY <1>2, <1>6, <1>8, <1>9, <1>10 DEF u, Steps

(* SkipTyping leaves what comes after a step x.                            *)
LEMMA AfterSteps ==
  ASSUME NEW s \in Steps, NEW i \in DOMAIN s, NEW X, NEW Y
  PROVE  LET t == SubSeq(s, i + 1, Len(s)) IN
         /\ t \in Steps
         /\ Has(t, X) => Has(s, X)
         /\ Followed(s, X, Y) => Followed(t, X, Y)
         /\ Followed(s, X, Y) /\ s[i] \in X => Has(t, Y)
         /\ Once(s, X) => Once(t, X)
<1> DEFINE t == SubSeq(s, i + 1, Len(s))
<1>1. s \in Seq(StepNames) /\ Len(s) \in Nat /\ DOMAIN s = 1 .. Len(s)
  BY LenProperties DEF Steps
<1>2. \A k \in i + 1 .. Len(s) : s[k] \in StepNames
  BY <1>1, ElementOfSeq
<1>3. /\ t \in Seq(StepNames) /\ Len(t) = Len(s) - i
      /\ \A k \in 1 .. Len(s) - i : t[k] = s[k + i]
  BY <1>1, <1>2, SubSeqProperties
<1>4. DOMAIN t = 1 .. Len(s) - i
  BY <1>3, LenProperties
<1> HIDE DEF t
<1>5. \A k \in DOMAIN t : k + i \in DOMAIN s /\ t[k] = s[k + i]
  BY <1>1, <1>3, <1>4
<1>6. ASSUME NEW k \in DOMAIN s, i < k PROVE k - i \in DOMAIN t /\ t[k - i] = s[k]
  <2>1. k - i \in 1 .. Len(s) - i /\ (k - i) + i = k
    BY <1>1, <1>6
  <2> QED
    BY <1>3, <1>4, <2>1
<1>7. Has(t, X) => Has(s, X)
  BY <1>5 DEF Has
<1>8. ASSUME Followed(s, X, Y) PROVE Followed(t, X, Y)
  <2> SUFFICES ASSUME NEW k \in DOMAIN t, t[k] \in X
               PROVE  \E j \in DOMAIN t : k < j /\ t[j] \in Y
    BY DEF Followed
  <2>1. k + i \in DOMAIN s /\ s[k + i] \in X
    BY <1>5
  <2>2. PICK j \in DOMAIN s : k + i < j /\ s[j] \in Y
    BY <1>8, <2>1 DEF Followed
  <2>3. j - i \in DOMAIN t /\ t[j - i] = s[j] /\ k < j - i
    BY <1>1, <1>4, <1>6, <2>2
  <2> QED
    BY <2>2, <2>3
<1>9. ASSUME Followed(s, X, Y), s[i] \in X PROVE Has(t, Y)
  <2>1. PICK j \in DOMAIN s : i < j /\ s[j] \in Y
    BY <1>9 DEF Followed
  <2> QED
    BY <1>6, <2>1 DEF Has
<1>10. ASSUME Once(s, X) PROVE Once(t, X)
  <2> SUFFICES ASSUME NEW k \in DOMAIN t, NEW j \in DOMAIN t, t[k] \in X, t[j] \in X
               PROVE  k = j
    BY DEF Once
  <2>1. k + i = j + i
    BY <1>5, <1>10 DEF Once
  <2> QED
    BY <1>1, <1>4, <2>1
<1> QED
  BY <1>3, <1>7, <1>8, <1>9, <1>10 DEF t, Steps

-----------------------------------------------------------------------------
(* What holds of every program, and of whatever is left of one: the        *)
(* indicator that is shown will be ended, "typing?" has a place to skip    *)
(* to, and what an early return drops contains nothing that must be done.  *)
Typing == {"typing?", "composing", "stop typing"}
Early  == {"running?", "started?"}
Tells  == {"transmit", "sent", "failed"}
Checks == {"session?", "connected?", "valid?", "resolve", "upload", "signal"}

Script(s) ==
    /\ s \in Steps
    /\ Followed(s, {"composing"}, {"stop typing"})
    /\ Followed(s, {"typing?"}, {"composing"})
    /\ Has(s, Early) => ~Has(s, {"stop typing"} \cup Tells)

(* What holds besides of the programs that send a text or media, and of    *)
(* whatever is left of one: nothing fails between the answer of the server *)
(* and the event.                                                          *)
Sending(s) ==
    /\ Followed(s, Checks \cup {"composing"}, {"transmit"})
    /\ Followed(s, {"transmit"}, {"sent"})
    /\ Once(s, {"transmit"}) /\ Once(s, {"sent"}) /\ Once(s, {"failed"})

Whole(s) ==
    /\ Script(s) /\ Sending(s)
    /\ Has(s, {"transmit"}) /\ Has(s, {"sent"}) /\ ~Has(s, Early \cup {"failed"})

Without(s, X) == s \in Steps /\ ~Has(s, X)

LEMMA WithoutConcat ==
  ASSUME NEW X, NEW s, NEW t, Without(s, X), Without(t, X)
  PROVE  Without(s \o t, X)
  BY ConcatSteps DEF Without

LEMMA AssociateSteps ==
  ASSUME NEW s \in Steps, NEW t \in Steps, NEW u \in Steps
  PROVE  (s \o t) \o u = s \o (t \o u)
<1>1. s \in Seq(StepNames) /\ t \in Seq(StepNames) /\ u \in Seq(StepNames)
  BY DEF Steps
<1> QED
  BY <1>1, ConcatAssociative

LEMMA PairSteps ==
  ASSUME NEW x \in StepNames, NEW y \in StepNames
  PROVE  /\ <<x, y>> \in Steps
         /\ \A X : Has(<<x, y>>, X) <=> x \in X \/ y \in X
         /\ \A X : y \in X /\ x \notin X => Once(<<x, y>>, X)
         /\ \A X : x \in X /\ y \notin X => Once(<<x, y>>, X)
         /\ \A X, Y : y \in Y /\ y \notin X => Followed(<<x, y>>, X, Y)
<1> DEFINE s == <<x, y>>
<1>1. s \in Seq(StepNames) /\ DOMAIN s = 1 .. 2
  OBVIOUS
<1>2. s[1] = x /\ s[2] = y
  OBVIOUS
<1>3. \A i \in 1 .. 2 : i = 1 \/ i = 2
  OBVIOUS
<1>4. 1 \in 1 .. 2 /\ 2 \in 1 .. 2 /\ 1 < 2
  OBVIOUS
<1> HIDE DEF s
<1>5. ASSUME NEW X PROVE Has(s, X) <=> x \in X \/ y \in X
  BY <1>1, <1>2, <1>3, <1>4 DEF Has
<1>6. ASSUME NEW X, y \in X, x \notin X PROVE Once(s, X)
  BY <1>1, <1>2, <1>3, <1>6 DEF Once
<1>7. ASSUME NEW X, x \in X, y \notin X PROVE Once(s, X)
  BY <1>1, <1>2, <1>3, <1>7 DEF Once
<1>8. ASSUME NEW X, NEW Y, y \in Y, y \notin X PROVE Followed(s, X, Y)
  BY <1>1, <1>2, <1>3, <1>4, <1>8 DEF Followed
<1> QED
  BY <1>1, <1>5, <1>6, <1>7, <1>8 DEF s, Steps

LEMMA TripleSteps ==
  ASSUME NEW x \in StepNames, NEW y \in StepNames, NEW z \in StepNames, NEW X, NEW Y,
         x # y, y # z, x # z, x \in X, y \notin X, z \notin X, z \in Y
  PROVE  Followed(<<x, y, z>>, X, Y)
<1> DEFINE s == <<x, y, z>>
<1>1. DOMAIN s = 1 .. 3
  OBVIOUS
<1>2. s[1] = x /\ s[2] = y /\ s[3] = z
  OBVIOUS
<1>3. \A i \in 1 .. 3 : i = 1 \/ i = 2 \/ i = 3
  OBVIOUS
<1>4. 3 \in 1 .. 3 /\ 1 < 3
  OBVIOUS
<1> HIDE DEF s
<1>5. Followed(s, X, Y)
  BY <1>1, <1>2, <1>3, <1>4 DEF Followed
<1> QED
  BY <1>5 DEF s

LEMMA WithoutIsScript ==
  ASSUME NEW s, Without(s, Typing \cup Early) \/ Without(s, Typing \cup Tells)
  PROVE  Script(s)
<1>1. s \in Steps /\ ~Has(s, Typing)
  BY DEF Without, Has
<1>2. Has(s, Early) => ~Has(s, {"stop typing"} \cup Tells)
  BY DEF Without, Has, Typing
<1>3. \A i \in DOMAIN s : s[i] \notin Typing
  BY <1>1 DEF Has
<1> QED
  BY <1>1, <1>2, <1>3 DEF Script, Followed, Typing

(* The parts that programs are put together from.                          *)
LEMMA Parts ==
  ASSUME NEW X
  PROVE  /\ "session?" \notin X => Without(<<"session?">>, X)
         /\ "connected?" \notin X => Without(<<"connected?">>, X)
         /\ "valid?" \notin X => Without(<<"valid?">>, X)
         /\ "resolve" \notin X => Without(<<"resolve">>, X)
         /\ "load" \notin X => Without(<<"load">>, X)
         /\ "transmit" \notin X => Without(<<"transmit">>, X)
         /\ "sent" \notin X => Without(<<"sent">>, X)
         /\ "arm" \notin X => Without(<<"arm">>, X)
         /\ "connect" \notin X => Without(<<"connect">>, X)
         /\ "new manager" \notin X => Without(<<"new manager">>, X)
         /\ "backoff" \notin X => Without(<<"backoff">>, X)
         /\ "healthy" \notin X => Without(<<"healthy">>, X)
         /\ "up" \notin X => Without(<<"up">>, X)
         /\ "down" \notin X => Without(<<"down">>, X)
         /\ Without(<<>>, X)
<1>1. \A x \in StepNames : x \notin X => Without(<<x>>, X)
  BY OneStep DEF Without
<1>2. Without(<<>>, X)
  BY EmptySteps DEF Without
<1> QED
  BY <1>1, <1>2 DEF StepNames, SenderSteps, PresenceSteps

LEMMA Pairs ==
  ASSUME NEW X, NEW x \in StepNames, NEW y \in StepNames, x \notin X, y \notin X
  PROVE  Without(<<x, y>>, X)
<1>1. <<x, y>> \in Seq(StepNames) /\ DOMAIN <<x, y>> = 1 .. 2
  OBVIOUS
<1>2. <<x, y>>[1] = x /\ <<x, y>>[2] = y
  OBVIOUS
<1>3. \A i \in 1 .. 2 : i = 1 \/ i = 2
  OBVIOUS
<1> QED
  BY <1>1, <1>2, <1>3 DEF Without, Has, Steps

LEMMA Triples ==
  ASSUME NEW X, NEW x \in StepNames, NEW y \in StepNames, NEW z \in StepNames,
         x \notin X, y \notin X, z \notin X
  PROVE  Without(<<x, y, z>>, X)
<1>1. <<x, y, z>> \in Seq(StepNames) /\ DOMAIN <<x, y, z>> = 1 .. 3
  OBVIOUS
<1>2. <<x, y, z>>[1] = x /\ <<x, y, z>>[2] = y /\ <<x, y, z>>[3] = z
  OBVIOUS
<1>3. \A i \in 1 .. 3 : i = 1 \/ i = 2 \/ i = 3
  OBVIOUS
<1> QED
  BY <1>1, <1>2, <1>3 DEF Without, Has, Steps

LEMMA AreSteps ==
  /\ {"session?", "connected?", "valid?", "load", "resolve", "upload", "transmit", "signal",
      "sent", "failed", "stop typing", "new manager", "connect", "started?", "hang up",
      "healthy", "up", "down", "backoff"} \subseteq StepNames
  /\ {"running?", "away?", "set available", "tell online", "set unavailable", "tell offline",
      "arm", "disarm", "typing?", "composing", "set stopped"} \subseteq StepNames
  BY DEF StepNames, SenderSteps, PresenceSteps

(* The methods of the presence manager that are called outside a send.     *)
LEMMA PresenceScripts ==
  ASSUME NEW X, X \cap {"running?", "away?", "set available", "arm", "set unavailable",
                        "disarm", "set stopped"} = {}
  PROVE  /\ Without(OnConnect, X) /\ Without(OnDisconnect, X) /\ Without(MarkActive, X)
         /\ Without(Stop, X) /\ Without(IdleCallback, X)
<1> USE AreSteps
<1>1. /\ "running?" \notin X /\ "away?" \notin X /\ "set available" \notin X /\ "arm" \notin X
      /\ "set unavailable" \notin X /\ "disarm" \notin X /\ "set stopped" \notin X
  OBVIOUS
<1>2. /\ Without(<<"running?">>, X) /\ Without(<<"set available">>, X) /\ Without(<<"arm">>, X)
      /\ Without(<<>>, X)
  BY <1>1, OneStep, EmptySteps DEF Without
<1>3. Without(OnConnect, X)
  BY <1>2, WithoutConcat DEF OnConnect
<1>4. Without(OnDisconnect, X) /\ Without(Stop, X) /\ Without(IdleCallback, X)
  BY <1>1, <1>2, Pairs DEF OnDisconnect, Stop, IdleCallback
<1>5. Without(MarkActive, X)
  BY <1>1, <1>2, Triples DEF MarkActive
<1> QED
  BY <1>3, <1>4, <1>5

(* A call of Forward or of ResolveMediaSource, and media.                  *)
LEMMA ForwardWithout ==
  ASSUME NEW X, "session?" \notin X, "connected?" \notin X, NEW s, Without(s, X)
  PROVE  Without(Forward(s), X) /\ Without(SessionCall(s), X)
<1>1. Without(<<"session?">>, X) /\ Without(<<"connected?">>, X)
  BY Parts
<1>2. Without(<<"connected?">> \o s, X)
  BY <1>1, WithoutConcat
<1>3. Without(<<"session?">> \o (<<"connected?">> \o s), X) /\ Without(<<"session?">> \o s, X)
  BY <1>1, <1>2, WithoutConcat
<1> QED
  BY <1>3 DEF Forward, SessionCall, EngineCall

(* Program, one operation at a time.                                       *)
LEMMA Programs ==
  /\ Program["handleSendText"] = Forward(SendText)
  /\ Program["SendTextReply"] = Forward(SendTextReply)
  /\ Program["handleSendImage"] = Forward(SendImageWithCaption)
  /\ Program["handleSendDocument"] = ResolveMediaSource \o Forward(SendDocument)
  /\ Program["handleSendVideo"] = ResolveMediaSource \o Forward(SendVideo)
  /\ Program["handleSendAudio"] = ResolveMediaSource \o Forward(SendAudio)
  /\ Program["SendImage"] = SendImage
  /\ Program["SendLocation"] = SendLocation
  /\ Program["SendContact"] = SendContact
  /\ Program["SetTyping"] = Forward(SendChatPresence)
  /\ Program["MarkRead"] = Forward(SendReadReceipt)
  /\ Program["SendPresence"] = SendPresence
  /\ Program["handleMarkActive"] = SessionCall(<<"load">> \o MarkActive)
  /\ Program["SetPresenceConfig"] = SessionCall(<<"new manager">>)
  /\ Program["Start"] = SessionCall(<<"connect">>)
  /\ Program["Stop"] = SessionCall(<<"started?", "load">> \o Stop \o <<"hang up", "down">>)
  BY DEF Program

LEMMA Operations ==
  DOMAIN Program = {"handleSendText", "handleSendImage", "handleSendDocument", "handleSendVideo",
                    "handleSendAudio", "SendTextReply", "SendImage", "SendLocation", "SendContact",
                    "SetTyping", "MarkRead", "SendPresence", "handleMarkActive",
                    "SetPresenceConfig", "Start", "Stop"}
  BY DEF Program

(* A send, from the message to the event.                                  *)
LEMMA Core ==
  ASSUME NEW s, Without(s, Typing \cup Early \cup {"sent", "failed"}),
         Has(s, {"transmit"}), Once(s, {"transmit"}), Followed(s, Checks, {"transmit"}),
         NEW t, Without(t, Early \cup Checks \cup {"transmit", "failed", "composing", "typing?"}),
         Has(t, {"sent"}), Once(t, {"sent"})
  PROVE  Whole(s \o t) /\ (Has(t, {"stop typing"}) => Has(s \o t, {"stop typing"}))
<1>1. /\ s \in Steps
      /\ ~Has(s, {"stop typing"}) /\ ~Has(s, {"composing"}) /\ ~Has(s, {"typing?"})
      /\ ~Has(s, {"sent"}) /\ ~Has(s, {"failed"}) /\ ~Has(s, Early)
  BY DEF Has, Without, Typing, Early
<1>2. /\ t \in Steps
      /\ ~Has(t, {"transmit"}) /\ ~Has(t, {"composing"}) /\ ~Has(t, {"typing?"})
      /\ ~Has(t, {"failed"}) /\ ~Has(t, Early) /\ ~Has(t, Checks)
      /\ ~Has(t, Checks \cup {"composing"}) /\ ~Has(t, Early \cup {"failed"})
  BY FewerSteps DEF Without, Early
<1>3. ~Has(s, Early \cup {"failed"})
  BY <1>1 DEF Has
<1>4. Followed(s, Checks \cup {"composing"}, {"transmit"})
  BY <1>1 DEF Has, Followed
<1>5. /\ Has(s \o t, {"transmit"}) /\ Has(s \o t, {"sent"}) /\ ~Has(s \o t, Early \cup {"failed"})
      /\ ~Has(s \o t, Early) /\ s \o t \in Steps
      /\ Has(t, {"stop typing"}) => Has(s \o t, {"stop typing"})
  BY <1>1, <1>2, <1>3, ConcatSteps
<1>6. Followed(t, Checks \cup {"composing"}, {"transmit"}) /\ Followed(t, {"transmit"}, {"sent"})
  BY <1>2, NoSteps
<1>7. /\ Followed(s \o t, Checks \cup {"composing"}, {"transmit"})
      /\ Followed(s \o t, {"transmit"}, {"sent"})
  BY <1>1, <1>2, <1>4, <1>6, ConcatSteps
<1>8. /\ Once(s, {"sent"}) /\ Once(s, {"failed"}) /\ Once(t, {"transmit"}) /\ Once(t, {"failed"})
  BY <1>1, <1>2, NoSteps
<1>9. Once(s \o t, {"transmit"}) /\ Once(s \o t, {"sent"}) /\ Once(s \o t, {"failed"})
  BY <1>1, <1>2, <1>8, ConcatSteps
<1>10. ~Has(s \o t, {"composing"}) /\ ~Has(s \o t, {"typing?"})
  BY <1>1, <1>2, ConcatSteps
<1>11. /\ Followed(s \o t, {"composing"}, {"stop typing"})
       /\ Followed(s \o t, {"typing?"}, {"composing"})
  BY <1>10, NoSteps
<1> QED
  BY <1>5, <1>7, <1>9, <1>11 DEF Whole, Sending, Script

(* What comes before it.                                                   *)
LEMMA Prefix ==
  ASSUME NEW s, Without(s, Early \cup Tells \cup {"stop typing"}),
         Followed(s, {"typing?"}, {"composing"}),
         NEW t, Whole(t), Has(s, {"composing"}) => Has(t, {"stop typing"})
  PROVE  Whole(s \o t) /\ (Has(t, {"stop typing"}) => Has(s \o t, {"stop typing"}))
<1>1. /\ s \in Steps /\ ~Has(s, Early) /\ ~Has(s, {"transmit"}) /\ ~Has(s, {"sent"})
      /\ ~Has(s, {"failed"}) /\ ~Has(s, Early \cup {"failed"})
  BY DEF Has, Without, Early, Tells
<1>2. t \in Steps /\ ~Has(t, Early)
  BY DEF Has, Whole, Script
<1>3. /\ Has(s \o t, {"transmit"}) /\ Has(s \o t, {"sent"}) /\ ~Has(s \o t, Early \cup {"failed"})
      /\ ~Has(s \o t, Early) /\ s \o t \in Steps
      /\ Has(t, {"stop typing"}) => Has(s \o t, {"stop typing"})
  BY <1>1, <1>2, ConcatSteps DEF Whole
<1>4. /\ Followed(s \o t, Checks \cup {"composing"}, {"transmit"})
      /\ Followed(s \o t, {"transmit"}, {"sent"})
  BY <1>1, <1>2, ConcatSteps DEF Whole, Sending
<1>5. Once(s, {"transmit"}) /\ Once(s, {"sent"}) /\ Once(s, {"failed"})
  BY <1>1, NoSteps
<1>6. Once(s \o t, {"transmit"}) /\ Once(s \o t, {"sent"}) /\ Once(s \o t, {"failed"})
  BY <1>1, <1>2, <1>5, ConcatSteps DEF Whole, Sending
<1>7. Followed(s \o t, {"typing?"}, {"composing"})
  BY <1>1, <1>2, ConcatSteps DEF Whole, Script
<1>8. Followed(s \o t, {"composing"}, {"stop typing"})
  <2>1. CASE Has(s, {"composing"})
    BY <1>1, <1>2, <2>1, ConcatSteps DEF Whole, Script
  <2>2. CASE ~Has(s, {"composing"})
    <3>1. Followed(s, {"composing"}, {"stop typing"})
      BY <2>2, NoSteps
    <3> QED
      BY <1>1, <1>2, <3>1, ConcatSteps DEF Whole, Script
  <2> QED
    BY <2>1, <2>2
<1> QED
  BY <1>3, <1>4, <1>6, <1>7, <1>8 DEF Whole, Sending, Script

LEMMA PlainPrefix ==
  ASSUME NEW s, Without(s, Early \cup Tells \cup Typing), NEW t, Whole(t)
  PROVE  Whole(s \o t)
<1>1. /\ s \in Steps /\ ~Has(s, Early \cup Tells \cup {"stop typing"})
      /\ ~Has(s, {"typing?"}) /\ ~Has(s, {"composing"})
  BY DEF Has, Without, Typing
<1>2. Followed(s, {"typing?"}, {"composing"})
  BY <1>1, NoSteps
<1> QED
  BY <1>1, <1>2, Prefix DEF Without

LEMMA ForwardWhole ==
  ASSUME NEW t, Whole(t)
  PROVE  Whole(Forward(t)) /\ Whole(SessionCall(t))
<1> DEFINE X == Early \cup Tells \cup Typing
<1>1. Without(<<"session?">>, X) /\ Without(<<"connected?">>, X)
  BY Parts DEF Early, Tells, Typing
<1>2. Whole(<<"connected?">> \o t)
  BY <1>1, PlainPrefix
<1>3. Whole(<<"session?">> \o (<<"connected?">> \o t)) /\ Whole(<<"session?">> \o t)
  BY <1>1, <1>2, PlainPrefix
<1> QED
  BY <1>3 DEF Forward, SessionCall, EngineCall

LEMMA MediaScripts ==
  ASSUME NEW o \in Media
  PROVE  Whole(Program[o])
<1> DEFINE X == Early \cup Tells \cup Typing
           Y == Early \cup Checks \cup {"transmit", "failed", "composing", "typing?"}
           Z == Typing \cup Early \cup {"sent", "failed"}
<1>1. /\ "session?" \notin X /\ "resolve" \notin X /\ "valid?" \notin X
      /\ "sent" \notin Y /\ "load" \notin Y /\ "arm" \notin Y
      /\ "upload" \notin Z /\ "transmit" \notin Z
  BY DEF Early, Tells, Typing, Checks
<1> HIDE DEF X, Y, Z
<1>2. /\ Without(<<"resolve">>, X) /\ Without(<<"valid?">>, X) /\ Without(<<"valid?", "resolve">>, X)
      /\ Without(<<"load">>, Y) /\ Without(<<"arm">>, Y) /\ Without(<<"sent">>, Y)
      /\ Without(<<"upload", "transmit">>, Z)
  BY <1>1, Parts, Pairs, AreSteps
<1>3. afterSend \in Steps /\ Without(afterSend \o <<"sent">>, Y)
  BY <1>2, WithoutConcat DEF afterSend, AfterSend, Without
<1>4. Has(<<"sent">>, {"sent"}) /\ Once(<<"sent">>, {"sent"}) /\ <<"sent">> \in Steps
  BY OneStep, AreSteps
<1>5. ~Has(afterSend, {"sent"})
  <2>1. Without(<<"load">>, {"sent"}) /\ Without(<<"arm">>, {"sent"})
    BY Parts
  <2> QED
    BY <2>1, WithoutConcat DEF afterSend, AfterSend, Without
<1>6. Has(afterSend \o <<"sent">>, {"sent"}) /\ Once(afterSend \o <<"sent">>, {"sent"})
  BY <1>3, <1>4, <1>5, ConcatSteps, NoSteps
<1>7. /\ <<"upload", "transmit">> \in Steps /\ Has(<<"upload", "transmit">>, {"transmit"})
      /\ Once(<<"upload", "transmit">>, {"transmit"})
      /\ Followed(<<"upload", "transmit">>, Checks, {"transmit"})
  <2>1. "transmit" \notin Checks
    BY DEF Checks
  <2>2. "upload" \in StepNames /\ "transmit" \in StepNames
    BY AreSteps
  <2>3. "transmit" \in {"transmit"} /\ "upload" \notin {"transmit"}
    OBVIOUS
  <2> QED
    BY <2>1, <2>2, <2>3, PairSteps, Zenon
<1>8. Whole(<<"upload", "transmit">> \o (afterSend \o <<"sent">>))
  BY <1>2, <1>3, <1>6, <1>7, Core DEF Y, Z
<1>9. Whole(UploadAndSend)
  BY <1>3, <1>4, <1>7, <1>8, AssociateSteps DEF UploadAndSend
<1>10. /\ Whole(SendImageWithCaption) /\ Whole(SendImage) /\ Whole(SendDocument)
       /\ Whole(SendVideo) /\ Whole(SendAudio)
  BY <1>2, <1>9, PlainPrefix DEF SendImageWithCaption, SendImage, SendDocument, SendVideo,
     SendAudio, X
<1>11. Without(ResolveMediaSource, X)
  <2>1. Without(<<"session?">>, X)
    BY <1>1, Parts
  <2> QED
    BY <1>2, <2>1, WithoutConcat DEF ResolveMediaSource, SessionCall
<1>12. /\ Whole(Forward(SendImageWithCaption)) /\ Whole(Forward(SendDocument))
       /\ Whole(Forward(SendVideo)) /\ Whole(Forward(SendAudio))
  BY <1>10, ForwardWhole
<1>13. /\ Whole(ResolveMediaSource \o Forward(SendDocument))
       /\ Whole(ResolveMediaSource \o Forward(SendVideo))
       /\ Whole(ResolveMediaSource \o Forward(SendAudio))
  BY <1>11, <1>12, PlainPrefix DEF X
<1> QED
  BY <1>10, <1>12, <1>13, Programs DEF Media

LEMMA TextScripts ==
  ASSUME NEW o \in Texts
  PROVE  Whole(Program[o])
<1> DEFINE X == Early \cup Tells \cup {"stop typing"}
           Y == Early \cup Checks \cup {"transmit", "failed", "composing", "typing?"}
           Z == Typing \cup Early \cup {"sent", "failed"}
           E == <<"sent", "stop typing">>
           T == <<"transmit">>
           W == waitBeforeSend
           V == <<"valid?">>
<1>1. /\ "load" \notin X /\ "arm" \notin X /\ "valid?" \notin X /\ "typing?" \notin X
      /\ "away?" \notin X /\ "composing" \notin X
      /\ "sent" \notin Y /\ "load" \notin Y /\ "arm" \notin Y /\ "stop typing" \notin Y
      /\ "transmit" \notin Z
  BY DEF Early, Tells, Typing, Checks
<1> HIDE DEF X, Y, Z
<1>2. Without(afterSend, Y) /\ ~Has(afterSend, {"sent"}) /\ afterSend \in Steps
  <2>1. /\ Without(<<"load">>, {"sent"}) /\ Without(<<"arm">>, {"sent"})
        /\ Without(<<"load">>, Y) /\ Without(<<"arm">>, Y)
    BY <1>1, Parts
  <2> QED
    BY <2>1, WithoutConcat DEF afterSend, AfterSend, Without
<1>3. /\ E \in Steps /\ Has(E, {"sent"}) /\ Once(E, {"sent"}) /\ Has(E, {"stop typing"})
      /\ Without(E, Y)
  <2>1. "sent" \in StepNames /\ "stop typing" \in StepNames
    BY AreSteps
  <2>2. /\ "sent" \in {"sent"} /\ "stop typing" \notin {"sent"}
        /\ "stop typing" \in {"stop typing"}
    OBVIOUS
  <2> QED
    BY <1>1, <2>1, <2>2, PairSteps, Zenon DEF Without
<1>4. /\ T \in Steps /\ Has(T, {"transmit"}) /\ Once(T, {"transmit"}) /\ Without(T, Z)
      /\ Followed(T, Checks, {"transmit"})
  <2>1. "transmit" \notin Checks
    BY DEF Checks
  <2> QED
    BY <1>1, <2>1, OneStep, AreSteps DEF Without
<1>5. /\ W \in Steps /\ Without(W, X) /\ Followed(W, {"typing?"}, {"composing"})
  <2>1. /\ Without(<<"load">>, X) /\ Without(<<"arm">>, X) /\ Without(<<>>, X)
        /\ Without(<<"typing?", "away?", "composing">>, X)
    BY <1>1, Parts, Triples, AreSteps
  <2>2. Without(BeforeSend, X)
    BY <2>1, WithoutConcat DEF BeforeSend
  <2>3. Without(W, X)
    BY <2>1, <2>2, WithoutConcat DEF waitBeforeSend
  <2>4. Followed(<<"typing?", "away?", "composing">>, {"typing?"}, {"composing"})
    BY TripleSteps, AreSteps
  <2>5. /\ Followed(<<>>, {"typing?"}, {"composing"})
        /\ Followed(<<"load">>, {"typing?"}, {"composing"})
        /\ Followed(<<"arm">>, {"typing?"}, {"composing"})
    BY EmptySteps, OneStep, AreSteps
  <2>6. Followed(BeforeSend, {"typing?"}, {"composing"})
    BY <2>1, <2>4, <2>5, ConcatSteps DEF BeforeSend, Without
  <2>7. Followed(W, {"typing?"}, {"composing"})
    BY <2>1, <2>2, <2>5, <2>6, ConcatSteps DEF waitBeforeSend, Without
  <2> QED
    BY <2>3, <2>7 DEF Without
<1>6. V \in Steps /\ Without(V, Early \cup Tells \cup Typing)
  <2>1. "valid?" \notin Early \cup Tells \cup Typing
    BY DEF Early, Tells, Typing
  <2> QED
    BY <2>1, Parts DEF Without
<1> HIDE DEF E, T, W, V
<1>7. /\ afterSend \o E \in Steps /\ Without(afterSend \o E, Y) /\ Has(afterSend \o E, {"sent"})
      /\ Once(afterSend \o E, {"sent"}) /\ Has(afterSend \o E, {"stop typing"})
  BY <1>2, <1>3, ConcatSteps, NoSteps, WithoutConcat
<1>8. Whole(T \o (afterSend \o E)) /\ Has(T \o (afterSend \o E), {"stop typing"})
  BY <1>4, <1>7, Core DEF Y, Z
<1>9. Whole(W \o (T \o (afterSend \o E)))
  BY <1>5, <1>8, Prefix DEF X
<1>10. Whole(V \o (W \o (T \o (afterSend \o E))))
  BY <1>6, <1>9, PlainPrefix
<1>11. SendText = V \o (W \o (T \o (afterSend \o E)))
  <2>1. SendText = (((V \o W) \o T) \o afterSend) \o E
    BY DEF SendText, V, W, T, E
  <2>2. V \o W \in Steps /\ (V \o W) \o T \in Steps /\ T \o (afterSend \o E) \in Steps
    BY <1>4, <1>5, <1>6, <1>7, ConcatSteps
  <2>3. (((V \o W) \o T) \o afterSend) \o E = ((V \o W) \o T) \o (afterSend \o E)
    BY ZenonT(30), <1>2, <1>3, <2>2, AssociateSteps
  <2>4. ((V \o W) \o T) \o (afterSend \o E) = (V \o W) \o (T \o (afterSend \o E))
    BY ZenonT(30), <1>4, <1>7, <2>2, AssociateSteps
  <2>5. (V \o W) \o (T \o (afterSend \o E)) = V \o (W \o (T \o (afterSend \o E)))
    BY <1>5, <1>6, <2>2, AssociateSteps
  <2> QED
    BY <2>1, <2>3, <2>4, <2>5
<1>12. Whole(Forward(SendText)) /\ Whole(Forward(SendTextReply))
  BY <1>10, <1>11, ForwardWhole DEF SendTextReply
<1> QED
  BY <1>12, Programs DEF Texts

Others == DOMAIN Program \ (Texts \cup Media)

LEMMA OtherScripts ==
  ASSUME NEW o \in Others
  PROVE  Script(Program[o]) /\ ~Has(Program[o], {"sent", "failed"})
<1> USE AreSteps
<1>1. CASE o \in {"SendLocation", "SendContact", "SetTyping", "MarkRead", "SendPresence",
                  "SetPresenceConfig", "Start"}
  <2> DEFINE X == Typing \cup Early \cup {"sent", "failed"}
  <2>1. /\ "session?" \notin X /\ "connected?" \notin X /\ "valid?" \notin X /\ "transmit" \notin X
        /\ "signal" \notin X /\ "connect" \notin X /\ "new manager" \notin X
    BY DEF Typing, Early
  <2> HIDE DEF X
  <2>2. /\ Without(<<"valid?", "transmit">>, X) /\ Without(<<"valid?", "signal">>, X)
        /\ Without(<<"connect">>, X) /\ Without(<<"new manager">>, X)
    BY <2>1, Parts, Pairs
  <2>3. /\ Without(Forward(<<"valid?", "signal">>), X) /\ Without(SessionCall(<<"connect">>), X)
        /\ Without(SessionCall(<<"new manager">>), X)
    BY <2>1, <2>2, ForwardWithout
  <2>4. Without(Program[o], X)
    BY <1>1, <2>2, <2>3, Programs DEF SendLocation, SendContact, SendPresence,
       SendChatPresence, SendReadReceipt
  <2>5. Without(Program[o], Typing \cup Early) /\ ~Has(Program[o], {"sent", "failed"})
    BY <2>4 DEF Without, Has, X
  <2> QED
    BY <2>5, WithoutIsScript
<1>2. CASE o \in {"handleMarkActive", "Stop"}
  <2> DEFINE X == Typing \cup Tells
  <2>1. /\ "session?" \notin X /\ "connected?" \notin X /\ "load" \notin X /\ "started?" \notin X
        /\ "hang up" \notin X /\ "down" \notin X
        /\ X \cap {"running?", "away?", "set available", "arm", "set unavailable", "disarm",
                   "set stopped"} = {}
    BY DEF Typing, Tells
  <2>2. Without(MarkActive, X) /\ Without(Stop, X)
    BY <2>1, PresenceScripts
  <2> HIDE DEF X
  <2>3. /\ Without(<<"load">>, X) /\ Without(<<"started?", "load">>, X)
        /\ Without(<<"hang up", "down">>, X)
    BY <2>1, Parts, Pairs
  <2>4. Without(<<"load">> \o MarkActive, X) /\ Without(<<"started?", "load">> \o Stop, X)
    BY <2>2, <2>3, WithoutConcat
  <2>5. Without((<<"started?", "load">> \o Stop) \o <<"hang up", "down">>, X)
    BY <2>3, <2>4, WithoutConcat
  <2>6. Without(Program[o], X)
    BY <1>2, <2>1, <2>4, <2>5, ForwardWithout, Programs
  <2>7. ~Has(Program[o], {"sent", "failed"}) /\ Without(Program[o], Typing \cup Tells)
    BY <2>6 DEF Without, Has, X, Tells
  <2> QED
    BY <2>7, WithoutIsScript
<1>3. o \in {"SendLocation", "SendContact", "SetTyping", "MarkRead", "SendPresence",
             "SetPresenceConfig", "Start", "handleMarkActive", "Stop"}
  BY Operations DEF Others, Texts, Media
<1> QED
  BY <1>1, <1>2, <1>3

(* The event handler and the idle callback never wait on the sender.       *)
LEMMA HandlingScripts ==
  ASSUME NEW s, (\E k \in DOMAIN Handling : s = Handling[k]) \/ s = IdleCallback
  PROVE  Without(s, Typing \cup Tells \cup Checks)
<1> DEFINE X == Typing \cup Tells \cup Checks
<1>1. /\ "healthy" \notin X /\ "load" \notin X /\ "backoff" \notin X /\ "down" \notin X
      /\ "up" \notin X
      /\ X \cap {"running?", "away?", "set available", "arm", "set unavailable", "disarm",
                 "set stopped"} = {}
  BY DEF Typing, Tells, Checks
<1> HIDE DEF X
<1>2. Without(OnConnect, X) /\ Without(OnDisconnect, X) /\ Without(IdleCallback, X)
  BY <1>1, PresenceScripts
<1>3. /\ Without(<<"load">>, X) /\ Without(<<"backoff">>, X) /\ Without(<<"down">>, X)
      /\ Without(<<"healthy">>, X)
      /\ Without(<<"healthy", "load">>, X) /\ Without(<<"down", "load">>, X)
      /\ Without(<<"up", "load">>, X)
  BY <1>1, Parts, Pairs, AreSteps
<1>4. /\ Without(<<"healthy", "load">> \o OnConnect, X)
      /\ Without((<<"load">> \o OnDisconnect) \o <<"backoff">>, X)
      /\ Without(<<"down", "load">> \o OnDisconnect, X)
      /\ Without(<<"up", "load">> \o OnConnect, X)
  BY <1>2, <1>3, WithoutConcat
<1>5. ASSUME NEW k \in DOMAIN Handling PROVE Without(Handling[k], X)
  <2>1. /\ Handling["Connected"] = <<"healthy", "load">> \o OnConnect
        /\ Handling["Disconnected"] = <<"load">> \o OnDisconnect \o <<"backoff">>
        /\ Handling["LoggedOut"] = <<"down", "load">> \o OnDisconnect
        /\ Handling["StreamReplaced"] = <<"down">>
        /\ Handling["PairSuccess"] = <<"up", "load">> \o OnConnect
        /\ Handling["KeepAliveTimeout"] = <<"down">>
        /\ Handling["KeepAliveRestored"] = <<"healthy">>
    BY DEF Handling
  <2>2. k \in {"Connected", "Disconnected", "LoggedOut", "StreamReplaced", "PairSuccess",
               "KeepAliveTimeout", "KeepAliveRestored"}
    BY DEF Handling
  <2> QED
    BY <1>3, <1>4, <2>1, <2>2
<1> QED
  BY <1>2, <1>5 DEF X

LEMMA HandlingIsScript ==
  ASSUME NEW s, Without(s, Typing \cup Tells \cup Checks)
  PROVE  Script(s) /\ Sending(s) /\ ~Has(s, Tells)
<1>1. /\ s \in Steps /\ ~Has(s, Typing \cup Tells) /\ ~Has(s, Tells)
      /\ ~Has(s, Checks \cup {"composing"}) /\ ~Has(s, {"transmit"}) /\ ~Has(s, {"sent"})
      /\ ~Has(s, {"failed"})
  BY DEF Has, Without, Typing, Tells
<1>2. Sending(s)
  BY <1>1, NoSteps DEF Sending
<1> QED
  BY <1>1, <1>2, WithoutIsScript DEF Without

(* What is left to do of a call that fails.                                *)
LEMMA FailureScripts ==
  ASSUME NEW t \in {<<>>, <<"failed">>}, NEW u \in {<<>>, <<"stop typing">>}
  PROVE  /\ Script(t \o u) /\ Sending(t \o u)
         /\ ~Has(t \o u, {"transmit"}) /\ ~Has(t \o u, {"sent"})
         /\ Has(t \o u, {"failed"}) <=> t = <<"failed">>
         /\ Has(t \o u, {"stop typing"}) <=> u = <<"stop typing">>
<1> DEFINE Y == Early \cup Checks \cup {"transmit", "sent", "composing", "typing?"}
           s == t \o u
<1>1. "failed" \notin Y /\ "stop typing" \notin Y
  BY DEF Early, Checks
<1> HIDE DEF Y
<1>2. /\ t \in Steps /\ ~Has(t, Y) /\ Once(t, {"failed"})
      /\ Has(t, {"failed"}) <=> t = <<"failed">>
      /\ ~Has(t, {"stop typing"})
  <2>1. CASE t = <<>>
    BY <2>1, EmptySteps
  <2>2. CASE t = <<"failed">>
    BY <1>1, <2>2, OneStep, AreSteps
  <2> QED
    BY <2>1, <2>2
<1>3. /\ u \in Steps /\ ~Has(u, Y) /\ Once(u, {"failed"}) /\ ~Has(u, {"failed"})
      /\ Has(u, {"stop typing"}) <=> u = <<"stop typing">>
  <2>1. CASE u = <<>>
    BY <2>1, EmptySteps
  <2>2. CASE u = <<"stop typing">>
    BY <1>1, <2>2, OneStep, AreSteps
  <2> QED
    BY <2>1, <2>2
<1>5. /\ s \in Steps /\ ~Has(s, Y) /\ Once(s, {"failed"})
      /\ Has(s, {"failed"}) <=> t = <<"failed">>
      /\ Has(s, {"stop typing"}) <=> u = <<"stop typing">>
  BY <1>2, <1>3, ConcatSteps
<1> HIDE DEF s
<1>6. /\ ~Has(s, {"transmit"}) /\ ~Has(s, {"sent"}) /\ ~Has(s, {"composing"})
      /\ ~Has(s, {"typing?"}) /\ ~Has(s, Early) /\ ~Has(s, Checks \cup {"composing"})
  BY <1>5 DEF Has, Y
<1>7. /\ Followed(s, {"composing"}, {"stop typing"}) /\ Followed(s, {"typing?"}, {"composing"})
      /\ Followed(s, Checks \cup {"composing"}, {"transmit"})
      /\ Followed(s, {"transmit"}, {"sent"}) /\ Once(s, {"transmit"}) /\ Once(s, {"sent"})
  BY <1>6, NoSteps
<1>8. Script(s) /\ Sending(s)
  BY <1>5, <1>6, <1>7 DEF Script, Sending
<1> QED
  BY <1>5, <1>6, <1>8 DEF s

-----------------------------------------------------------------------------
(* How a step that does not fail changes what its goroutine has to do.     *)
Fills == {"set available", "tell online", "tell offline"}

Moves(s, r) ==
    \/ r = Tail(s) /\ Head(s) # "typing?"
    \/ Head(s) = "typing?" /\ r = Tail(s)
    \/ Head(s) = "typing?" /\ \E i \in DOMAIN s : s[i] = "composing" /\ r = SubSeq(s, i + 1, Len(s))
    \/ Head(s) \in Early /\ r = <<>>
    \/ Head(s) \in PresenceSteps \ Typing /\ \E x \in Fills : r = <<x>> \o Tail(s)

LEMMA MoveKeeps ==
  ASSUME NEW s \in Steps, s # <<>>, NEW r, Moves(s, r),
         NEW X, NEW Y, X \cap Fills = {}, Y \cap Fills = {}
  PROVE  /\ r \in Steps
         /\ Has(r, X) => Has(s, X)
         /\ Followed(s, X, Y) => Followed(r, X, Y)
         /\ Once(s, X) => Once(r, X)
<1>1. CASE r = Tail(s)
  BY <1>1, TailSteps
<1>2. CASE \E i \in DOMAIN s : r = SubSeq(s, i + 1, Len(s))
  BY <1>2, AfterSteps
<1>3. CASE r = <<>>
  BY <1>3, EmptySteps
<1>4. CASE \E x \in Fills : r = <<x>> \o Tail(s)
  <2>1. PICK x \in Fills : r = <<x>> \o Tail(s)
    BY <1>4
  <2>2. x \in StepNames /\ x \notin X /\ x \notin Y
    BY AreSteps DEF Fills
  <2>3. <<x>> \in Steps /\ ~Has(<<x>>, X) /\ Followed(<<x>>, X, Y) /\ Once(<<x>>, X)
    BY <2>2, OneStep
  <2>4. /\ Tail(s) \in Steps
        /\ Has(Tail(s), X) => Has(s, X)
        /\ Followed(s, X, Y) => Followed(Tail(s), X, Y)
        /\ Once(s, X) => Once(Tail(s), X)
    BY TailSteps
  <2> QED
    BY <2>1, <2>3, <2>4, ConcatSteps
<1> QED
  BY <1>1, <1>2, <1>3, <1>4 DEF Moves

(* What is not lost on the way.                                            *)
LEMMA MoveLeaves ==
  ASSUME NEW s \in Steps, s # <<>>, NEW r, Moves(s, r),
         NEW Y, Has(s, Y), Head(s) \notin Y \cup Early,
         Head(s) = "typing?" => Followed(s, {"composing"}, Y)
  PROVE  Has(r, Y)
<1>1. Has(Tail(s), Y) /\ Tail(s) \in Steps
  BY TailSteps
<1>2. CASE r = Tail(s)
  BY <1>1, <1>2
<1>3. CASE Head(s) = "typing?" /\ \E i \in DOMAIN s : s[i] = "composing" /\ r = SubSeq(s, i + 1, Len(s))
  <2>1. PICK i \in DOMAIN s : s[i] = "composing" /\ r = SubSeq(s, i + 1, Len(s))
    BY <1>3
  <2>2. s[i] \in {"composing"} /\ Followed(s, {"composing"}, Y)
    BY <1>3, <2>1
  <2> QED
    BY <2>1, <2>2, AfterSteps
<1>4. CASE \E x \in Fills : r = <<x>> \o Tail(s)
  <2>1. PICK x \in Fills : r = <<x>> \o Tail(s)
    BY <1>4
  <2>2. <<x>> \in Steps
    BY OneStep, AreSteps DEF Fills
  <2> QED
    BY <1>1, <2>1, <2>2, ConcatSteps
<1> QED
  BY <1>2, <1>3, <1>4 DEF Moves

LEMMA MoveScript ==
  ASSUME NEW s, Script(s), s # <<>>, NEW r, Moves(s, r)
  PROVE  Script(r) /\ (Sending(s) => Sending(r))
<1>1. /\ {"composing"} \cap Fills = {} /\ {"stop typing"} \cap Fills = {}
      /\ {"typing?"} \cap Fills = {} /\ Early \cap Fills = {}
      /\ ({"stop typing"} \cup Tells) \cap Fills = {}
      /\ (Checks \cup {"composing"}) \cap Fills = {} /\ {"transmit"} \cap Fills = {}
      /\ {"sent"} \cap Fills = {} /\ {"failed"} \cap Fills = {}
  BY DEF Fills, Early, Tells, Checks
<1>2. s \in Steps
  BY DEF Script
<1>3. r \in Steps
  BY <1>1, <1>2, MoveKeeps
<1>4. Followed(r, {"composing"}, {"stop typing"}) /\ Followed(r, {"typing?"}, {"composing"})
  BY <1>1, <1>2, MoveKeeps DEF Script
<1>5. Has(r, Early) => ~Has(r, {"stop typing"} \cup Tells)
  BY <1>1, <1>2, MoveKeeps DEF Script
<1>6. ASSUME Sending(s) PROVE Sending(r)
  <2>1. Followed(r, Checks \cup {"composing"}, {"transmit"})
    BY <1>1, <1>2, <1>6, MoveKeeps DEF Sending
  <2>2. Followed(r, {"transmit"}, {"sent"})
    BY <1>1, <1>2, <1>6, MoveKeeps DEF Sending
  <2>3. Once(r, {"transmit"}) /\ Once(r, {"sent"}) /\ Once(r, {"failed"})
    BY <1>1, <1>2, <1>6, MoveKeeps DEF Sending
  <2> QED
    BY <2>1, <2>2, <2>3 DEF Sending
<1> QED
  BY <1>3, <1>4, <1>5, <1>6 DEF Script

-----------------------------------------------------------------------------
(* The steps of the specification.                                         *)
Succeeds(g) == \E r : Moves(todo[g], r) /\ Instead(g, r)
Fails(g)    == Head(todo[g]) \in Checks \cup {"transmit"} /\ Fail(g)

LEMMA ProceedMoves ==
  ASSUME NEW g, todo[g] \in Steps, todo[g] # <<>>
  PROVE  /\ Proceed(g) => Succeeds(g)
         /\ \A x \in Fills : First(g, <<x>>) /\ Head(todo[g]) \in PresenceSteps \ Typing
                               => Succeeds(g)
<1>1. Tail(todo[g]) \in Seq(StepNames)
  BY TailSteps DEF Steps
<1>2. <<>> \o Tail(todo[g]) = Tail(todo[g])
  BY <1>1, ConcatEmptySeq
<1>3. Moves(todo[g], Tail(todo[g]))
  BY DEF Moves
<1>4. Proceed(g) => Succeeds(g)
  BY <1>2, <1>3 DEF Proceed, First, Succeeds
<1>5. ASSUME NEW x \in Fills, First(g, <<x>>), Head(todo[g]) \in PresenceSteps \ Typing
      PROVE  Succeeds(g)
  BY <1>5 DEF First, Succeeds, Moves
<1> QED
  BY <1>4, <1>5

LEMMA SkipMoves ==
  ASSUME NEW g, Script(todo[g]), At(g, "typing?"), SkipTyping(g)
  PROVE  Succeeds(g)
<1>1. todo[g] \in Steps /\ todo[g] # <<>> /\ Head(todo[g]) = "typing?"
  BY DEF Script, At
<1>2. Has(Tail(todo[g]), {"composing"})
  BY <1>1, TailSteps DEF Script
<1>3. Has(todo[g], {"composing"})
  BY <1>1, <1>2, TailSteps
<1>4. \E i \in DOMAIN todo[g] : todo[g][i] = "composing"
  BY <1>3 DEF Has
<1> DEFINE i == CHOOSE i \in DOMAIN todo[g] : todo[g][i] = "composing"
<1>5. i \in DOMAIN todo[g] /\ todo[g][i] = "composing"
  BY <1>4
<1> QED
  BY <1>1, <1>5 DEF SkipTyping, Succeeds, Moves

LEMMA PresenceMoves ==
  ASSUME NEW g, Script(todo[g]), PresenceStep(g)
  PROVE  todo[g] # <<>> /\ Succeeds(g)
<1>1. todo[g] # <<>> /\ todo[g] \in Steps
  BY DEF Script, PresenceStep, CheckRunning, CheckAway, setAvailable, setUnavailable, Tell,
     resetIdleTimer, stopIdleTimer, SetStopped, CheckTyping, Compose, StopTyping, At
<1>2. CASE Proceed(g)
  BY <1>1, <1>2, ProceedMoves
<1>3. CASE CheckRunning(g) /\ Instead(g, <<>>)
  BY <1>3 DEF CheckRunning, At, Succeeds, Moves, Early
<1>4. CASE /\ Head(todo[g]) \in {"away?", "set available", "set unavailable"}
           /\ \E x \in Fills : First(g, <<x>>)
  BY <1>1, <1>4, ProceedMoves DEF PresenceSteps, Typing
<1>5. CASE At(g, "typing?") /\ SkipTyping(g)
  BY <1>1, <1>5, SkipMoves
<1> QED
  BY <1>1, <1>2, <1>3, <1>4, <1>5 DEF PresenceStep, CheckRunning, CheckAway, setAvailable,
     setUnavailable, Tell, resetIdleTimer, stopIdleTimer, SetStopped, CheckTyping, Compose,
     StopTyping, At, Fills

LEMMA StepTodo ==
  ASSUME NEW g, Script(todo[g]), Step(g)
  PROVE  todo[g] # <<>> /\ (Succeeds(g) \/ Fails(g))
<1>1. CASE PresenceStep(g)
  BY <1>1, PresenceMoves
<1>2. CASE SenderStep(g) \/ Signal(g) \/ HangUp(g)
  <2>1. todo[g] # <<>> /\ todo[g] \in Steps
    BY <1>2 DEF Script, SenderStep, Check, CheckClient, Load, Transmit, Publish,
       SetPresenceConfig, StartEngine, StopBegins, SetState, Backoffs, Signal, HangUp, At
  <2>2. CASE Proceed(g)
    BY <2>1, <2>2, ProceedMoves
  <2>3. CASE Fail(g) /\ (Check(g) \/ CheckClient(g) \/ Transmit(g) \/ Signal(g))
    BY <2>1, <2>3 DEF Fails, Check, CheckClient, Transmit, Signal, At, Checks
  <2>4. CASE StopBegins(g) /\ Instead(g, <<>>)
    BY <2>1, <2>4 DEF StopBegins, At, Succeeds, Moves, Early
  <2> QED
    BY <1>2, <2>1, <2>2, <2>3, <2>4 DEF SenderStep, Check, CheckClient, Load, Transmit, Publish,
       SetPresenceConfig, StartEngine, StopBegins, SetState, Backoffs, Signal, HangUp
<1> QED
  BY <1>1, <1>2 DEF Step

(* What a step does to the indicator.                                      *)
LEMMA StepTyping ==
  ASSUME NEW g, Step(g)
  PROVE  \/ /\ Head(todo[g]) = "composing"
            /\ composing' \in {composing, composing \cup {g}}
            /\ stopTyping' = [stopTyping EXCEPT ![g] = TRUE]
         \/ /\ Head(todo[g]) = "stop typing"
            /\ composing' = IF stopTyping[g] THEN composing \ {g} ELSE composing
            /\ stopTyping' = [stopTyping EXCEPT ![g] = FALSE]
         \/ /\ Head(todo[g]) \notin {"composing", "stop typing"}
            /\ composing' \subseteq composing
            /\ UNCHANGED stopTyping
<1>1. CASE Compose(g)
  BY <1>1 DEF Compose, At
<1>2. CASE StopTyping(g)
  BY <1>2 DEF StopTyping, At
<1>3. CASE \/ CheckRunning(g) \/ CheckAway(g) \/ setAvailable(g) \/ setUnavailable(g) \/ Tell(g)
           \/ resetIdleTimer(g) \/ stopIdleTimer(g) \/ SetStopped(g) \/ CheckTyping(g)
  BY <1>3 DEF CheckRunning, CheckAway, setAvailable, setUnavailable, Tell,
     resetIdleTimer, stopIdleTimer, SetStopped, CheckTyping, At, shown
<1>4. CASE SenderStep(g) /\ UNCHANGED <<shown, stopTyping>>
  <2>1. Head(todo[g]) \notin {"composing", "stop typing"}
    BY <1>4 DEF SenderStep, Check, CheckClient, Load, Transmit, Publish,
       SetPresenceConfig, StartEngine, StopBegins, SetState, Backoffs, At
  <2> QED
    BY <1>4, <2>1 DEF shown
<1>5. CASE HangUp(g)
  BY <1>5 DEF HangUp, Close, At
<1>6. CASE Signal(g)
  BY <1>6 DEF Signal, TellsPresence, TellsTyping, TellsRead, At, shown
<1> QED
  BY <1>1, <1>2, <1>3, <1>4, <1>5, <1>6 DEF Step, PresenceStep

-----------------------------------------------------------------------------
(* Who shows the indicator has still to end it, whatever happens to the    *)
(* call.                                                                   *)
Routines ==
    /\ todo \in [Goroutines -> Steps] /\ stopTyping \in [Goroutines -> BOOLEAN]
    /\ composing \subseteq Goroutines
    /\ \A g \in Goroutines : Script(todo[g])

WillStop ==
    \A g \in Goroutines :
        /\ g \in composing => stopTyping[g]
        /\ stopTyping[g] => Has(todo[g], {"stop typing"})

IndicatorInv == Routines /\ WillStop

(* A goroutine that begins with something new.                             *)
LEMMA BeginsAnew ==
  ASSUME IndicatorInv, NEW g \in Goroutines, todo[g] = <<>>,
         NEW s, Script(s), Instead(g, s),
         composing' \in {composing, {}}, UNCHANGED stopTyping
  PROVE  IndicatorInv'
<1>1. todo' \in [Goroutines -> Steps] /\ todo'[g] = s
  BY DEF IndicatorInv, Routines, Instead, Script
<1>2. \A h \in Goroutines : h # g => todo'[h] = todo[h]
  BY DEF IndicatorInv, Routines, Instead
<1>3. Routines'
  BY <1>1, <1>2 DEF IndicatorInv, Routines
<1>4. ~Has(todo[g], {"stop typing"})
  BY EmptySteps
<1>5. WillStop'
  BY <1>1, <1>2, <1>4 DEF IndicatorInv, WillStop
<1> QED
  BY <1>3, <1>5 DEF IndicatorInv

LEMMA StepKeepsRoutines ==
  ASSUME IndicatorInv, NEW g \in Goroutines, Step(g)
  PROVE  /\ Routines'
         /\ \A h \in Goroutines : h # g => todo'[h] = todo[h]
<1>1. todo[g] # <<>> /\ Script(todo[g]) /\ todo[g] \in Steps
  BY StepTodo DEF IndicatorInv, Routines, Script
<1>2. \E r : Script(r) /\ Instead(g, r)
  <2>1. CASE Succeeds(g)
    BY <1>1, <2>1, MoveScript DEF Succeeds
  <2>2. CASE Fails(g)
    <3> DEFINE t == IF Reports(g) THEN <<"failed">> ELSE <<>>
               u == IF stopTyping[g] THEN <<"stop typing">> ELSE <<>>
    <3>1. Instead(g, t \o u) /\ t \in {<<>>, <<"failed">>} /\ u \in {<<>>, <<"stop typing">>}
      BY <2>2 DEF Fails, Fail
    <3> QED
      BY <3>1, FailureScripts
  <2> QED
    BY <1>1, <2>1, <2>2, StepTodo
<1>3. PICK r : Script(r) /\ Instead(g, r)
  BY <1>2
<1>4. todo' \in [Goroutines -> Steps] /\ todo'[g] = r
  BY <1>3 DEF IndicatorInv, Routines, Instead, Script
<1>5. \A h \in Goroutines : h # g => todo'[h] = todo[h]
  BY <1>3 DEF IndicatorInv, Routines, Instead
<1>6. stopTyping' \in [Goroutines -> BOOLEAN] /\ composing' \subseteq Goroutines
  BY StepTyping DEF IndicatorInv, Routines
<1> QED
  BY <1>3, <1>4, <1>5, <1>6 DEF IndicatorInv, Routines

LEMMA StepWillStop ==
  ASSUME IndicatorInv, NEW g \in Goroutines, Step(g)
  PROVE  WillStop'
<1>1. todo[g] # <<>> /\ Script(todo[g]) /\ todo[g] \in Steps
  BY StepTodo DEF IndicatorInv, Routines, Script
<1>2. ASSUME NEW h \in Goroutines, h # g
      PROVE  /\ h \in composing' => stopTyping'[h]
             /\ stopTyping'[h] => Has(todo'[h], {"stop typing"})
  BY <1>2, StepTyping, StepKeepsRoutines DEF IndicatorInv, Routines, WillStop
<1>3. g \in composing' => stopTyping'[g]
  BY StepTyping DEF IndicatorInv, Routines, WillStop
<1>4. ASSUME stopTyping'[g] PROVE Has(todo'[g], {"stop typing"})
  <2>1. CASE Fails(g)
    <3> DEFINE t == IF Reports(g) THEN <<"failed">> ELSE <<>>
               u == IF stopTyping[g] THEN <<"stop typing">> ELSE <<>>
    <3>1. Instead(g, t \o u) /\ t \in {<<>>, <<"failed">>} /\ u \in {<<>>, <<"stop typing">>}
      BY <2>1 DEF Fails, Fail
    <3>2. Head(todo[g]) # "composing"
      BY <2>1 DEF Fails, Checks
    <3>3. stopTyping[g]
      BY <1>4, <3>2, StepTyping DEF IndicatorInv, Routines
    <3>4. Has(t \o u, {"stop typing"})
      BY <3>1, <3>3, FailureScripts
    <3> QED
      BY <3>1, <3>4 DEF IndicatorInv, Routines, Instead
  <2>2. CASE Succeeds(g)
    <3>1. PICK r : Moves(todo[g], r) /\ Instead(g, r)
      BY <2>2 DEF Succeeds
    <3>2. todo'[g] = r
      BY <3>1 DEF IndicatorInv, Routines, Instead
    <3>3. CASE Head(todo[g]) = "composing"
      <4>1. r = Tail(todo[g])
        BY <3>1, <3>3 DEF Moves, Early, Typing
      <4>2. Has(Tail(todo[g]), {"stop typing"})
        BY <1>1, <3>3, TailSteps DEF Script
      <4> QED
        BY <3>2, <4>1, <4>2
    <3>4. CASE Head(todo[g]) # "composing"
      <4>1. stopTyping[g] /\ Head(todo[g]) # "stop typing"
        BY <1>4, <3>4, StepTyping DEF IndicatorInv, Routines
      <4>2. Has(todo[g], {"stop typing"})
        BY <4>1 DEF IndicatorInv, WillStop
      <4>3. Has(todo[g], {"stop typing"} \cup Tells)
        BY <4>2 DEF Has
      <4>4. Head(todo[g]) \notin Early
        BY <1>1, <4>3, TailSteps DEF Script
      <4>5. Has(r, {"stop typing"})
        BY <1>1, <3>1, <4>1, <4>2, <4>4, MoveLeaves DEF Script
      <4> QED
        BY <3>2, <4>5
    <3> QED
      BY <3>3, <3>4
  <2> QED
    BY <2>1, <2>2, <1>1, StepTodo
<1> QED
  BY <1>2, <1>3, <1>4 DEF WillStop

LEMMA ProgramIsScript ==
  ASSUME NEW o \in DOMAIN Program
  PROVE  Script(Program[o])
<1>1. o \in Texts \cup Media \cup Others
  BY DEF Others
<1> QED
  BY <1>1, TextScripts, MediaScripts, OtherScripts DEF Whole

LEMMA IndicatorInit == Init => IndicatorInv
<1> SUFFICES ASSUME Init PROVE IndicatorInv
  OBVIOUS
<1>1. \A g \in Goroutines : todo[g] = <<>> /\ ~stopTyping[g]
  BY DEF Init, PresenceInit
<1>2. <<>> \in Steps /\ Script(<<>>)
  BY EmptySteps DEF Script
<1>3. /\ todo \in [Goroutines -> Steps] /\ stopTyping \in [Goroutines -> BOOLEAN]
      /\ composing = {}
  BY <1>2 DEF Init, PresenceInit
<1> QED
  BY <1>1, <1>2, <1>3 DEF IndicatorInv, Routines, WillStop

LEMMA IndicatorStep == IndicatorInv /\ [Next]_vars => IndicatorInv'
<1> SUFFICES ASSUME IndicatorInv, [Next]_vars PROVE IndicatorInv'
  OBVIOUS
<1>1. ASSUME NEW c \in Callers, Begin(c) PROVE IndicatorInv'
  <2>1. PICK o \in Ops : Instead(c, Program[o])
    BY <1>1 DEF Begin
  <2>2. Script(Program[o])
    BY OpsAssumption, ProgramIsScript
  <2>3. todo[c] = <<>> /\ UNCHANGED <<composing, stopTyping>> /\ c \in Goroutines
    BY <1>1 DEF Begin, shown, Goroutines
  <2> QED
    BY <2>1, <2>2, <2>3, BeginsAnew
<1>2. ASSUME NEW g \in Goroutines, Step(g) PROVE IndicatorInv'
  BY <1>2, StepKeepsRoutines, StepWillStop DEF IndicatorInv
<1>3. ASSUME NEW m \in Managers, Idle(m) PROVE IndicatorInv'
  <2>1. Script(IdleCallback)
    BY HandlingScripts, HandlingIsScript
  <2>2. /\ todo[m] = <<>> /\ UNCHANGED <<composing, stopTyping>> /\ m \in Goroutines
        /\ Instead(m, IdleCallback)
    BY <1>3 DEF Idle, IdleTimeout, shown, Goroutines
  <2> QED
    BY <2>1, <2>2, BeginsAnew
<1>4. ASSUME Whatsmeow PROVE IndicatorInv'
  <2>1. \E k \in Events, h \in Handlers : todo[h] = <<>> /\ Instead(h, Handling[k])
    BY <1>4 DEF Whatsmeow, WaConnected, WaDisconnected, WaLoggedOut, WaStreamReplaced,
       WaPairSuccess, WaKeepAlive, Emit
  <2>2. PICK k \in Events, h \in Handlers : todo[h] = <<>> /\ Instead(h, Handling[k])
    BY <2>1
  <2>3. Script(Handling[k])
    BY OpsAssumption, HandlingScripts, HandlingIsScript
  <2>4. composing' \in {composing, {}} /\ UNCHANGED stopTyping /\ h \in Goroutines
    BY <1>4 DEF Whatsmeow, WaConnected, WaDisconnected, WaLoggedOut, WaStreamReplaced,
       WaPairSuccess, WaKeepAlive, Close, shown, Goroutines
  <2> QED
    BY <2>2, <2>3, <2>4, BeginsAnew
<1>5. CASE UNCHANGED vars
  BY <1>5 DEF vars, presence, routine, shown, IndicatorInv, Routines, WillStop
<1> QED
  BY <1>1, <1>2, <1>3, <1>4, <1>5 DEF Next

(* presence.go:12: "After send -> set Paused in that chat (stops           *)
(* 'typing...')": a chat that shows the indicator of a send has a call on  *)
(* its way that will still end it, whatever fails, is lost, or is closed   *)
(* meanwhile.                                                              *)
THEOREM TypingIsAlwaysStopped == Spec => []TypingIsStopped
<1>1. IndicatorInv => TypingIsStopped
  BY DEF IndicatorInv, Routines, WillStop, TypingIsStopped, Has
<1> QED
  BY <1>1, IndicatorInit, IndicatorStep, PTL DEF Spec

-----------------------------------------------------------------------------
(* What a call answers and what it publishes.                              *)
LEMMA StepOutcome ==
  ASSUME NEW g, Script(todo[g]), Step(g)
  PROVE  \/ /\ Head(todo[g]) = "transmit" /\ Succeeds(g)
            /\ answer' = [answer EXCEPT ![g] = "sent"] /\ delivered' = delivered \cup {g}
            /\ UNCHANGED <<call, sent, failed>>
         \/ /\ Head(todo[g]) = "sent" /\ Succeeds(g)
            /\ sent' = [sent EXCEPT ![g] = @ + 1]
            /\ UNCHANGED <<call, answer, failed, delivered>>
         \/ /\ Head(todo[g]) = "failed" /\ Succeeds(g)
            /\ failed' = [failed EXCEPT ![g] = @ + 1]
            /\ UNCHANGED <<call, answer, sent, delivered>>
         \/ /\ Head(todo[g]) \notin Tells /\ Succeeds(g)
            /\ UNCHANGED <<call, answer, sent, failed, delivered>>
         \/ /\ Fails(g)
            /\ delivered' \in {delivered, delivered \cup {g}}
            /\ Head(todo[g]) # "transmit" => UNCHANGED delivered
<1>1. CASE PresenceStep(g) /\ UNCHANGED outcome
  <2>1. Head(todo[g]) \notin Tells
    BY <1>1 DEF PresenceStep, CheckRunning, CheckAway, setAvailable, setUnavailable, Tell,
       resetIdleTimer, stopIdleTimer, SetStopped, CheckTyping, Compose, StopTyping, At, Tells
  <2> QED
    BY <1>1, <2>1, PresenceMoves DEF outcome
<1>2. CASE SenderStep(g) \/ Signal(g) \/ HangUp(g)
  <2>1. todo[g] # <<>> /\ todo[g] \in Steps
    BY StepTodo DEF Script
  <2>2. CASE Fail(g) /\ Transmit(g)
    BY <2>2 DEF Fails, Transmit, At
  <2>3. CASE Fail(g) /\ (Check(g) \/ CheckClient(g) \/ Signal(g)) /\ UNCHANGED delivered
    BY <2>3 DEF Fails, Check, CheckClient, Signal, At, Checks
  <2>4. CASE Publish(g)
    BY <2>1, <2>4, ProceedMoves DEF Publish, At
  <2>7. CASE /\ At(g, "transmit") /\ Proceed(g)
             /\ answer' = [answer EXCEPT ![g] = "sent"] /\ delivered' = delivered \cup {g}
             /\ UNCHANGED <<call, sent, failed>>
    BY <2>1, <2>7, ProceedMoves DEF At
  <2>5. CASE /\ UNCHANGED outcome /\ Proceed(g)
             /\ \/ Check(g) \/ CheckClient(g) \/ Load(g) \/ SetPresenceConfig(g)
                \/ StartEngine(g) \/ StopBegins(g) \/ SetState(g) \/ Backoffs(g)
                \/ Signal(g) \/ HangUp(g)
    <3>1. Head(todo[g]) \notin Tells
      BY <2>5 DEF Check, CheckClient, Load, SetPresenceConfig, StartEngine, StopBegins,
         SetState, Backoffs, Signal, HangUp, At, Tells
    <3> QED
      BY <2>1, <2>5, <3>1, ProceedMoves DEF outcome
  <2>6. CASE UNCHANGED outcome /\ StopBegins(g) /\ Instead(g, <<>>)
    BY <2>1, <2>6 DEF StopBegins, At, Succeeds, Moves, Early, Tells, outcome
  <2> QED
    BY <1>2, <2>2, <2>3, <2>4, <2>5, <2>6, <2>7 DEF SenderStep, Check, CheckClient, Load,
       Transmit, SetPresenceConfig, StartEngine, StopBegins, SetState, Backoffs, Signal, HangUp
<1> QED
  BY <1>1, <1>2 DEF Step

Sends == Texts \cup Media

Outcomes ==
    /\ call \in [Callers -> DOMAIN Program]
    /\ answer \in [Callers -> {"none", "sent", "error"}]
    /\ sent \in [Callers -> 0 .. 1] /\ failed \in [Callers -> 0 .. 1]
    /\ delivered \subseteq Callers

(* Handlers and managers send nothing.                                     *)
Bystanders == \A g \in Goroutines \ Callers : ~Has(todo[g], Checks \cup Tells)

(* How far a send has come: before the transmission, with the event still  *)
(* to be published, with the failure still to be published, or done.       *)
Progress(c) ==
    /\ Sending(todo[c])
    /\ Has(todo[c], {"transmit"}) =>
         /\ answer[c] = "none" /\ sent[c] = 0 /\ failed[c] = 0 /\ c \notin delivered
         /\ ~Has(todo[c], {"failed"})
    /\ ~Has(todo[c], {"transmit"}) /\ Has(todo[c], {"sent"}) =>
         /\ answer[c] = "sent" /\ sent[c] = 0 /\ failed[c] = 0
         /\ ~Has(todo[c], {"failed"})
    /\ Has(todo[c], {"failed"}) =>
         /\ answer[c] = "error" /\ sent[c] = 0 /\ failed[c] = 0 /\ call[c] \in Texts
    /\ ~Has(todo[c], {"transmit"}) /\ ~Has(todo[c], {"sent"}) /\ ~Has(todo[c], {"failed"}) =>
         /\ sent[c] = 1 <=> answer[c] = "sent"
         /\ call[c] \in Texts /\ c \in delivered => sent[c] + failed[c] = 1

Settled(c) ==
    /\ answer[c] = "sent" => c \in delivered
    /\ failed[c] = 1 => answer[c] = "error" /\ call[c] \in Texts
    /\ call[c] \in Sends => Progress(c)
    /\ call[c] \notin Sends => /\ ~Has(todo[c], {"sent", "failed"})
                               /\ sent[c] = 0 /\ failed[c] = 0

OutcomeInv ==
    /\ IndicatorInv /\ Outcomes /\ Bystanders
    /\ \A c \in Callers : Settled(c)

LEMMA HasFollower ==
  ASSUME NEW s, NEW X, NEW Y, Followed(s, X, Y), Has(s, X)
  PROVE  Has(s, Y)
  BY DEF Has, Followed

(* What a goroutine does changes nothing for another one.                  *)
LEMMA OthersSettled ==
  ASSUME NEW c, Settled(c), todo'[c] = todo[c],
         answer'[c] = answer[c], sent'[c] = sent[c], failed'[c] = failed[c], call'[c] = call[c],
         c \in delivered' <=> c \in delivered
  PROVE  Settled(c)'
  BY DEF Settled, Progress

(* A goroutine that begins with something that sends nothing.              *)
LEMMA IdleSettled ==
  ASSUME NEW c, Settled(c), todo[c] = <<>>, Without(todo'[c], Typing \cup Tells \cup Checks),
         answer'[c] = answer[c], sent'[c] = sent[c], failed'[c] = failed[c], call'[c] = call[c],
         c \in delivered' <=> c \in delivered
  PROVE  Settled(c)'
<1>1. /\ ~Has(todo[c], {"transmit"}) /\ ~Has(todo[c], {"sent"}) /\ ~Has(todo[c], {"failed"})
  BY EmptySteps
<1>2. /\ ~Has(todo'[c], {"transmit"}) /\ ~Has(todo'[c], {"sent"}) /\ ~Has(todo'[c], {"failed"})
      /\ ~Has(todo'[c], {"sent", "failed"})
  BY DEF Without, Has, Tells
<1>3. Sending(todo'[c])
  BY HandlingIsScript
<1> QED
  BY <1>1, <1>2, <1>3 DEF Settled, Progress

(* One step of the caller itself.                                          *)
LEMMA StepSettled ==
  ASSUME OutcomeInv, NEW c \in Callers, Step(c)
  PROVE  Settled(c)' /\ sent'[c] \in 0 .. 1 /\ failed'[c] \in 0 .. 1
<1> DEFINE s == todo[c]
           r == todo'[c]
           Moved == Moves(s, r)
           None(X) == ~Has(s, X)
<1>1. c \in Goroutines /\ s # <<>> /\ Script(s) /\ s \in Steps
  BY StepTodo DEF OutcomeInv, IndicatorInv, Routines, Script, Goroutines
<1>2. Succeeds(c) => Moved
  BY <1>1 DEF Succeeds, Instead, OutcomeInv, IndicatorInv, Routines
<1>3. Script(r)
  BY <1>1, StepKeepsRoutines DEF OutcomeInv, Routines
<1>4. Settled(c) /\ answer[c] \in {"none", "sent", "error"} /\ sent[c] \in 0 .. 1
      /\ failed[c] \in 0 .. 1
  BY DEF OutcomeInv, Outcomes
<1>5. /\ {"transmit"} \cap Fills = {} /\ {"sent"} \cap Fills = {} /\ {"failed"} \cap Fills = {}
      /\ {"sent", "failed"} \cap Fills = {}
  BY DEF Fills
<1>6. Moved => /\ Has(r, {"transmit"}) => Has(s, {"transmit"})
               /\ Has(r, {"sent"}) => Has(s, {"sent"})
               /\ Has(r, {"failed"}) => Has(s, {"failed"})
               /\ Has(r, {"sent", "failed"}) => Has(s, {"sent", "failed"})
  BY <1>1, <1>5, MoveKeeps
<1>7. Moved /\ Sending(s) => Sending(r)
  BY <1>1, MoveScript
<1>8. Moved /\ Head(s) \in Tells => r = Tail(s)
  BY DEF Moves, Tells, Early, PresenceSteps
<1>9. CASE /\ Head(s) = "transmit" /\ Succeeds(c)
           /\ answer' = [answer EXCEPT ![c] = "sent"] /\ delivered' = delivered \cup {c}
           /\ UNCHANGED <<call, sent, failed>>
  <2>1. Moved /\ r = Tail(s) /\ answer'[c] = "sent" /\ c \in delivered'
    BY <1>2, <1>8, <1>9 DEF Tells, OutcomeInv, Outcomes
  <2>2. Has(s, {"transmit"})
    BY <1>1, <1>9, TailSteps
  <2>3. CASE call[c] \in Sends
    <3>1. Progress(c) /\ Sending(s)
      BY <1>4, <2>3 DEF Settled, Progress
    <3>2. sent[c] = 0 /\ failed[c] = 0 /\ ~Has(s, {"failed"})
      BY <2>2, <3>1 DEF Progress
    <3>3. ~Has(r, {"transmit"}) /\ Has(r, {"sent"}) /\ ~Has(r, {"failed"})
      BY <1>1, <1>6, <1>9, <2>1, <3>1, <3>2, TailSteps DEF Sending
    <3>4. sent'[c] = 0 /\ failed'[c] = 0 /\ call'[c] = call[c]
      BY <1>9, <3>2
    <3> QED
      BY <1>4, <1>7, <2>1, <2>3, <3>1, <3>3, <3>4 DEF Settled, Progress
  <2>4. CASE call[c] \notin Sends
    BY <1>4, <1>6, <1>9, <2>1, <2>4 DEF Settled
  <2> QED
    BY <2>3, <2>4
<1>10. CASE /\ Head(s) = "sent" /\ Succeeds(c)
            /\ sent' = [sent EXCEPT ![c] = @ + 1]
            /\ UNCHANGED <<call, answer, failed, delivered>>
  <2>1. Moved /\ r = Tail(s) /\ sent'[c] = sent[c] + 1
    BY <1>2, <1>8, <1>10 DEF Tells, OutcomeInv, Outcomes
  <2>2. Has(s, {"sent"}) /\ Has(s, {"sent", "failed"})
    BY <1>1, <1>10, TailSteps
  <2>3. call[c] \in Sends /\ Progress(c) /\ Sending(s)
    BY <1>4, <2>2 DEF Settled, Progress
  <2>4. ~Has(r, {"sent"})
    BY <1>1, <1>10, <2>1, <2>3, TailSteps DEF Sending
  <2>5. ~Has(s, {"transmit"})
    <3> SUFFICES ASSUME Has(s, {"transmit"}) PROVE FALSE
      OBVIOUS
    <3>1. Has(r, {"transmit"})
      BY ZenonT(30), <1>1, <1>10, <2>1, TailSteps
    <3>2. Sending(r)
      BY <1>7, <2>1, <2>3
    <3> QED
      BY <2>4, <3>1, <3>2, HasFollower DEF Sending
  <2>6. answer[c] = "sent" /\ sent[c] = 0 /\ failed[c] = 0 /\ ~Has(s, {"failed"})
    BY <2>2, <2>3, <2>5 DEF Progress
  <2>7. /\ ~Has(r, {"transmit"}) /\ ~Has(r, {"failed"}) /\ Sending(r)
        /\ sent'[c] = 1 /\ failed'[c] = 0 /\ answer'[c] = "sent" /\ call'[c] = call[c]
    BY <1>6, <1>7, <1>10, <2>1, <2>3, <2>5, <2>6
  <2> QED
    BY <1>4, <1>10, <2>3, <2>4, <2>7 DEF Settled, Progress
<1>11. CASE /\ Head(s) = "failed" /\ Succeeds(c)
            /\ failed' = [failed EXCEPT ![c] = @ + 1]
            /\ UNCHANGED <<call, answer, sent, delivered>>
  <2>1. Moved /\ r = Tail(s) /\ failed'[c] = failed[c] + 1
    BY <1>2, <1>8, <1>11 DEF Tells, OutcomeInv, Outcomes
  <2>2. Has(s, {"failed"}) /\ Has(s, {"sent", "failed"})
    BY <1>1, <1>11, TailSteps
  <2>3. call[c] \in Sends /\ Progress(c) /\ Sending(s)
    BY <1>4, <2>2 DEF Settled, Progress
  <2>4. ~Has(r, {"failed"}) /\ Sending(r)
    BY ZenonT(30), <1>1, <1>7, <1>11, <2>1, <2>3, TailSteps DEF Sending
  <2>5. /\ answer[c] = "error" /\ sent[c] = 0 /\ failed[c] = 0 /\ call[c] \in Texts
        /\ ~Has(s, {"transmit"}) /\ ~Has(s, {"sent"})
    BY <2>2, <2>3 DEF Progress
  <2>6. /\ ~Has(r, {"transmit"}) /\ ~Has(r, {"sent"})
        /\ sent'[c] = 0 /\ failed'[c] = 1 /\ answer'[c] = "error" /\ call'[c] = call[c]
        /\ call'[c] \in Texts
    BY <1>6, <1>11, <2>1, <2>5
  <2>7. Progress(c)'
    BY <2>4, <2>6 DEF Progress
  <2> QED
    BY <1>4, <1>11, <2>3, <2>6, <2>7 DEF Settled
<1>12. CASE /\ Head(s) \notin Tells /\ Succeeds(c)
            /\ UNCHANGED <<call, answer, sent, failed, delivered>>
  <2>1. Moved
    BY <1>2, <1>12
  <2>2. CASE call[c] \notin Sends
    BY <1>4, <1>6, <1>12, <2>1, <2>2 DEF Settled
  <2>3. CASE call[c] \in Sends
    <3>1. Progress(c) /\ Sending(s) /\ Sending(r)
      BY <1>4, <1>7, <2>1, <2>3 DEF Settled, Progress
    <3>2. ASSUME NEW Y \in {{"transmit"}, {"sent"}, {"failed"}}, Has(s, Y)
          PROVE  Head(s) \notin Y \cup Early
      <4>1. Has(s, {"stop typing"} \cup Tells)
        BY <3>2 DEF Has, Tells
      <4>2. Head(s) \notin Early
        BY <1>1, <4>1, TailSteps DEF Script
      <4> QED
        BY <1>12, <4>2 DEF Tells
    <3>3. Head(s) = "typing?" => Has(s, {"transmit"})
      <4> SUFFICES ASSUME Head(s) = "typing?" PROVE Has(s, {"transmit"})
        OBVIOUS
      <4>1. Has(Tail(s), {"composing"})
        BY <1>1, TailSteps DEF Script
      <4>2. Has(s, Checks \cup {"composing"})
        BY <1>1, <4>1, TailSteps DEF Has
      <4> QED
        BY <3>1, <4>2, HasFollower DEF Sending
    <3>4. Followed(s, {"composing"}, {"transmit"})
      BY <3>1 DEF Sending, Followed
    <3>5. Has(s, {"transmit"}) => Has(r, {"transmit"})
      BY <1>1, <2>1, <3>2, <3>4, MoveLeaves
    <3>6. ~Has(s, {"transmit"}) /\ Has(s, {"sent"}) => Has(r, {"sent"})
      BY <1>1, <2>1, <3>2, <3>3, MoveLeaves
    <3>7. ~Has(s, {"transmit"}) /\ Has(s, {"failed"}) => Has(r, {"failed"})
      BY <1>1, <2>1, <3>2, <3>3, MoveLeaves
    <3>8. Progress(c)'
      BY <1>6, <1>12, <2>1, <3>1, <3>5, <3>6, <3>7 DEF Progress
    <3> QED
      BY <1>4, <1>12, <2>3, <3>8 DEF Settled
  <2> QED
    BY <2>2, <2>3
<1>13. CASE /\ Fails(c)
            /\ delivered' \in {delivered, delivered \cup {c}}
            /\ Head(s) # "transmit" => UNCHANGED delivered
  <2> DEFINE t == IF Reports(c) THEN <<"failed">> ELSE <<>>
             u == IF stopTyping[c] THEN <<"stop typing">> ELSE <<>>
  <2>1. /\ t \in {<<>>, <<"failed">>} /\ u \in {<<>>, <<"stop typing">>}
        /\ Instead(c, t \o u) /\ Head(s) \in Checks \cup {"transmit"}
        /\ answer'[c] = "error" /\ UNCHANGED <<call, sent, failed>>
    BY <1>13 DEF Fails, Fail, OutcomeInv, Outcomes
  <2>2. r = t \o u
    BY <1>1, <2>1 DEF Instead, OutcomeInv, IndicatorInv, Routines
  <2>3. /\ ~Has(r, {"transmit"}) /\ ~Has(r, {"sent"}) /\ Sending(r)
        /\ Has(r, {"failed"}) <=> t = <<"failed">>
    BY <2>1, <2>2, FailureScripts
  <2>4. Has(r, {"failed"}) <=> Reports(c)
    <3>1. <<"failed">> # <<>>
      OBVIOUS
    <3> QED
      BY <2>3, <3>1
  <2> HIDE DEF t, u
  <2>5. CASE call[c] \in Sends
    <3>1. Progress(c) /\ Sending(s)
      BY <1>4, <2>5 DEF Settled, Progress
    <3>2. Has(s, {"transmit"})
      <4>1. CASE Head(s) = "transmit"
        BY <1>1, <4>1, TailSteps
      <4>2. CASE Head(s) \in Checks
        <5>1. Has(s, Checks \cup {"composing"})
          BY <1>1, <4>2, TailSteps
        <5> QED
          BY <3>1, <5>1, HasFollower DEF Sending
      <4> QED
        BY <2>1, <4>1, <4>2
    <3>3. sent[c] = 0 /\ failed[c] = 0 /\ c \notin delivered
      BY <3>1, <3>2 DEF Progress
    <3>4. sent'[c] = 0 /\ failed'[c] = 0 /\ call'[c] = call[c]
      BY <2>1, <3>3
    <3>5. Reports(c) => call[c] \in Texts
      BY DEF Reports
    <3>6. call[c] \in Texts /\ c \in delivered' => Reports(c)
      BY <1>1, <1>13, <3>3 DEF Reports, At
    <3>7. Has(r, {"failed"}) => call'[c] \in Texts
      BY <2>4, <3>4, <3>5
    <3>8. call'[c] \in Texts /\ c \in delivered' => Has(r, {"failed"})
      BY <2>4, <3>4, <3>6
    <3>9. Progress(c)'
      <4>1. /\ Sending(todo'[c]) /\ ~Has(todo'[c], {"transmit"}) /\ ~Has(todo'[c], {"sent"})
            /\ answer'[c] # "sent" /\ answer'[c] = "error"
        BY <2>1, <2>3
      <4>2. /\ sent'[c] = 0 /\ failed'[c] = 0 /\ sent'[c] # 1
        BY <3>4
      <4> QED
        BY <4>1, <4>2, <3>7, <3>8 DEF Progress
    <3> QED
      BY <1>4, <2>1, <2>5, <3>4, <3>9 DEF Settled
  <2>6. CASE call[c] \notin Sends
    <3>1. ~Reports(c)
      BY <2>6 DEF Reports, Sends
    <3>2. ~Has(r, {"sent", "failed"})
      BY <2>3, <2>4, <3>1 DEF Has
    <3> QED
      BY <1>4, <2>1, <2>6, <3>2 DEF Settled
  <2> QED
    BY <2>5, <2>6
<1> QED
  BY <1>1, <1>9, <1>10, <1>11, <1>12, <1>13, StepOutcome

LEMMA StepOutcomes ==
  ASSUME OutcomeInv, NEW g \in Goroutines, Step(g)
  PROVE  OutcomeInv'
<1>1. Script(todo[g]) /\ todo[g] \in Steps /\ todo[g] # <<>>
  BY StepTodo DEF OutcomeInv, IndicatorInv, Routines, Script
<1>2. IndicatorInv'
  BY StepKeepsRoutines, StepWillStop DEF OutcomeInv, IndicatorInv
<1>3. \A h \in Goroutines : h # g => todo'[h] = todo[h]
  BY StepKeepsRoutines DEF OutcomeInv
<1>4. g \notin Callers => /\ ~Has(todo'[g], Checks \cup Tells)
                          /\ Head(todo[g]) \notin Checks \cup Tells
  <2> SUFFICES ASSUME g \notin Callers
               PROVE  /\ ~Has(todo'[g], Checks \cup Tells)
                      /\ Head(todo[g]) \notin Checks \cup Tells
    OBVIOUS
  <2>1. ~Has(todo[g], Checks \cup Tells)
    BY DEF OutcomeInv, Bystanders
  <2>2. Head(todo[g]) \notin Checks \cup Tells
    BY <1>1, <2>1, TailSteps
  <2>3. PICK r : Moves(todo[g], r) /\ Instead(g, r)
    BY <1>1, <2>2, StepTodo DEF Fails, Succeeds, Tells
  <2>4. todo'[g] = r
    BY <2>3 DEF Instead, OutcomeInv, IndicatorInv, Routines
  <2>5. (Checks \cup Tells) \cap Fills = {}
    BY DEF Checks, Tells, Fills
  <2> QED
    BY <1>1, <2>1, <2>2, <2>3, <2>4, <2>5, MoveKeeps
<1>5. Bystanders'
  BY <1>3, <1>4 DEF OutcomeInv, Bystanders
<1>6. ASSUME g \notin Callers
      PROVE  UNCHANGED <<call, answer, sent, failed, delivered>>
  BY <1>1, <1>4, <1>6, StepOutcome DEF Fails, Tells
<1>7. ASSUME NEW c \in Callers, c # g
      PROVE  /\ answer'[c] = answer[c] /\ sent'[c] = sent[c] /\ failed'[c] = failed[c]
             /\ call'[c] = call[c]
             /\ c \in delivered' <=> c \in delivered
  <2>1. /\ answer' \in {answer, [answer EXCEPT ![g] = "sent"], [answer EXCEPT ![g] = "error"]}
        /\ sent' \in {sent, [sent EXCEPT ![g] = @ + 1]}
        /\ failed' \in {failed, [failed EXCEPT ![g] = @ + 1]}
        /\ call' = call /\ delivered' \in {delivered, delivered \cup {g}}
    BY <1>1, StepOutcome DEF Fails, Fail
  <2>2. answer'[c] = answer[c] /\ sent'[c] = sent[c] /\ failed'[c] = failed[c]
    BY <1>7, <2>1 DEF OutcomeInv, Outcomes
  <2>3. c \in delivered' <=> c \in delivered
    BY <1>7, <2>1
  <2> QED
    BY <2>1, <2>2, <2>3
<1>8. ASSUME NEW c \in Callers
      PROVE  Settled(c)' /\ sent'[c] \in 0 .. 1 /\ failed'[c] \in 0 .. 1
  <2>1. CASE c = g
    BY <2>1, StepSettled
  <2>2. CASE c # g
    <3>1. Settled(c) /\ todo'[c] = todo[c] /\ sent[c] \in 0 .. 1 /\ failed[c] \in 0 .. 1
      BY <1>3, <2>2 DEF OutcomeInv, Outcomes, Goroutines
    <3> QED
      BY <1>7, <2>2, <3>1, OthersSettled
  <2> QED
    BY <2>1, <2>2
<1>9. /\ call' \in [Callers -> DOMAIN Program] /\ delivered' \subseteq Callers
      /\ answer' \in [Callers -> {"none", "sent", "error"}]
      /\ DOMAIN sent' = Callers /\ DOMAIN failed' = Callers
  BY ZenonT(30), <1>1, <1>6, StepOutcome DEF OutcomeInv, Outcomes, Fails, Fail
<1>10. sent' = [c \in Callers |-> sent'[c]] /\ failed' = [c \in Callers |-> failed'[c]]
  BY <1>1, <1>6, StepOutcome DEF OutcomeInv, Outcomes, Fails, Fail
<1> QED
  BY <1>2, <1>5, <1>8, <1>9, <1>10 DEF OutcomeInv, Outcomes

(* An idle goroutine turns to something that sends nothing.                *)
LEMMA IdleOutcomes ==
  ASSUME OutcomeInv, NEW g \in Goroutines, todo[g] = <<>>,
         NEW s, Without(s, Typing \cup Tells \cup Checks), Instead(g, s),
         composing' \in {composing, {}}, UNCHANGED <<stopTyping, outcome>>
  PROVE  OutcomeInv'
<1>1. Script(s) /\ todo'[g] = s /\ \A h \in Goroutines : h # g => todo'[h] = todo[h]
  BY HandlingIsScript DEF OutcomeInv, IndicatorInv, Routines, Instead
<1>2. IndicatorInv'
  BY <1>1, BeginsAnew DEF OutcomeInv
<1>3. Outcomes'
  BY DEF OutcomeInv, Outcomes, outcome
<1>4. ~Has(s, Checks \cup Tells)
  BY DEF Without, Has
<1>5. Bystanders'
  BY <1>1, <1>4 DEF OutcomeInv, Bystanders
<1>6. ASSUME NEW c \in Callers PROVE Settled(c)'
  <2>1. Settled(c)
    BY DEF OutcomeInv
  <2>2. CASE c = g
    BY <1>1, <2>1, <2>2, IdleSettled DEF outcome
  <2>3. CASE c # g
    <3>1. todo'[c] = todo[c]
      BY <1>1, <2>3 DEF Goroutines
    <3> QED
      BY <2>1, <3>1, OthersSettled DEF outcome
  <2> QED
    BY <2>2, <2>3
<1> QED
  BY <1>2, <1>3, <1>5, <1>6 DEF OutcomeInv

LEMMA BeginOutcomes ==
  ASSUME OutcomeInv, NEW c \in Callers, Begin(c)
  PROVE  OutcomeInv'
<1>1. PICK o \in Ops : Instead(c, Program[o]) /\ call' = [call EXCEPT ![c] = o]
  BY DEF Begin
<1>2. o \in DOMAIN Program /\ Script(Program[o])
  BY OpsAssumption, ProgramIsScript
<1>3. /\ c \in Goroutines /\ todo[c] = <<>> /\ todo'[c] = Program[o]
      /\ \A h \in Goroutines : h # c => todo'[h] = todo[h]
  BY <1>1 DEF OutcomeInv, IndicatorInv, Routines, Instead, Goroutines, Begin
<1>4. IndicatorInv'
  BY <1>1, <1>2, <1>3, BeginsAnew DEF OutcomeInv, Begin, shown
<1>5. /\ answer' = [answer EXCEPT ![c] = "none"] /\ sent' = [sent EXCEPT ![c] = 0]
      /\ failed' = [failed EXCEPT ![c] = 0] /\ delivered' = delivered \ {c}
  BY DEF Begin
<1>6. Outcomes'
  BY <1>1, <1>2, <1>5 DEF OutcomeInv, Outcomes
<1>7. Bystanders'
  BY <1>3 DEF OutcomeInv, Bystanders
<1>8. ASSUME NEW d \in Callers, d # c PROVE Settled(d)'
  <2>1. /\ answer'[d] = answer[d] /\ sent'[d] = sent[d] /\ failed'[d] = failed[d]
        /\ call'[d] = call[d]
        /\ d \in delivered' <=> d \in delivered
        /\ todo'[d] = todo[d] /\ Settled(d)
    BY <1>1, <1>3, <1>5, <1>8 DEF OutcomeInv, Outcomes, Goroutines
  <2> QED
    BY <2>1, OthersSettled
<1>9. /\ answer'[c] = "none" /\ sent'[c] = 0 /\ failed'[c] = 0 /\ c \notin delivered'
      /\ call'[c] = o
  BY <1>1, <1>5 DEF OutcomeInv, Outcomes
<1>10. CASE o \in Sends
  <2>1. Whole(Program[o])
    BY <1>10, TextScripts, MediaScripts DEF Sends
  <2>2. /\ Sending(todo'[c]) /\ Has(todo'[c], {"transmit"}) /\ ~Has(todo'[c], {"failed"})
    BY <1>3, <2>1 DEF Whole, Has
  <2>3. Settled(c)'
    BY <1>9, <1>10, <2>2 DEF Settled, Progress
  <2> QED
    BY <1>4, <1>6, <1>7, <1>8, <2>3 DEF OutcomeInv
<1>11. CASE o \notin Sends
  <2>1. ~Has(todo'[c], {"sent", "failed"})
    BY <1>2, <1>3, <1>11, OtherScripts DEF Sends, Others
  <2>2. Settled(c)'
    BY <1>9, <1>11, <2>1 DEF Settled
  <2> QED
    BY <1>4, <1>6, <1>7, <1>8, <2>2 DEF OutcomeInv
<1> QED
  BY <1>10, <1>11

LEMMA OutcomeInit == Init => OutcomeInv
<1> SUFFICES ASSUME Init PROVE OutcomeInv
  OBVIOUS
<1>1. \A g \in Goroutines : todo[g] = <<>>
  BY DEF Init, PresenceInit
<1>2. \A X : ~Has(<<>>, X)
  BY EmptySteps
<1>3. "handleMarkActive" \in DOMAIN Program /\ "handleMarkActive" \notin Sends
  BY DEF Program, Sends, Texts, Media
<1>4. Outcomes /\ Bystanders
  BY <1>1, <1>2, <1>3 DEF Init, Outcomes, Bystanders
<1>5. ASSUME NEW c \in Callers PROVE Settled(c)
  <2>1. todo[c] = <<>> /\ call[c] = "handleMarkActive" /\ answer[c] = "none"
        /\ sent[c] = 0 /\ failed[c] = 0
    BY <1>1 DEF Init, Goroutines
  <2> QED
    BY <1>2, <1>3, <2>1 DEF Settled
<1> QED
  BY <1>4, <1>5, IndicatorInit DEF OutcomeInv

LEMMA OutcomeStep == OutcomeInv /\ [Next]_vars => OutcomeInv'
<1> SUFFICES ASSUME OutcomeInv, [Next]_vars PROVE OutcomeInv'
  OBVIOUS
<1>1. ASSUME NEW c \in Callers, Begin(c) PROVE OutcomeInv'
  BY <1>1, BeginOutcomes
<1>2. ASSUME NEW g \in Goroutines, Step(g) PROVE OutcomeInv'
  BY <1>2, StepOutcomes
<1>3. ASSUME NEW m \in Managers, Idle(m) PROVE OutcomeInv'
  <2>1. Without(IdleCallback, Typing \cup Tells \cup Checks)
    BY HandlingScripts
  <2>2. /\ todo[m] = <<>> /\ UNCHANGED <<composing, stopTyping, outcome>> /\ m \in Goroutines
        /\ Instead(m, IdleCallback)
    BY <1>3 DEF Idle, IdleTimeout, shown, Goroutines
  <2> QED
    BY <2>1, <2>2, IdleOutcomes
<1>4. ASSUME Whatsmeow PROVE OutcomeInv'
  <2>1. \E k \in Events, h \in Handlers : todo[h] = <<>> /\ Instead(h, Handling[k])
    BY <1>4 DEF Whatsmeow, WaConnected, WaDisconnected, WaLoggedOut, WaStreamReplaced,
       WaPairSuccess, WaKeepAlive, Emit
  <2>2. PICK k \in Events, h \in Handlers : todo[h] = <<>> /\ Instead(h, Handling[k])
    BY <2>1
  <2>3. Without(Handling[k], Typing \cup Tells \cup Checks)
    BY OpsAssumption, HandlingScripts
  <2>4. composing' \in {composing, {}} /\ UNCHANGED <<stopTyping, outcome>> /\ h \in Goroutines
    BY <1>4 DEF Whatsmeow, WaConnected, WaDisconnected, WaLoggedOut, WaStreamReplaced,
       WaPairSuccess, WaKeepAlive, Close, shown, Goroutines
  <2> QED
    BY <2>2, <2>3, <2>4, IdleOutcomes
<1>5. CASE UNCHANGED vars
  <2>1. UNCHANGED <<todo, stopTyping, composing, call, answer, sent, failed, delivered>>
    BY <1>5 DEF vars, presence, routine, shown, outcome
  <2> QED
    BY <2>1 DEF OutcomeInv, IndicatorInv, Routines, WillStop, Outcomes, Bystanders, Settled,
       Progress
<1> QED
  BY <1>1, <1>2, <1>3, <1>4, <1>5 DEF Next

(* send.go publishes message.sent after the server's answer to a text or   *)
(* to media, and message.failed where it finds the error of a text; for a  *)
(* location or a contact it publishes neither, for media no failure.  So a *)
(* call that has returned an id did so for a message that has arrived, and *)
(* has published message.sent exactly if that is a text or media; one that *)
(* published message.failed was a text and returned an error; and no text  *)
(* may have arrived without an event.                                      *)
THEOREM AnswersAreTrue == Spec => []AnswerAgreesWithEvents
<1>1. OutcomeInv => AnswerAgreesWithEvents
  <2> SUFFICES ASSUME OutcomeInv, NEW c \in Callers, todo[c] = <<>>
               PROVE  /\ answer[c] = "sent" => c \in delivered
                      /\ sent[c] = 1 <=> answer[c] = "sent" /\ call[c] \in Sends
                      /\ failed[c] = 1 => answer[c] = "error" /\ call[c] \in Texts
                      /\ call[c] \in Texts /\ c \in delivered => sent[c] + failed[c] = 1
    BY DEF AnswerAgreesWithEvents, Sends
  <2>1. /\ ~Has(todo[c], {"transmit"}) /\ ~Has(todo[c], {"sent"}) /\ ~Has(todo[c], {"failed"})
    BY EmptySteps
  <2>2. Settled(c)
    BY DEF OutcomeInv
  <2>3. call[c] \in Texts => call[c] \in Sends
    BY DEF Sends
  <2> QED
    BY <2>1, <2>2, <2>3 DEF Settled, Progress
<1> QED
  BY <1>1, OutcomeInit, OutcomeStep, PTL DEF Spec

-----------------------------------------------------------------------------
(* The backoff, as the event handlers use it.                              *)
LEMMA BackoffStep == BackoffInv /\ [Next]_vars => BackoffInv'
<1> SUFFICES ASSUME BackoffInv, [Next]_vars PROVE BackoffInv'
  OBVIOUS
<1>1. UNCHANGED backoff \/ Reset \/ NextDelay
  <2>1. ASSUME NEW c \in Callers, Begin(c) PROVE UNCHANGED backoff
    BY <2>1 DEF Begin
  <2>2. ASSUME NEW g \in Goroutines, Step(g) PROVE UNCHANGED backoff \/ Reset \/ NextDelay
    BY <2>2 DEF Step, SenderStep, Check, CheckClient, Load, Transmit, Publish,
       SetPresenceConfig, StartEngine, StopBegins, SetState, Backoffs, Signal, HangUp
  <2>3. ASSUME NEW m \in Managers, Idle(m) PROVE UNCHANGED backoff
    BY <2>3 DEF Idle
  <2>4. CASE Whatsmeow
    BY <2>4 DEF Whatsmeow
  <2>5. CASE UNCHANGED vars
    BY <2>5 DEF vars
  <2> QED
    BY <2>1, <2>2, <2>3, <2>4, <2>5 DEF Next
<1>2. CASE UNCHANGED backoff
  BY <1>2 DEF backoff, BackoffInv
<1> QED
  BY <1>1, <1>2, ResetInv, NextDelayInv

(* backoff.go:13: "Max cap: 5 minutes"; backoff.go:14: "Jitter: +-20%".    *)
(* However often the connection is lost, the event handler never waits     *)
(* longer than the cap with the jitter on top.                             *)
THEOREM DelaysAreBounded == Spec => []DelayBounded
<1>1. Init => BackoffInv
  BY NewBackoffInv DEF Init
<1> QED
  BY <1>1, BackoffStep, BoundFollows, PTL DEF Spec

(* backoff.go:12: "Subsequent retries: doubles each time".  A delay below  *)
(* the cap is longer than the one before it, whatever the jitter, if the   *)
(* multiplier outweighs the jitter as it does in DefaultBackoffConfig.     *)
THEOREM DelaysAlwaysGrow ==
  ASSUME Outweighs
  PROVE  Spec => []DelaysGrow
<1>1. Init => BackoffInv
  BY NewBackoffInv DEF Init
<1>2. BackoffInv => DelaysGrow
  BY GrowthFollows
<1> QED
  BY <1>1, <1>2, BackoffStep, PTL DEF Spec

-----------------------------------------------------------------------------
(* Types, and what the server shows only while the socket is open.         *)
NetworkInv ==
    /\ up \in BOOLEAN /\ socket \in BOOLEAN /\ running \in BOOLEAN /\ paired \in BOOLEAN
    /\ dialing \in BOOLEAN /\ lagging \in BOOLEAN
    /\ online \in BOOLEAN /\ asked \in BOOLEAN /\ typed \subseteq Goroutines
    /\ lagging => socket
    /\ online => socket
    /\ asked => socket
    /\ composing # {} => socket
    /\ typed # {} => socket

ManagerInv ==
    /\ used \subseteq Managers /\ current \in used
    /\ available \in [Managers -> BOOLEAN] /\ stopped \in [Managers -> BOOLEAN]
    /\ armed \in [Managers -> BOOLEAN]
    /\ on \in [Goroutines -> Managers]

CountInv ==
    /\ calm \in BOOLEAN
    /\ calls \in 0 .. MaxCalls /\ emitted \in 0 .. MaxEvents

LEMMA NetworkStep == NetworkInv /\ [Next]_vars => NetworkInv'
<1> SUFFICES ASSUME NetworkInv, [Next]_vars PROVE NetworkInv'
  OBVIOUS
<1>1. ASSUME NEW c \in Callers, Begin(c) PROVE NetworkInv'
  BY <1>1 DEF Begin, network, shown, engine, NetworkInv
<1>2. ASSUME NEW g \in Goroutines, Step(g) PROVE NetworkInv'
  <2>1. CASE Tell(g) /\ UNCHANGED engine
    <3>1. UNCHANGED <<up, socket, composing, typed, running, paired, dialing, lagging>>
      BY <2>1 DEF Tell, network, engine
    <3>2. CASE up /\ socket
      <4>1. online' = At(g, "tell online") /\ asked' = FALSE
        BY <2>1, <3>2, Zenon DEF Tell
      <4>2. At(g, "tell online") \in BOOLEAN
        BY DEF At
      <4> QED
        BY <3>1, <3>2, <4>1, <4>2 DEF NetworkInv
    <3>3. CASE ~(up /\ socket)
      <4>1. UNCHANGED <<online, asked>>
        BY <2>1, <3>3, Zenon DEF Tell
      <4> QED
        BY <3>1, <4>1 DEF NetworkInv
    <3> QED
      BY <3>2, <3>3
  <2>2. CASE (Compose(g) \/ StopTyping(g)) /\ UNCHANGED engine
    <3>1. /\ composing' # {} => socket
          /\ typed' \subseteq Goroutines /\ (typed' # {} => socket)
      BY <2>2 DEF Compose, StopTyping, NetworkInv
    <3>2. UNCHANGED <<up, socket, online, asked, running, paired, dialing, lagging>>
      BY <2>2 DEF Compose, StopTyping, network, engine
    <3> QED
      BY <3>1, <3>2 DEF NetworkInv
  <2>7. CASE Signal(g)
    <3>1. UNCHANGED <<up, socket, running, paired, dialing, lagging>>
      BY <2>7 DEF Signal, network, engine
    <3>2. CASE UNCHANGED shown
      BY <3>1, <3>2 DEF shown, NetworkInv
    <3>3. CASE socket /\ TellsPresence(g)
      <4>1. UNCHANGED <<composing, typed>>
        BY <3>3 DEF TellsPresence
      <4>2. online' \in BOOLEAN /\ asked' \in BOOLEAN
        BY <3>3, Zenon DEF TellsPresence, NetworkInv
      <4> QED
        BY <3>1, <3>3, <4>1, <4>2 DEF NetworkInv
    <3>4. CASE socket /\ TellsTyping(g)
      BY <1>2, <3>1, <3>4 DEF TellsTyping, NetworkInv
    <3> QED
      BY <2>7, <3>2, <3>3, <3>4 DEF Signal, TellsRead
  <2>3. CASE /\ UNCHANGED <<network, shown, engine>>
    BY <2>3 DEF network, shown, engine, NetworkInv
  <2>4. CASE SetState(g) /\ UNCHANGED shown
    <3>1. up' \in BOOLEAN /\ UNCHANGED <<socket, shown, engine>>
      BY <2>4 DEF SetState
    <3> QED
      BY <3>1 DEF engine, shown, NetworkInv
  <2>5. CASE StartEngine(g) /\ UNCHANGED shown
    <3>1. /\ running' = (running \/ paired) /\ dialing' = (dialing \/ (~running /\ paired))
          /\ UNCHANGED <<up, socket, shown, paired, lagging>>
      BY <2>5 DEF StartEngine, network
    <3> QED
      BY <3>1 DEF shown, NetworkInv
  <2>6. CASE HangUp(g)
    BY <2>6 DEF HangUp, Close, NetworkInv
  <2> QED
    BY <1>2, <2>1, <2>2, <2>3, <2>4, <2>5, <2>6, <2>7 DEF Step, PresenceStep, CheckRunning,
       CheckAway, setAvailable, setUnavailable, resetIdleTimer, stopIdleTimer, SetStopped, CheckTyping,
       SenderStep, Check, CheckClient, Load, Transmit, Publish, SetPresenceConfig, StopBegins,
       Backoffs
<1>3. ASSUME NEW m \in Managers, Idle(m) PROVE NetworkInv'
  BY <1>3 DEF Idle, IdleTimeout, network, shown, engine, NetworkInv
<1>4. CASE Whatsmeow
  <2>1. UNCHANGED up
    BY <1>4 DEF Whatsmeow
  <2>2. CASE WaConnected
    BY <2>1, <2>2 DEF WaConnected, engine, shown, NetworkInv
  <2>3. CASE WaDisconnected \/ WaLoggedOut \/ WaStreamReplaced
    BY <2>1, <2>3 DEF WaDisconnected, WaLoggedOut, WaStreamReplaced, Close, NetworkInv
  <2>4. CASE WaPairSuccess
    BY <2>1, <2>4 DEF WaPairSuccess, shown, NetworkInv
  <2>5. CASE WaKeepAlive
    <3>1. socket /\ lagging' = ~lagging /\ UNCHANGED <<socket, running, paired, dialing, shown>>
      BY <2>5 DEF WaKeepAlive
    <3> QED
      BY <2>1, <3>1 DEF shown, NetworkInv
  <2> QED
    BY <1>4, <2>2, <2>3, <2>4, <2>5 DEF Whatsmeow
<1>5. CASE UNCHANGED vars
  BY <1>5 DEF vars, presence, network, shown, engine, NetworkInv
<1> QED
  BY <1>1, <1>2, <1>3, <1>4, <1>5 DEF Next

LEMMA ManagerStep == ManagerInv /\ [Next]_vars => ManagerInv'
<1> SUFFICES ASSUME ManagerInv, [Next]_vars PROVE ManagerInv'
  OBVIOUS
<1>1. ASSUME NEW c \in Callers, Begin(c) PROVE ManagerInv'
  BY <1>1 DEF Begin, manager, ManagerInv
<1>2. ASSUME NEW g \in Goroutines, Step(g) PROVE ManagerInv'
  <2>1. CASE setAvailable(g) \/ setUnavailable(g)
    BY <2>1 DEF setAvailable, setUnavailable, ManagerInv
  <2>2. CASE resetIdleTimer(g) \/ stopIdleTimer(g)
    <3>1. Enabled \in BOOLEAN
      BY ConfigAssumption
    <3> QED
      BY ZenonT(30), <2>2, <3>1 DEF resetIdleTimer, stopIdleTimer, ManagerInv
  <2>3. CASE SetStopped(g)
    BY <2>3 DEF SetStopped, ManagerInv
  <2>4. CASE Load(g)
    BY <2>4 DEF Load, manager, ManagerInv
  <2>5. CASE SetPresenceConfig(g)
    BY <2>5 DEF SetPresenceConfig, ManagerInv
  <2>6. CASE UNCHANGED <<manager, on>>
    BY <2>6 DEF manager, ManagerInv
  <2> QED
    BY <1>2, <2>1, <2>2, <2>3, <2>4, <2>5, <2>6 DEF Step, PresenceStep, CheckRunning, CheckAway,
       Tell, CheckTyping, Compose, StopTyping, SenderStep, Check, CheckClient, Transmit, Publish,
       StartEngine, StopBegins, SetState, Backoffs, Signal, HangUp
<1>3. ASSUME NEW m \in Managers, Idle(m) PROVE ManagerInv'
  BY <1>3 DEF Idle, IdleTimeout, ManagerInv
<1>4. CASE Whatsmeow
  BY <1>4 DEF Whatsmeow, manager, ManagerInv
<1>5. CASE UNCHANGED vars
  BY <1>5 DEF vars, presence, manager, routine, ManagerInv
<1> QED
  BY <1>1, <1>2, <1>3, <1>4, <1>5 DEF Next

LEMMA CountStep == CountInv /\ [Next]_vars => CountInv'
<1> SUFFICES ASSUME CountInv, [Next]_vars PROVE CountInv'
  OBVIOUS
<1>1. Recorded => calm' \in BOOLEAN
  BY Zenon DEF Recorded, CountInv
<1>2. calm' \in BOOLEAN
  <2>1. CASE UNCHANGED vars
    BY <2>1 DEF vars, presence, CountInv
  <2> QED
    BY <1>1, <2>1 DEF Next, Step, Idle, Whatsmeow
<1>3. /\ calls' = calls \/ (calls < MaxCalls /\ calls' = calls + 1)
      /\ emitted' = emitted \/ (emitted < MaxEvents /\ emitted' = emitted + 1)
  BY DEF Next, Begin, Step, Idle, Whatsmeow, WaConnected, WaDisconnected, WaLoggedOut,
     WaStreamReplaced, WaPairSuccess, WaKeepAlive, Emit, counts, vars
<1> QED
  BY <1>2, <1>3, BoundsAssumption DEF CountInv

(* Every variable of the sender, the presence managers and the backoff has *)
(* its type, nobody is shown online or typing without a connection, and    *)
(* only an open connection can lag.                                        *)
THEOREM SenderTypeCorrect == Spec => []TypeOK
<1> DEFINE Inv == OutcomeInv /\ BackoffInv /\ NetworkInv /\ ManagerInv /\ CountInv
<1>1. Init => Inv
  <2> SUFFICES ASSUME Init PROVE Inv
    OBVIOUS
  <2>1. NetworkInv
    BY DEF Init, PresenceInit, NetworkInv
  <2>2. ManagerInv
    BY DEF Init, PresenceInit, ManagerInv
  <2>3. CountInv
    BY BoundsAssumption DEF Init, PresenceInit, CountInv
  <2>4. BackoffInv
    BY NewBackoffInv DEF Init
  <2> QED
    BY <2>1, <2>2, <2>3, <2>4, OutcomeInit
<1>2. Inv /\ [Next]_vars => Inv'
  BY OutcomeStep, BackoffStep, NetworkStep, ManagerStep, CountStep
<1>3. Inv => TypeOK
  <2> SUFFICES ASSUME Inv PROVE TypeOK
    OBVIOUS
  <2>1. todo \in [Goroutines -> Seq(StepNames)]
    BY DEF OutcomeInv, IndicatorInv, Routines, Steps
  <2>2. BackoffTypeOK
    BY DEF BackoffInv, BackoffTypeOK
  <2>3. /\ composing \subseteq Goroutines /\ stopTyping \in [Goroutines -> BOOLEAN]
    BY DEF OutcomeInv, IndicatorInv, Routines
  <2>4. PresenceTypeOK
    BY <2>3 DEF NetworkInv, ManagerInv, CountInv, PresenceTypeOK
  <2>5. /\ {running, paired, dialing, lagging} \subseteq BOOLEAN
        /\ lagging => socket
    BY DEF NetworkInv
  <2>6. Outcomes /\ calls \in 0 .. MaxCalls /\ emitted \in 0 .. MaxEvents
    BY DEF OutcomeInv, CountInv
  <2> QED
    BY <2>1, <2>2, <2>4, <2>5, <2>6 DEF TypeOK, Outcomes
<1> QED
  BY <1>1, <1>2, <1>3, PTL DEF Spec

=============================================================================
