--------------------------- MODULE PresenceProofs ---------------------------
(***************************************************************************)
(* Machine-checked proof that an account shown online is watched, on top   *)
(* of SenderProofs.  What a goroutine has to do is read as a word: methods *)
(* of the presence manager, of which the first may have begun, between     *)
(* steps of its own.  The words are sets of sequences, one for each place  *)
(* in a method.                                                            *)
(***************************************************************************)
EXTENDS SenderProofs

-----------------------------------------------------------------------------
(* A step of X, and then a word of S.                                      *)
After(X, S) == {s \in Steps : s # <<>> /\ Head(s) \in X /\ Tail(s) \in S}

(* The places in the methods of presence.go, each with what is left to do  *)
(* from there; T is what follows the method.                               *)
Rises == {"away?", "set available"}

Rising(S) == {s \in After(Rises, S) : Enabled}
Risen(S)  == {s \in After({"tell online"}, S) : Enabled}
Arms(T)   == After({"arm"}, T)
Hides(T)  == After({"set unavailable"}, T)
Shows(T)  == After({"composing"}, {s \in T : ~Has(s, {"composing"})})
Types(T)  == After({"typing?"}, Rising(Shows(T)))

Methods(T) ==
    UNION {T,
           Arms(T),                                             \* AfterSend
           After({"arm"}, Types(T)),                            \* BeforeSend
           After({"running?"}, Arms(T) \cup Rising(Arms(T))),   \* OnConnect, MarkActive
           After({"disarm"}, Hides(T)),                         \* OnDisconnect
           After({"set stopped"}, After({"disarm"}, T))}        \* Stop

(* What a goroutine has to do that is in none of them: steps of its own    *)
(* and whole methods.  This is the largest set with that property.         *)
Closed(T) == \A s \in T : s # <<>> => Head(s) \notin PresenceSteps /\ Tail(s) \in Methods(T)

Outside == UNION {T \in SUBSET Steps : Closed(T)}

LEMMA MethodsGrow ==
  ASSUME NEW T, NEW U, T \subseteq U
  PROVE  Methods(T) \subseteq Methods(U)
<1>1. \A X, R, S : R \subseteq S => After(X, R) \subseteq After(X, S)
  BY DEF After
<1>2. Arms(T) \subseteq Arms(U) /\ Hides(T) \subseteq Hides(U)
  BY <1>1 DEF Arms, Hides
<1>3. \A R, S : R \subseteq S => Rising(R) \subseteq Rising(S)
  BY <1>1 DEF Rising
<1>4. Shows(T) \subseteq Shows(U)
  BY DEF Shows, After
<1>5. Types(T) \subseteq Types(U)
  BY <1>1, <1>3, <1>4 DEF Types
<1>6. Arms(T) \cup Rising(Arms(T)) \subseteq Arms(U) \cup Rising(Arms(U))
  BY <1>2, <1>3
<1>7. /\ After({"arm"}, Types(T)) \subseteq After({"arm"}, Types(U))
      /\ After({"running?"}, Arms(T) \cup Rising(Arms(T)))
           \subseteq After({"running?"}, Arms(U) \cup Rising(Arms(U)))
      /\ After({"disarm"}, Hides(T)) \subseteq After({"disarm"}, Hides(U))
      /\ After({"set stopped"}, After({"disarm"}, T))
           \subseteq After({"set stopped"}, After({"disarm"}, U))
  BY <1>1, <1>2, <1>5, <1>6
<1> QED
  BY <1>2, <1>7 DEF Methods

LEMMA OutsideClosed == Outside \subseteq Steps /\ Closed(Outside) /\ <<>> \in Outside
<1>1. Outside \subseteq Steps
  BY DEF Outside
<1>2. ASSUME NEW s \in Outside, s # <<>>
      PROVE  Head(s) \notin PresenceSteps /\ Tail(s) \in Methods(Outside)
  <2>1. PICK T \in SUBSET Steps : Closed(T) /\ s \in T
    BY DEF Outside
  <2>2. T \subseteq Outside
    BY <2>1 DEF Outside
  <2> QED
    BY <1>2, <2>1, <2>2, MethodsGrow DEF Closed
<1>3. {<<>>} \in SUBSET Steps /\ Closed({<<>>})
  BY EmptySteps DEF Closed
<1> QED
  BY <1>1, <1>2, <1>3 DEF Closed, Outside

(* A step in front of a sequence.                                          *)
LEMMA StepBefore ==
  ASSUME NEW x \in StepNames, NEW s \in Steps
  PROVE  /\ <<x>> \o s \in Steps /\ <<x>> \o s # <<>>
         /\ Head(<<x>> \o s) = x /\ Tail(<<x>> \o s) = s
         /\ \A X, S : x \in X /\ s \in S => <<x>> \o s \in After(X, S)
<1>1. s \in Seq(StepNames) /\ <<x>> \in Seq(StepNames)
  BY DEF Steps
<1>2. <<x>> \o s \in Seq(StepNames) /\ <<x>> \o s # <<>>
  BY <1>1
<1>3. Head(<<x>> \o s) = x /\ Tail(<<x>> \o s) = s
  BY <1>1, HeadTailProperties
<1> QED
  BY <1>2, <1>3 DEF After, Steps

LEMMA InAfter ==
  ASSUME NEW x \in StepNames, NEW S, NEW s \in Steps, s \in S
  PROVE  <<x>> \o s \in After({x}, S) /\ <<x>> \o s \in Steps
  BY StepBefore

LEMMA OutsideGrows ==
  ASSUME NEW x \in StepNames \ PresenceSteps, NEW s \in Steps, s \in Methods(Outside)
  PROVE  <<x>> \o s \in Outside
<1> DEFINE t == <<x>> \o s
           T == Outside \cup {t}
<1>1. t \in Steps /\ Head(t) = x /\ Tail(t) = s
  BY StepBefore
<1>2. T \in SUBSET Steps
  BY <1>1, OutsideClosed
<1> HIDE DEF t
<1>3. Methods(Outside) \subseteq Methods(T)
  BY MethodsGrow
<1>4. Closed(T)
  BY <1>1, <1>3, OutsideClosed DEF Closed
<1> QED
  BY <1>2, <1>4 DEF Outside, t

-----------------------------------------------------------------------------
(* What may come before such a word: a method, and steps around methods.   *)
Method(m) ==
    m \in Steps /\ ~Has(m, {"composing"}) /\ \A s \in Outside : m \o s \in Methods(Outside)

Wraps(p) ==
    p \in Steps /\ ~Has(p, {"composing"}) /\ \A s \in Outside : p \o s \in Outside

LEMMA WrapsIsMethod == ASSUME NEW p, Wraps(p) PROVE Method(p)
<1>1. Outside \subseteq Methods(Outside)
  BY DEF Methods
<1> QED
  BY <1>1 DEF Wraps, Method

LEMMA WrapsNothing == Wraps(<<>>)
<1>1. \A s \in Outside : <<>> \o s = s
  BY OutsideClosed, ConcatEmptySeq DEF Steps
<1> QED
  BY <1>1, EmptySteps DEF Wraps

LEMMA WrapsConcat ==
  ASSUME NEW p, NEW q, Wraps(p), Wraps(q)
  PROVE  Wraps(p \o q)
<1>1. p \in Steps /\ q \in Steps
  BY DEF Wraps
<1>2. p \o q \in Steps /\ ~Has(p \o q, {"composing"})
  BY <1>1, ConcatSteps DEF Wraps
<1>3. ASSUME NEW s \in Outside PROVE (p \o q) \o s \in Outside
  <2>1. (p \o q) \o s = p \o (q \o s)
    BY <1>1, OutsideClosed, AssociateSteps
  <2> QED
    BY <2>1 DEF Wraps
<1> QED
  BY <1>2, <1>3 DEF Wraps

(* A step of the caller, followed by a method.                             *)
LEMMA WrapsMethod ==
  ASSUME NEW x \in StepNames \ PresenceSteps, NEW m, Method(m)
  PROVE  Wraps(<<x>> \o m)
<1>1. m \in Steps /\ <<x>> \in Steps /\ <<x>> \o m \in Steps
  BY OneStep, StepBefore DEF Method
<1>2. x # "composing"
  BY DEF PresenceSteps
<1>3. ~Has(<<x>>, {"composing"})
  BY <1>2, OneStep
<1>4. ~Has(<<x>> \o m, {"composing"})
  BY <1>1, <1>3, ConcatSteps DEF Method
<1>5. ASSUME NEW s \in Outside PROVE (<<x>> \o m) \o s \in Outside
  <2>1. s \in Steps
    BY OutsideClosed
  <2>2. (<<x>> \o m) \o s = <<x>> \o (m \o s)
    BY <1>1, <2>1, AssociateSteps
  <2>3. m \o s \in Steps
    BY <1>1, <2>1, ConcatSteps
  <2> QED
    BY <2>2, <2>3, OutsideGrows DEF Method
<1> QED
  BY <1>1, <1>4, <1>5 DEF Wraps

LEMMA WrapsStep ==
  ASSUME NEW x \in StepNames \ PresenceSteps
  PROVE  Wraps(<<x>>)
<1>1. Wraps(<<x>> \o <<>>)
  BY WrapsNothing, WrapsIsMethod, WrapsMethod
<1>2. <<x>> \o <<>> = <<x>>
  BY OneStep, ConcatEmptySeq DEF Steps
<1> QED
  BY <1>1, <1>2

LEMMA WrapsOutside == ASSUME NEW p, Wraps(p) PROVE p \in Outside
<1>1. p \o <<>> = p
  BY ConcatEmptySeq DEF Wraps, Steps
<1> QED
  BY <1>1, OutsideClosed DEF Wraps

LEMMA SplitPair ==
  ASSUME NEW x \in StepNames, NEW y \in StepNames
  PROVE  <<x, y>> = <<x>> \o <<y>>
<1>1. <<x>> \in Seq(StepNames) /\ <<y>> \in Seq(StepNames) /\ <<x, y>> \in Seq(StepNames)
  OBVIOUS
<1>2. Len(<<x>>) = 1 /\ <<x>>[1] = x /\ Len(<<y>>) = 1 /\ <<y>>[1] = y
  OBVIOUS
<1>3. Len(<<x, y>>) = 2 /\ <<x, y>>[1] = x /\ <<x, y>>[2] = y
  OBVIOUS
<1> DEFINE s == <<x>>
           t == <<y>>
           u == <<x, y>>
<1> HIDE DEF s, t, u
<1>4. s \o t \in Seq(StepNames) /\ Len(s \o t) = 2 /\ (s \o t)[1] = x /\ (s \o t)[2] = y
  BY <1>1, <1>2, ConcatProperties DEF s, t
<1>5. \A i \in 1 .. 2 : i = 1 \/ i = 2
  OBVIOUS
<1>6. u = s \o t
  BY <1>1, <1>3, <1>4, <1>5, SeqEqual DEF u
<1> QED
  BY <1>6 DEF s, t, u

LEMMA SplitTriple ==
  ASSUME NEW x \in StepNames, NEW y \in StepNames, NEW z \in StepNames
  PROVE  <<x, y, z>> = <<x>> \o <<y>> \o <<z>>
<1>1. <<z>> \in Seq(StepNames) /\ <<x, y>> \in Seq(StepNames) /\ <<x, y, z>> \in Seq(StepNames)
  OBVIOUS
<1>2. Len(<<z>>) = 1 /\ <<z>>[1] = z /\ Len(<<x, y>>) = 2 /\ <<x, y>>[1] = x /\ <<x, y>>[2] = y
  OBVIOUS
<1>3. Len(<<x, y, z>>) = 3 /\ <<x, y, z>>[1] = x /\ <<x, y, z>>[2] = y /\ <<x, y, z>>[3] = z
  OBVIOUS
<1> DEFINE s == <<x, y>>
           t == <<z>>
           u == <<x, y, z>>
<1> HIDE DEF s, t, u
<1>4. /\ s \o t \in Seq(StepNames) /\ Len(s \o t) = 3
      /\ (s \o t)[1] = x /\ (s \o t)[2] = y /\ (s \o t)[3] = z
  BY <1>1, <1>2, ConcatProperties DEF s, t
<1>5. \A i \in 1 .. 3 : i = 1 \/ i = 2 \/ i = 3
  OBVIOUS
<1>6. u = s \o t
  BY <1>1, <1>3, <1>4, <1>5, SeqEqual DEF u
<1>7. s = <<x>> \o <<y>>
  BY SplitPair DEF s
<1> QED
  BY <1>6, <1>7 DEF t, u

LEMMA OwnSteps ==
  {"session?", "connected?", "valid?", "load", "resolve", "upload", "transmit", "signal",
   "sent", "failed", "stop typing", "new manager", "connect", "started?", "hang up",
   "healthy", "up", "down", "backoff"} \subseteq StepNames \ PresenceSteps
  BY DEF StepNames, SenderSteps, PresenceSteps

(* The methods of presence.go.                                             *)
LEMMA PresenceSet ==
  {"running?", "away?", "set available", "tell online", "set unavailable", "tell offline",
   "arm", "disarm", "typing?", "composing", "set stopped"} = PresenceSteps
  BY DEF PresenceSteps

LEMMA ArmsBefore ==
  ASSUME NEW s \in Outside
  PROVE  <<"arm">> \o s \in Arms(Outside) /\ <<"arm">> \o s \in Steps
  BY OutsideClosed, AreSteps, StepBefore DEF Arms

LEMMA AfterSendMethod == Method(AfterSend)
<1>1. "arm" \in StepNames /\ "arm" \notin {"composing"}
  BY AreSteps
<1>2. <<"arm">> \in Steps /\ ~Has(<<"arm">>, {"composing"})
  BY <1>1, OneStep
<1>3. Arms(Outside) \subseteq Methods(Outside)
  BY DEF Methods
<1> QED
  BY <1>2, <1>3, ArmsBefore DEF AfterSend, Method

(* A method of two or three parts.                                         *)
LEMMA ThreeParts ==
  ASSUME NEW p \in Steps, NEW q \in Steps, NEW r \in Steps,
         ~Has(p, {"composing"}), ~Has(q, {"composing"}), ~Has(r, {"composing"}),
         \A s \in Outside : p \o (q \o (r \o s)) \in Methods(Outside)
  PROVE  Method(p \o q \o r)
<1> DEFINE t == p \o q
<1>1. t \in Steps /\ ~Has(t, {"composing"})
  BY ConcatSteps
<1>2. t \o r \in Steps /\ ~Has(t \o r, {"composing"})
  BY <1>1, ConcatSteps
<1>3. ASSUME NEW s \in Outside PROVE (t \o r) \o s \in Methods(Outside)
  <2> DEFINE u == r \o s
  <2>1. s \in Steps /\ u \in Steps
    BY OutsideClosed, ConcatSteps
  <2>2. (t \o r) \o s = t \o u
    BY ZenonT(30), <1>1, <2>1, AssociateSteps
  <2> HIDE DEF u
  <2>3. t \o u = p \o (q \o u)
    BY <2>1, AssociateSteps
  <2> QED
    BY <2>2, <2>3 DEF u
<1> QED
  BY <1>2, <1>3 DEF Method

LEMMA OnConnectMethod == Method(OnConnect)
<1>1. CASE Enabled
  <2> DEFINE r == <<"running?">>
             a == <<"set available">>
             b == <<"arm">>
             q == IF SendOnConnect THEN a ELSE <<>>
  <2>1. r \in Steps /\ a \in Steps /\ b \in Steps /\ <<>> \in Steps
    BY AreSteps, OneStep, EmptySteps
  <2>2. ~Has(r, {"composing"}) /\ ~Has(a, {"composing"}) /\ ~Has(b, {"composing"})
    <3>1. "running?" \notin {"composing"} /\ "set available" \notin {"composing"} /\ "arm" \notin {"composing"}
      OBVIOUS
    <3> QED
      BY <3>1, AreSteps, OneStep
  <2>3. q \in Steps /\ ~Has(q, {"composing"})
    BY <2>1, <2>2, EmptySteps
  <2>4. OnConnect = r \o q \o b
    BY <1>1 DEF OnConnect
  <2>5. ASSUME NEW s \in Outside PROVE a \o (b \o s) \in Rising(Arms(Outside))
    BY <1>1, <2>5, ArmsBefore, AreSteps, StepBefore DEF Rising, Rises
  <2>6. ASSUME NEW s \in Outside
        PROVE  q \o (b \o s) \in Steps /\ q \o (b \o s) \in Arms(Outside) \cup Rising(Arms(Outside))
    <3>1. CASE q = a
      BY <2>1, <2>5, <2>6, <3>1, ArmsBefore, ConcatSteps
    <3>2. CASE q = <<>>
      <4>1. <<>> \o (b \o s) = b \o s
        BY <2>6, ArmsBefore, ConcatEmptySeq DEF Steps
      <4> QED
        BY <2>6, <3>2, <4>1, ArmsBefore
    <3> QED
      BY <3>1, <3>2
  <2>7. ASSUME NEW s \in Outside PROVE r \o (q \o (b \o s)) \in Methods(Outside)
    <3> DEFINE S == Arms(Outside) \cup Rising(Arms(Outside))
               t == q \o (b \o s)
    <3>1. t \in Steps /\ t \in S /\ "running?" \in StepNames
      BY <2>6, <2>7, AreSteps
    <3> HIDE DEF S, t
    <3>2. r \o t \in After({"running?"}, S)
      BY <3>1, InAfter
    <3> QED
      BY <3>2 DEF Methods, S, t
  <2> HIDE DEF r, a, b, q
  <2>8. Method(r \o q \o b)
    BY <2>1, <2>2, <2>3, <2>7, ThreeParts
  <2> QED
    BY <2>4, <2>8
<1>2. CASE ~Enabled
  BY <1>2, WrapsNothing, WrapsIsMethod DEF OnConnect
<1> QED
  BY <1>1, <1>2

LEMMA TwoSteps ==
  ASSUME NEW x \in StepNames \ {"composing"}, NEW y \in StepNames \ {"composing"},
         \A s \in Outside : <<x>> \o (<<y>> \o s) \in Methods(Outside)
  PROVE  Method(<<x, y>>)
<1>1. <<x>> \in Steps /\ <<y>> \in Steps
  BY OneStep
<1>2. <<x, y>> \in Steps /\ ~Has(<<x, y>>, {"composing"})
  BY Pairs DEF Without
<1>3. ASSUME NEW s \in Outside PROVE <<x, y>> \o s \in Methods(Outside)
  <2>1. s \in Steps
    BY OutsideClosed
  <2>2. <<x, y>> \o s = <<x>> \o (<<y>> \o s)
    BY <1>1, <2>1, SplitPair, AssociateSteps
  <2> QED
    BY <2>2
<1> QED
  BY <1>2, <1>3 DEF Method

LEMMA OnDisconnectMethod == Method(OnDisconnect)
<1>1. ASSUME NEW s \in Outside
      PROVE  <<"disarm">> \o (<<"set unavailable">> \o s) \in Methods(Outside)
  <2>1. s \in Steps
    BY OutsideClosed
  <2>2. /\ <<"set unavailable">> \o s \in Hides(Outside)
        /\ <<"set unavailable">> \o s \in Steps
    BY <2>1, AreSteps, StepBefore DEF Hides
  <2>3. <<"disarm">> \o (<<"set unavailable">> \o s) \in After({"disarm"}, Hides(Outside))
    BY <2>2, AreSteps, StepBefore
  <2> QED
    BY <2>3 DEF Methods
<1>2. Method(<<"disarm", "set unavailable">>)
  BY <1>1, AreSteps, TwoSteps
<1> QED
  BY <1>2, WrapsNothing, WrapsIsMethod DEF OnDisconnect

LEMMA StopMethod == Method(Stop)
<1>1. ASSUME NEW s \in Outside
      PROVE  <<"set stopped">> \o (<<"disarm">> \o s) \in Methods(Outside)
  <2>1. s \in Steps
    BY OutsideClosed
  <2>2. <<"disarm">> \o s \in After({"disarm"}, Outside) /\ <<"disarm">> \o s \in Steps
    BY <2>1, AreSteps, StepBefore
  <2>3. <<"set stopped">> \o (<<"disarm">> \o s)
          \in After({"set stopped"}, After({"disarm"}, Outside))
    BY <2>2, AreSteps, StepBefore
  <2> QED
    BY <2>3 DEF Methods
<1> QED
  BY <1>1, AreSteps, TwoSteps DEF Stop

LEMMA MarkActiveMethod == Method(MarkActive)
<1>1. CASE Enabled
  <2> DEFINE r == <<"running?">>
             a == <<"away?">>
             b == <<"arm">>
  <2>1. /\ r \in Steps /\ a \in Steps /\ b \in Steps
        /\ ~Has(r, {"composing"}) /\ ~Has(a, {"composing"}) /\ ~Has(b, {"composing"})
    <3>1. "running?" \notin {"composing"} /\ "away?" \notin {"composing"} /\ "arm" \notin {"composing"}
      OBVIOUS
    <3> QED
      BY <3>1, AreSteps, OneStep
  <2>2. MarkActive = r \o a \o b
    <3>1. "running?" \in StepNames /\ "away?" \in StepNames /\ "arm" \in StepNames
      BY AreSteps
    <3>2. MarkActive = <<"running?", "away?", "arm">>
      BY <1>1 DEF MarkActive
    <3> QED
      BY <3>1, <3>2, SplitTriple, Zenon
  <2>3. ASSUME NEW s \in Outside PROVE r \o (a \o (b \o s)) \in Methods(Outside)
    <3> DEFINE S == Arms(Outside) \cup Rising(Arms(Outside))
               t == a \o (b \o s)
    <3>1. t \in Rising(Arms(Outside)) /\ t \in Steps
      BY <1>1, <2>3, ArmsBefore, AreSteps, StepBefore DEF Rising, Rises
    <3>2. t \in S /\ "running?" \in StepNames
      BY <3>1, AreSteps
    <3> HIDE DEF S, t
    <3>3. r \o t \in After({"running?"}, S)
      BY <3>1, <3>2, InAfter
    <3> QED
      BY <3>3 DEF Methods, S, t
  <2> HIDE DEF r, a, b
  <2>4. Method(r \o a \o b)
    BY <2>1, <2>3, ThreeParts
  <2> QED
    BY <2>2, <2>4
<1>2. CASE ~Enabled
  BY <1>2, WrapsNothing, WrapsIsMethod DEF MarkActive
<1> QED
  BY <1>1, <1>2

-----------------------------------------------------------------------------
(* BeforeSend comes once in a program: what follows it does not compose.   *)
Opens(p) ==
    p \in Steps /\ \A s \in Outside : ~Has(s, {"composing"}) => p \o s \in Outside

LEMMA WrapsOpens == ASSUME NEW p, Wraps(p) PROVE Opens(p)
  BY DEF Wraps, Opens

LEMMA OpensOutside == ASSUME NEW p, Opens(p) PROVE p \in Outside
<1>1. p \o <<>> = p
  BY ConcatEmptySeq DEF Opens, Steps
<1> QED
  BY <1>1, OutsideClosed, EmptySteps DEF Opens

LEMMA OpensThen ==
  ASSUME NEW p, NEW q, Opens(p), Wraps(q)
  PROVE  Opens(p \o q)
<1>1. p \in Steps /\ q \in Steps /\ ~Has(q, {"composing"})
  BY DEF Opens, Wraps
<1>2. p \o q \in Steps
  BY <1>1, ConcatSteps
<1>3. ASSUME NEW s \in Outside, ~Has(s, {"composing"}) PROVE (p \o q) \o s \in Outside
  <2>1. s \in Steps
    BY OutsideClosed
  <2>2. (p \o q) \o s = p \o (q \o s)
    BY <1>1, <2>1, AssociateSteps
  <2>3. ~Has(q \o s, {"composing"})
    BY <1>1, <1>3, <2>1, ConcatSteps
  <2> QED
    BY <2>2, <2>3 DEF Opens, Wraps
<1> QED
  BY <1>2, <1>3 DEF Opens

LEMMA ThenOpens ==
  ASSUME NEW p, NEW q, Wraps(p), Opens(q)
  PROVE  Opens(p \o q)
<1>1. p \in Steps /\ q \in Steps
  BY DEF Opens, Wraps
<1>2. p \o q \in Steps
  BY <1>1, ConcatSteps
<1>3. ASSUME NEW s \in Outside, ~Has(s, {"composing"}) PROVE (p \o q) \o s \in Outside
  <2>1. s \in Steps
    BY OutsideClosed
  <2>2. (p \o q) \o s = p \o (q \o s)
    BY <1>1, <2>1, AssociateSteps
  <2> QED
    BY <1>3, <2>2 DEF Opens, Wraps
<1> QED
  BY <1>2, <1>3 DEF Opens

LEMMA BeforeSendMethod ==
  BeforeSend \in Steps /\
  \A s \in Outside : ~Has(s, {"composing"}) => BeforeSend \o s \in Methods(Outside)
<1> DEFINE a == <<"arm">>
           t == <<"typing?">>
           w == <<"away?">>
           c == <<"composing">>
           d == (t \o w) \o c
<1>1. a \in Steps /\ t \in Steps /\ w \in Steps /\ c \in Steps /\ <<>> \in Steps
  BY AreSteps, OneStep, EmptySteps
<1>2. "arm" \in StepNames /\ "typing?" \in StepNames /\ "away?" \in StepNames
      /\ "composing" \in StepNames
  BY AreSteps
<1>3. <<"typing?", "away?", "composing">> = d
  BY <1>2, SplitTriple, Zenon
<1>4. BeforeSend = a \o (IF Enabled /\ SimulateTyping THEN d ELSE <<>>)
  BY <1>3 DEF BeforeSend
<1>5. ASSUME NEW s \in Outside, ~Has(s, {"composing"})
      PROVE  c \o s \in Shows(Outside) /\ c \o s \in Steps
  <2> DEFINE S == {x \in Outside : ~Has(x, {"composing"})}
  <2>1. s \in S /\ s \in Steps
    BY <1>5, OutsideClosed
  <2> HIDE DEF S
  <2>2. c \o s \in After({"composing"}, S) /\ c \o s \in Steps
    BY <1>2, <2>1, InAfter
  <2> QED
    BY <2>2 DEF Shows, S
<1>6. ASSUME NEW s \in Steps, s \in Shows(Outside), Enabled
      PROVE  w \o s \in Rising(Shows(Outside)) /\ w \o s \in Steps
  BY <1>2, <1>6, StepBefore DEF Rising, Rises
<1>7. ASSUME NEW s \in Steps, s \in Rising(Shows(Outside))
      PROVE  t \o s \in Types(Outside) /\ t \o s \in Steps
  BY <1>2, <1>7, InAfter DEF Types
<1>8. ASSUME NEW s \in Steps, s \in Types(Outside)
      PROVE  a \o s \in Methods(Outside)
  <2>1. a \o s \in After({"arm"}, Types(Outside))
    BY <1>2, <1>8, InAfter
  <2> QED
    BY <2>1 DEF Methods
<1> HIDE DEF a, t, w, c
<1>9. d \in Steps
  <2>1. t \o w \in Steps
    BY <1>1, ConcatSteps
  <2> QED
    BY <1>1, <2>1, ConcatSteps
<1> HIDE DEF d
<1>10. BeforeSend \in Steps
  BY <1>1, <1>4, <1>9, ConcatSteps
<1>11. ASSUME NEW s \in Outside, ~Has(s, {"composing"}) PROVE BeforeSend \o s \in Methods(Outside)
  <2>1. s \in Steps
    BY OutsideClosed
  <2>2. CASE Enabled /\ SimulateTyping
    <3> DEFINE u == c \o s
               v == w \o u
    <3>1. u \in Shows(Outside) /\ u \in Steps
      BY <1>5, <1>11
    <3>2. (a \o d) \o s = a \o (d \o s)
      <4>1. a \in Steps
        BY <1>1
      <4> QED
        BY <1>9, <2>1, <4>1, AssociateSteps
    <3>3. d \o s = (t \o w) \o u
      <4>1. t \o w \in Steps
        BY <1>1, ConcatSteps
      <4> QED
        BY ZenonT(30), <1>1, <2>1, <4>1, AssociateSteps DEF d
    <3> HIDE DEF u
    <3>4. (t \o w) \o u = t \o v
      BY SMTT(30), <1>1, <3>1, AssociateSteps
    <3>5. v \in Rising(Shows(Outside)) /\ v \in Steps
      BY <1>6, <2>2, <3>1
    <3> HIDE DEF v
    <3>6. t \o v \in Types(Outside) /\ t \o v \in Steps
      BY <1>7, <3>5
    <3>7. a \o (t \o v) \in Methods(Outside)
      BY <1>8, <3>6
    <3> QED
      BY <1>4, <2>2, <3>2, <3>3, <3>4, <3>7
  <2>3. CASE ~(Enabled /\ SimulateTyping)
    <3>1. a \o <<>> = a
      BY <1>1, ConcatEmptySeq DEF Steps
    <3>2. a \o s \in Arms(Outside)
      BY ArmsBefore DEF a
    <3> QED
      BY <1>4, <2>3, <3>1, <3>2 DEF Methods
  <2> QED
    BY <2>2, <2>3
<1> QED
  BY <1>10, <1>11

LEMMA WaitOpens == Opens(waitBeforeSend)
<1> DEFINE b == BeforeSend
           l == <<"load">>
<1>1. "load" \in StepNames \ PresenceSteps
  BY OwnSteps
<1>2. b \in Steps /\ l \in Steps
  BY <1>1, OneStep, BeforeSendMethod
<1>3. ASSUME NEW s \in Outside, ~Has(s, {"composing"}) PROVE (l \o b) \o s \in Outside
  <2>1. s \in Steps
    BY OutsideClosed
  <2>2. b \o s \in Methods(Outside) /\ b \o s \in Steps
    BY <1>2, <1>3, <2>1, BeforeSendMethod, ConcatSteps
  <2>3. l \o (b \o s) \in Outside
    BY <1>1, <2>2, OutsideGrows
  <2> HIDE DEF l, b
  <2>4. (l \o b) \o s = l \o (b \o s)
    BY <1>2, <2>1, AssociateSteps
  <2> QED
    BY <2>3, <2>4
<1>4. l \o b \in Steps
  BY <1>2, ConcatSteps
<1> QED
  BY <1>3, <1>4 DEF Opens, waitBeforeSend

LEMMA WrapsPair ==
  ASSUME NEW x \in StepNames \ PresenceSteps, NEW y \in StepNames \ PresenceSteps
  PROVE  Wraps(<<x, y>>)
<1>1. <<x, y>> = <<x>> \o <<y>>
  BY SplitPair
<1> QED
  BY <1>1, WrapsStep, WrapsConcat

(* The calls of engine.go and session.go, around what they call.           *)
LEMMA ForwardOpens ==
  ASSUME NEW s, Opens(s)
  PROVE  Opens(Forward(s)) /\ Opens(SessionCall(s))
<1>1. Wraps(<<"session?">>) /\ Wraps(<<"connected?">>)
  BY WrapsStep, OwnSteps
<1>2. Opens(<<"connected?">> \o s)
  BY <1>1, ThenOpens
<1>3. Opens(<<"session?">> \o (<<"connected?">> \o s)) /\ Opens(<<"session?">> \o s)
  BY <1>1, <1>2, ThenOpens
<1> QED
  BY <1>3 DEF Forward, SessionCall, EngineCall

LEMMA ProgramOutside ==
  ASSUME NEW o \in DOMAIN Program
  PROVE  Program[o] \in Outside
<1> USE OwnSteps
<1>1. Wraps(afterSend)
  BY AfterSendMethod, WrapsMethod DEF afterSend
<1>2. Opens(SendText)
  <2> DEFINE v == <<"valid?">>
             w == waitBeforeSend
             t == <<"transmit">>
             a == afterSend
             e == <<"sent", "stop typing">>
  <2>1. Wraps(v) /\ Wraps(t) /\ Wraps(e)
    BY WrapsStep, WrapsPair
  <2>2. Opens(w)
    BY WaitOpens
  <2>3. SendText = (((v \o w) \o t) \o a) \o e
    BY DEF SendText
  <2> HIDE DEF v, w, t, e
  <2>4. Opens(v \o w)
    BY <2>1, <2>2, ThenOpens
  <2>5. Opens((v \o w) \o t)
    BY <2>1, <2>4, OpensThen
  <2>6. Opens(((v \o w) \o t) \o a)
    BY <1>1, <2>5, OpensThen
  <2> QED
    BY <2>1, <2>3, <2>6, OpensThen
<1>3. Wraps(UploadAndSend)
  <2>1. Wraps(<<"upload", "transmit">>) /\ Wraps(<<"sent">>)
    BY WrapsStep, WrapsPair
  <2>2. Wraps(<<"upload", "transmit">> \o afterSend)
    BY <1>1, <2>1, WrapsConcat
  <2> QED
    BY <2>1, <2>2, WrapsConcat DEF UploadAndSend
<1>4. /\ Opens(SendImageWithCaption) /\ Opens(SendImage) /\ Opens(SendDocument)
      /\ Opens(SendVideo) /\ Opens(SendAudio)
  <2>1. Wraps(<<"valid?", "resolve">>) /\ Wraps(<<"valid?">>)
    BY WrapsStep, WrapsPair
  <2> QED
    BY <1>3, <2>1, WrapsConcat, WrapsOpens
       DEF SendImageWithCaption, SendImage, SendDocument, SendVideo, SendAudio
<1>5. Wraps(ResolveMediaSource)
  BY WrapsStep, WrapsConcat DEF ResolveMediaSource, SessionCall
<1>6. /\ Opens(ResolveMediaSource \o Forward(SendDocument))
      /\ Opens(ResolveMediaSource \o Forward(SendVideo))
      /\ Opens(ResolveMediaSource \o Forward(SendAudio))
  BY <1>4, <1>5, ForwardOpens, ThenOpens
<1>7. /\ Opens(<<"valid?", "transmit">>) /\ Opens(<<"valid?", "signal">>)
      /\ Opens(<<"new manager">>) /\ Opens(<<"connect">>)
  BY WrapsPair, WrapsStep, WrapsOpens
<1>8. Opens(<<"load">> \o MarkActive)
  BY MarkActiveMethod, WrapsMethod, WrapsOpens
<1>9. Opens(<<"started?", "load">> \o Stop \o <<"hang up", "down">>)
  <2> DEFINE a == <<"started?">>
             b == <<"load">>
             c == <<"hang up", "down">>
  <2>1. Wraps(a) /\ Wraps(c) /\ Wraps(b \o Stop)
    BY WrapsStep, WrapsPair, StopMethod, WrapsMethod
  <2>2. <<"started?", "load">> = a \o b
    BY SplitPair
  <2>3. a \in Steps /\ b \in Steps /\ Stop \in Steps
    BY StopMethod, OneStep DEF Method
  <2> HIDE DEF a, b, c
  <2>4. (a \o b) \o Stop = a \o (b \o Stop)
    BY ZenonT(30), <2>3, AssociateSteps
  <2>5. Wraps((a \o (b \o Stop)) \o c)
    BY <2>1, WrapsConcat
  <2> QED
    BY <2>2, <2>4, <2>5, WrapsOpens DEF c
<1>10. Opens(Program[o])
  BY <1>2, <1>4, <1>6, <1>7, <1>8, <1>9, ForwardOpens, Operations, Programs, Zenon
     DEF SendTextReply, SendChatPresence, SendReadReceipt, SendPresence, SendLocation, SendContact
<1> QED
  BY <1>10, OpensOutside

LEMMA HandlingOutside ==
  ASSUME NEW k \in DOMAIN Handling
  PROVE  Handling[k] \in Outside
<1> USE OwnSteps
<1>1. Wraps(<<"down">>) /\ Wraps(<<"healthy">>) /\ Wraps(<<"backoff">>) /\ Wraps(<<"up">>)
  BY WrapsStep
<1>2. Wraps(<<"load">> \o OnConnect) /\ Wraps(<<"load">> \o OnDisconnect)
  BY OnConnectMethod, OnDisconnectMethod, WrapsMethod
<1>3. ASSUME NEW x \in {"healthy", "up", "down"}, NEW m, Method(m), Wraps(<<"load">> \o m)
      PROVE  Wraps(<<x, "load">> \o m)
  <2>1. <<x, "load">> = <<x>> \o <<"load">>
    BY SplitPair
  <2>2. <<x>> \in Steps /\ <<"load">> \in Steps /\ m \in Steps
    BY <1>3, AreSteps, OneStep DEF Method
  <2>3. (<<x>> \o <<"load">>) \o m = <<x>> \o (<<"load">> \o m)
    BY ZenonT(30), <2>2, AssociateSteps
  <2>4. Wraps(<<x>>)
    BY WrapsStep
  <2> QED
    BY <1>3, <2>1, <2>3, <2>4, WrapsConcat
<1>4. /\ Wraps(<<"healthy", "load">> \o OnConnect) /\ Wraps(<<"up", "load">> \o OnConnect)
      /\ Wraps(<<"down", "load">> \o OnDisconnect)
      /\ Wraps((<<"load">> \o OnDisconnect) \o <<"backoff">>)
  BY <1>1, <1>2, <1>3, OnConnectMethod, OnDisconnectMethod, WrapsConcat
<1>5. Wraps(Handling[k])
  <2>1. /\ Handling["Connected"] = <<"healthy", "load">> \o OnConnect
        /\ Handling["Disconnected"] = <<"load">> \o OnDisconnect \o <<"backoff">>
        /\ Handling["LoggedOut"] = <<"down", "load">> \o OnDisconnect
        /\ Handling["StreamReplaced"] = <<"down">>
        /\ Handling["PairSuccess"] = <<"up", "load">> \o OnConnect
        /\ Handling["KeepAliveTimeout"] = <<"down">>
        /\ Handling["KeepAliveRestored"] = <<"healthy">>
    BY DEF Handling
  <2>2. k \in {"Connected", "Disconnected", "LoggedOut", "StreamReplaced", "PairSuccess",
               "KeepAliveTimeout", "KeepAliveRestored"}
    BY DEF Handling
  <2> QED
    BY <1>1, <1>4, <2>1, <2>2, Zenon
<1> QED
  BY <1>5, WrapsOutside

(* What is left after a failure.                                           *)
LEMMA FailureOutside ==
  /\ <<>> \in Outside
  /\ \A a \in {<<>>, <<"failed">>}, b \in {<<>>, <<"stop typing">>} : a \o b \in Outside
<1>1. Wraps(<<>>) /\ Wraps(<<"failed">>) /\ Wraps(<<"stop typing">>)
  BY OwnSteps, WrapsNothing, WrapsStep
<1> QED
  BY <1>1, WrapsConcat, WrapsOutside

-----------------------------------------------------------------------------
(* Everything that a goroutine may have to do: what is left once a method  *)
(* has begun, or a word of Methods(Outside).                               *)
Typed ==
    UNION {Types(Outside), Rising(Shows(Outside)), Risen(Shows(Outside)), Shows(Outside)}

Hiding   == After({"running?"}, Hides(Outside))
Stopping == After({"disarm"}, Outside)

Words ==
    UNION {Methods(Outside), Typed, Rising(Arms(Outside)), Risen(Arms(Outside)),
           Hiding, Hides(Outside), After({"tell offline"}, Outside), Stopping}

(* What is left when the first step of a word has been done.               *)
Rest(x, r) ==
    \/ x = "arm" /\ (r \in Outside \/ r \in Types(Outside))
    \/ x = "running?" /\ r \in UNION {Arms(Outside), Rising(Arms(Outside)), Hides(Outside)}
    \/ x \in Rises \cup {"tell online"} /\ Enabled /\ (r \in Arms(Outside) \/ r \in Shows(Outside))
    \/ x = "disarm" /\ (r \in Hides(Outside) \/ r \in Outside)
    \/ x \in {"set unavailable", "tell offline", "composing"} /\ r \in Outside
    \/ x = "typing?" /\ r \in Rising(Shows(Outside))
    \/ x = "set stopped" /\ r \in Stopping

LEMMA WordRest ==
  ASSUME NEW s \in Words
  PROVE  s \in Outside \/ (s \in Steps /\ s # <<>> /\ Rest(Head(s), Tail(s)))
<1>1. CASE s \in Methods(Outside)
  BY <1>1 DEF Methods, After, Arms, Types, Hides, Rest, Stopping
<1>2. CASE s \in Typed
  BY <1>2 DEF Typed, After, Types, Rising, Risen, Shows, Rest
<1>3. CASE s \in Rising(Arms(Outside)) \/ s \in Risen(Arms(Outside))
  BY <1>3 DEF After, Rising, Risen, Rest
<1>4. CASE s \in Hiding \/ s \in Hides(Outside)
  BY <1>4 DEF After, Hiding, Hides, Rest
<1>5. CASE s \in After({"tell offline"}, Outside) \/ s \in Stopping
  BY <1>5 DEF After, Stopping, Rest
<1> QED
  BY <1>1, <1>2, <1>3, <1>4, <1>5 DEF Words

LEMMA WordSteps == Words \subseteq Steps
<1>1. ASSUME NEW s \in Words PROVE s \in Steps
  BY WordRest, OutsideClosed
<1> QED
  BY <1>1

(* The words tell apart where a goroutine is.                              *)
LEMMA OutsideHead ==
  ASSUME NEW s \in Outside, s # <<>>
  PROVE  Head(s) \notin PresenceSteps
  BY OutsideClosed DEF Closed

LEMMA WordHeads ==
  ASSUME NEW s, s # <<>>
  PROVE  /\ s \in Arms(Outside) => Head(s) = "arm"
         /\ s \in Hides(Outside) => Head(s) = "set unavailable"
         /\ s \in Shows(Outside) => Head(s) = "composing"
         /\ s \in Types(Outside) => Head(s) = "typing?"
         /\ \A S : s \in Rising(S) => Head(s) \in Rises
         /\ \A S : s \in Risen(S) => Head(s) = "tell online"
         /\ s \in Hiding => Head(s) = "running?"
         /\ s \in Stopping => Head(s) = "disarm"
         /\ s \in Typed => Head(s) \in Rises \cup {"tell online", "composing", "typing?"}
  BY DEF Arms, Hides, Shows, Types, Rising, Risen, Hiding, Stopping, Typed, After

LEMMA WordsNotEmpty ==
  /\ <<>> \notin Arms(Outside) /\ <<>> \notin Hides(Outside) /\ <<>> \notin Typed
  /\ <<>> \notin Hiding /\ <<>> \notin Stopping
  BY DEF Arms, Hides, Shows, Types, Rising, Risen, Hiding, Stopping, Typed, After

(* Who has not begun a method does not know anything about its manager.    *)
LEMMA NotBegun ==
  ASSUME NEW s \in Methods(Outside)
  PROVE  s \notin Typed /\ s \notin Stopping /\ (s # <<>> => Head(s) # "tell online")
<1>1. CASE s = <<>>
  BY <1>1, WordsNotEmpty
<1>2. CASE s \in Outside /\ s # <<>>
  BY <1>2, OutsideHead, WordHeads, PresenceSet DEF Rises
<1>3. CASE s \in After({"disarm"}, Hides(Outside))
  <2>1. s # <<>> /\ Head(s) = "disarm" /\ Tail(s) \in Hides(Outside)
    BY <1>3 DEF After
  <2>2. Tail(s) # <<>> /\ Head(Tail(s)) \in PresenceSteps
    BY <2>1, WordsNotEmpty, WordHeads, PresenceSet
  <2>3. s \notin Stopping
    BY <2>2, OutsideHead DEF Stopping, After
  <2> QED
    BY <2>1, <2>3, WordHeads DEF Rises
<1>4. CASE s # <<>> /\ Head(s) \in {"arm", "running?", "set stopped"}
  BY <1>4, WordHeads DEF Rises
<1>5. s \in Outside \/ s \in After({"disarm"}, Hides(Outside))
        \/ (s # <<>> /\ Head(s) \in {"arm", "running?", "set stopped"})
  BY DEF Methods, Arms, After
<1> QED
  BY <1>1, <1>2, <1>3, <1>4, <1>5

-----------------------------------------------------------------------------
(* The invariant.  As long as the behaviour is calm, a goroutine inside a  *)
(* method is the only one there, and what it has seen of its manager still *)
(* holds.                                                                  *)
Own ==
    \A m \in Managers : on[m] = m /\ ~Has(todo[m], {"load"})

Alone ==
    calm => \A g, h \in Goroutines : Inside(g) /\ Inside(h) => g = h

Knows(g) ==
    /\ todo[g] \in Words
    /\ calm /\ At(g, "tell online") => available[on[g]]
    /\ calm /\ todo[g] \in Typed => armed[on[g]]
    /\ todo[g] \in Stopping => stopped[on[g]]

Guarded == \E m \in Managers : available[m] /\ (armed[m] \/ stopped[m])

(* Who is about to start the timer, or to take the account offline.        *)
Watching(g) ==
    \/ available[on[g]] /\ (At(g, "arm") \/ At(g, "set unavailable") \/ todo[g] \in Hiding)
    \/ At(g, "tell offline")

Watched == calm /\ online => Guarded \/ \E g \in Goroutines : Watching(g)

WatchInv ==
    /\ Own /\ Alone /\ Watched
    /\ \A g \in Goroutines : Knows(g)
    /\ online => Enabled

OnlineInv == IndicatorInv /\ NetworkInv /\ ManagerInv /\ WatchInv

LEMMA AtInside ==
  ASSUME NEW g, NEW x \in PresenceSteps, At(g, x)
  PROVE  Inside(g)
  BY DEF At, Inside

LEMMA WatchingInside ==
  ASSUME NEW g, Watching(g)
  PROVE  Inside(g)
<1>1. CASE At(g, "arm") \/ At(g, "set unavailable") \/ At(g, "tell offline")
  BY <1>1, AtInside, PresenceSet
<1>2. CASE todo[g] \in Hiding
  <2>1. todo[g] # <<>> /\ Head(todo[g]) = "running?"
    BY <1>2, WordsNotEmpty, WordHeads
  <2> QED
    BY <2>1, PresenceSet DEF Inside
<1> QED
  BY <1>1, <1>2 DEF Watching

(* A goroutine that is in no method, and stays or begins one.              *)
LEMMA OutsideKeeps ==
  ASSUME OnlineInv, NEW g \in Goroutines, ~Inside(g),
         NEW r \in Methods(Outside), Instead(g, r), Recorded,
         UNCHANGED <<available, stopped, armed>>, online' \in {online, FALSE},
         \A h \in Goroutines \ {g} : on'[h] = on[h],
         g \in Managers => on'[g] = g /\ ~Has(r, {"load"})
  PROVE  WatchInv'
<1>1. todo'[g] = r /\ \A h \in Goroutines : h # g => todo'[h] = todo[h]
  BY DEF OnlineInv, IndicatorInv, Routines, Instead
<1>2. calm' => calm /\ Alone'
  BY Zenon DEF Recorded, Overlap, Alone
<1>3. Own'
  BY <1>1 DEF OnlineInv, WatchInv, Own, Goroutines
<1>4. ASSUME NEW h \in Goroutines PROVE Knows(h)'
  <2>1. CASE h = g
    <3>1. r \in Words /\ r \notin Typed /\ r \notin Stopping /\ ~At(g, "tell online")'
      BY <1>1, NotBegun DEF Words, At
    <3> QED
      BY <1>1, <2>1, <3>1 DEF Knows
  <2>2. CASE h # g
    <3>1. todo'[h] = todo[h] /\ on'[h] = on[h] /\ Knows(h)
      BY <1>1, <2>2 DEF OnlineInv, WatchInv
    <3> QED
      BY <1>2, <3>1 DEF Knows, At
  <2> QED
    BY <2>1, <2>2
<1>5. Watched'
  <2> SUFFICES ASSUME calm', online' PROVE Guarded' \/ \E h \in Goroutines : Watching(h)'
    BY DEF Watched
  <2>1. Guarded \/ \E h \in Goroutines : Watching(h)
    BY <1>2 DEF OnlineInv, WatchInv, Watched
  <2>2. Guarded => Guarded'
    BY DEF Guarded
  <2>3. ASSUME NEW h \in Goroutines, Watching(h) PROVE Watching(h)'
    <3>1. h # g
      BY <2>3, WatchingInside
    <3>2. todo'[h] = todo[h] /\ on'[h] = on[h]
      BY <1>1, <3>1
    <3> QED
      BY <2>3, <3>2 DEF Watching, At
  <2> QED
    BY <2>1, <2>2, <2>3
<1>6. online' => Enabled
  BY DEF OnlineInv, WatchInv
<1>7. Alone'
  BY <1>2 DEF Alone
<1> QED
  BY <1>3, <1>4, <1>5, <1>6, <1>7 DEF WatchInv

(* Who watches while somebody is inside a method: nobody else can be.      *)
LEMMA Watchers ==
  ASSUME OnlineInv, calm, online, NEW g \in Goroutines, Inside(g)
  PROVE  Guarded \/ Watching(g)
  BY WatchingInside DEF OnlineInv, WatchInv, Watched, Alone

(* A step inside a method leaves the others where they are.                *)
LEMMA InsideKeeps ==
  ASSUME OnlineInv, NEW g \in Goroutines, Inside(g), NEW r, Instead(g, r), Recorded,
         UNCHANGED on, \A m \in Managers : stopped[m] => stopped'[m],
         g \in Managers => ~Has(r, {"load"}),
         Knows(g)', Watched', online' => Enabled
  PROVE  WatchInv'
<1>1. todo'[g] = r /\ \A h \in Goroutines : h # g => todo'[h] = todo[h]
  BY DEF OnlineInv, IndicatorInv, Routines, Instead
<1>2. calm' => calm /\ Alone'
  BY Zenon DEF Recorded, Overlap, Alone
<1>3. Own'
  BY <1>1 DEF OnlineInv, WatchInv, Own, Goroutines
<1>4. ASSUME NEW h \in Goroutines, h # g PROVE Knows(h)'
  <2>1. todo'[h] = todo[h] /\ on'[h] = on[h] /\ Knows(h) /\ on[h] \in Managers
    BY <1>1, <1>4 DEF OnlineInv, WatchInv, ManagerInv
  <2>2. ASSUME calm PROVE ~Inside(h)
    BY <1>4, <2>2 DEF OnlineInv, WatchInv, Alone
  <2>3. calm => ~At(h, "tell online")
    BY <2>2, AtInside, PresenceSet
  <2>4. calm => todo[h] \notin Typed
    <3>1. ASSUME todo[h] \in Typed PROVE Inside(h)
      <4>1. todo[h] # <<>> /\ Head(todo[h]) \in Rises \cup {"tell online", "composing", "typing?"}
        BY <3>1, WordsNotEmpty, WordHeads
      <4> QED
        BY <4>1, PresenceSet DEF Inside, Rises
    <3> QED
      BY <2>2, <3>1
  <2> QED
    BY <1>2, <2>1, <2>3, <2>4 DEF Knows, At
<1>7. Alone'
  BY <1>2 DEF Alone
<1> QED
  BY <1>3, <1>4, <1>7 DEF WatchInv

LEMMA PresenceKeeps ==
  ASSUME OnlineInv, NEW g \in Goroutines, Inside(g), PresenceStep(g), Recorded,
         Knows(g)', Watched', online' => Enabled
  PROVE  WatchInv'
<1>1. UNCHANGED on
  BY DEF PresenceStep, CheckRunning, CheckAway, setAvailable, setUnavailable, Tell,
     resetIdleTimer, stopIdleTimer, SetStopped, CheckTyping, Compose, StopTyping
<1>2. \A m \in Managers : stopped[m] => stopped'[m]
  <2>1. CASE SetStopped(g)
    BY <2>1 DEF SetStopped, OnlineInv, ManagerInv
  <2>2. CASE UNCHANGED stopped
    BY <2>2
  <2> QED
    BY <2>1, <2>2 DEF PresenceStep, CheckRunning, CheckAway, setAvailable, setUnavailable, Tell,
       resetIdleTimer, stopIdleTimer, CheckTyping, Compose, StopTyping, manager
<1>3. PICK r : Moves(todo[g], r) /\ Instead(g, r)
  BY PresenceMoves DEF OnlineInv, IndicatorInv, Routines, Succeeds
<1>4. ASSUME g \in Managers PROVE ~Has(r, {"load"})
  <2>1. todo[g] \in Steps /\ todo[g] # <<>>
    BY DEF OnlineInv, IndicatorInv, Routines, Script, Inside
  <2>2. ~Has(todo[g], {"load"}) /\ {"load"} \cap Fills = {}
    BY <1>4 DEF OnlineInv, WatchInv, Own, Fills
  <2> QED
    BY <1>3, <2>1, <2>2, MoveKeeps
<1> QED
  BY <1>1, <1>2, <1>3, <1>4, InsideKeeps

(* What the step of a method finds.                                        *)
LEMMA InsideRest ==
  ASSUME OnlineInv, NEW g \in Goroutines, Inside(g)
  PROVE  /\ todo[g] \in Steps /\ todo[g] # <<>> /\ Tail(todo[g]) \in Steps
         /\ Rest(Head(todo[g]), Tail(todo[g]))
         /\ on[g] \in Managers
         /\ Proceed(g) => todo'[g] = Tail(todo[g])
         /\ \A r : Instead(g, r) => todo'[g] = r
<1>1. todo[g] \in Words /\ todo[g] \notin Outside
  BY OutsideHead DEF OnlineInv, WatchInv, Knows, Inside
<1>2. todo[g] \in Steps /\ todo[g] # <<>> /\ Rest(Head(todo[g]), Tail(todo[g]))
  BY <1>1, WordRest
<1>3. Tail(todo[g]) \in Steps
  BY <1>2, TailSteps
<1>4. \A r : Instead(g, r) => todo'[g] = r
  BY DEF OnlineInv, IndicatorInv, Routines, Instead
<1>5. <<>> \o Tail(todo[g]) = Tail(todo[g])
  BY <1>3, ConcatEmptySeq DEF Steps
<1>6. Proceed(g) => todo'[g] = Tail(todo[g])
  BY <1>4, <1>5 DEF Proceed, First
<1> QED
  BY <1>2, <1>3, <1>4, <1>6 DEF OnlineInv, ManagerInv

(* Only some steps have to do with watching; the others leave it as it is. *)
LEMMA StillWatched ==
  ASSUME OnlineInv, NEW g \in Goroutines, Inside(g),
         Head(todo[g]) \notin {"arm", "set unavailable", "running?", "tell offline"},
         calm' => calm, online' => online,
         \A m \in Managers : available[m] /\ (armed[m] \/ stopped[m])
                               => available'[m] /\ (armed'[m] \/ stopped'[m])
  PROVE  Watched'
<1>1. ~Watching(g)
  BY WordHeads, WordsNotEmpty DEF Watching, At
<1>2. calm /\ online => Guarded
  BY <1>1, Watchers
<1>3. Guarded => Guarded'
  BY DEF Guarded
<1> QED
  BY <1>2, <1>3 DEF Watched

LEMMA CalmBefore == Recorded => (calm' => calm)
  BY Zenon DEF Recorded

LEMMA OnlineEnabled == ASSUME OnlineInv, online' => online PROVE online' => Enabled
  BY DEF OnlineInv, WatchInv

(* The words that are Typed, by their first step.                          *)
LEMMA TypedWords ==
  /\ \A s \in Steps : s # <<>> /\ Head(s) \in Rises \cup {"tell online"} /\ Enabled
       /\ Tail(s) \in Shows(Outside) => s \in Typed
  /\ \A s \in Types(Outside) : s \in Typed
  /\ \A s \in Shows(Outside) : s \in Typed
  /\ \A s \in Arms(Outside) \cup Hides(Outside) \cup Outside : s \notin Typed
<1>1. \A s \in Steps : s # <<>> /\ Head(s) \in Rises \cup {"tell online"} /\ Enabled
        /\ Tail(s) \in Shows(Outside) => s \in Typed
  BY DEF Typed, Rising, Risen, After
<1>2. ASSUME NEW s \in Arms(Outside) \cup Hides(Outside) \cup Outside PROVE s \notin Typed
  <2>1. CASE s = <<>>
    BY <2>1, WordsNotEmpty
  <2>2. CASE s # <<>> /\ Head(s) \in {"arm", "set unavailable"}
    BY <2>2, WordHeads DEF Rises
  <2>3. CASE s # <<>> /\ s \in Outside
    BY <2>3, OutsideHead, WordHeads, PresenceSet DEF Rises
  <2> QED
    BY <2>1, <2>2, <2>3, WordHeads
<1> QED
  BY <1>1, <1>2 DEF Typed

LEMMA RisingArms ==
  ASSUME NEW s \in Steps, s # <<>>, Head(s) \in Rises \cup {"tell online"},
         Tail(s) \in Arms(Outside)
  PROVE  s \notin Typed
<1>1. ASSUME s \in Rising(Shows(Outside)) \/ s \in Risen(Shows(Outside)) PROVE FALSE
  <2>1. Tail(s) \in Shows(Outside)
    BY <1>1 DEF Rising, Risen, After
  <2>2. Tail(s) # <<>>
    BY <1>1, WordsNotEmpty
  <2> QED
    BY <1>1, <2>1, <2>2, WordHeads
<1> QED
  BY <1>1, WordHeads DEF Typed, Rises

-----------------------------------------------------------------------------
(* The steps of the methods, one at a time.                                *)
LEMMA CheckRunningKeeps ==
  ASSUME OnlineInv, NEW g \in Goroutines, CheckRunning(g), Recorded
  PROVE  WatchInv'
<1>1. At(g, "running?") /\ Inside(g) /\ Head(todo[g]) = "running?"
  BY AtInside, PresenceSet DEF CheckRunning, At
<1>2. UNCHANGED <<on, available, armed, stopped, online>>
  BY DEF CheckRunning, manager, shown
<1>3. /\ stopped[on[g]] => todo'[g] = <<>>
      /\ ~stopped[on[g]] => todo'[g] = Tail(todo[g])
  BY <1>1, InsideRest DEF CheckRunning
<1>4. Tail(todo[g]) \in UNION {Arms(Outside), Rising(Arms(Outside)), Hides(Outside)}
  BY <1>1, InsideRest DEF Rest, Rises
<1>5. Knows(g)'
  <2>1. CASE todo'[g] = <<>>
    <3>1. <<>> \in Words
      BY OutsideClosed DEF Words, Methods
    <3> QED
      BY <2>1, <3>1, WordsNotEmpty DEF Knows, At
  <2>2. CASE todo'[g] = Tail(todo[g])
    <3>1. todo'[g] \in Words
      BY <1>4, <2>2 DEF Words, Methods
    <3>2. todo'[g] # <<>> /\ Head(todo'[g]) \in {"arm", "set unavailable"} \cup Rises
      BY <1>4, <2>2, WordHeads, WordsNotEmpty DEF Rising, After
    <3>3. todo'[g] \notin Typed
      <4>1. CASE todo'[g] \in Arms(Outside) \cup Hides(Outside)
        BY <4>1, TypedWords
      <4>2. CASE todo'[g] \in Rising(Arms(Outside))
        BY <4>2, RisingArms DEF Rising, After
      <4> QED
        BY <1>4, <2>2, <4>1, <4>2
    <3> QED
      BY <3>1, <3>2, <3>3, WordHeads DEF Knows, At, Rises
  <2> QED
    BY <1>3, <2>1, <2>2
<1>6. Watched'
  <2> SUFFICES ASSUME calm', online' PROVE Guarded' \/ Watching(g)'
    BY DEF Watched
  <2>1. Guarded \/ Watching(g)
    BY <1>1, <1>2, CalmBefore, Watchers
  <2>2. Guarded => Guarded'
    BY <1>2 DEF Guarded
  <2>3. ASSUME Watching(g) PROVE Guarded' \/ Watching(g)'
    <3>1. available[on[g]] /\ todo[g] \in Hiding /\ on[g] \in Managers
      BY <1>1, <2>3, InsideRest DEF Watching, At
    <3>2. CASE stopped[on[g]]
      BY <1>2, <3>1, <3>2 DEF Guarded
    <3>3. CASE ~stopped[on[g]]
      <4>1. todo'[g] \in Hides(Outside)
        BY <1>3, <3>1, <3>3 DEF Hiding, After
      <4>2. todo'[g] # <<>> /\ Head(todo'[g]) = "set unavailable"
        BY <4>1, WordHeads, WordsNotEmpty
      <4> QED
        BY <1>2, <3>1, <4>2 DEF Watching, At
    <3> QED
      BY <3>2, <3>3
  <2> QED
    BY <2>1, <2>2, <2>3
<1> QED
  BY <1>1, <1>2, <1>5, <1>6, OnlineEnabled, PresenceKeeps DEF PresenceStep

(* What is put in front of the rest of a method.                           *)
LEMMA FirstStep ==
  ASSUME OnlineInv, NEW g \in Goroutines, Inside(g), NEW x \in StepNames, First(g, <<x>>)
  PROVE  todo'[g] \in Steps /\ todo'[g] # <<>> /\ Head(todo'[g]) = x
         /\ Tail(todo'[g]) = Tail(todo[g])
<1>1. todo'[g] = <<x>> \o Tail(todo[g]) /\ Tail(todo[g]) \in Steps
  BY InsideRest DEF First
<1> QED
  BY <1>1, StepBefore

(* On the way to being available.                                          *)
LEMMA RisingWords ==
  ASSUME NEW s \in Steps, s # <<>>, Head(s) \in Rises \cup {"tell online"}, Enabled,
         Tail(s) \in Arms(Outside) \/ Tail(s) \in Shows(Outside)
  PROVE  s \in Words
<1>1. \A S : Tail(s) \in S => s \in Rising(S) \/ s \in Risen(S)
  BY DEF Rising, Risen, After
<1> QED
  BY <1>1 DEF Words, Typed

LEMMA RisingKeeps ==
  ASSUME OnlineInv, NEW g \in Goroutines, Inside(g),
         Head(todo[g]) \in Rises \cup {"tell online"},
         \/ todo'[g] = Tail(todo[g])
         \/ /\ todo'[g] \in Steps /\ todo'[g] # <<>>
            /\ Head(todo'[g]) \in Rises \cup {"tell online"} /\ Tail(todo'[g]) = Tail(todo[g]),
         UNCHANGED <<on, armed, stopped>>, calm' => calm,
         At(g, "tell online")' => available'[on[g]]
  PROVE  Knows(g)'
<1>1. /\ Enabled /\ todo[g] \in Steps /\ todo[g] # <<>>
      /\ Tail(todo[g]) \in Arms(Outside) \/ Tail(todo[g]) \in Shows(Outside)
  BY InsideRest, OutsideHead, PresenceSet DEF Rest, Rises
<1>2. todo'[g] \in Words
  BY <1>1, RisingWords DEF Words, Methods, Typed
<1>3. todo'[g] \in Typed => todo[g] \in Typed
  <2>1. CASE Tail(todo[g]) \in Shows(Outside)
    BY <1>1, <2>1, TypedWords
  <2>2. CASE Tail(todo[g]) \in Arms(Outside)
    BY <2>2, TypedWords, RisingArms
  <2> QED
    BY <1>1, <2>1, <2>2
<1>4. todo'[g] \notin Stopping
  <2>1. todo'[g] # <<>> /\ Head(todo'[g]) # "disarm"
    BY <1>1, WordHeads, WordsNotEmpty DEF Shows, After, Rises
  <2> QED
    BY <2>1, WordHeads
<1> QED
  BY <1>2, <1>3, <1>4 DEF OnlineInv, WatchInv, Knows

LEMMA CheckAwayKeeps ==
  ASSUME OnlineInv, NEW g \in Goroutines, CheckAway(g), Recorded
  PROVE  WatchInv'
<1>1. At(g, "away?") /\ Inside(g) /\ Head(todo[g]) = "away?"
  BY AtInside, PresenceSet DEF CheckAway, At
<1>2. UNCHANGED <<on, available, armed, stopped, online>>
  BY DEF CheckAway, manager, shown
<1>3. \/ todo'[g] = Tail(todo[g])
      \/ /\ todo'[g] \in Steps /\ todo'[g] # <<>> /\ Head(todo'[g]) = "set available"
         /\ Tail(todo'[g]) = Tail(todo[g])
  BY <1>1, InsideRest, FirstStep, AreSteps DEF CheckAway
<1>4. ~At(g, "tell online")'
  <2>1. todo'[g] = Tail(todo[g]) => todo'[g] \in Arms(Outside) \/ todo'[g] \in Shows(Outside)
    BY <1>1, InsideRest DEF Rest, Rises
  <2> QED
    BY <1>3, <2>1, WordHeads DEF At
<1>5. Knows(g)'
  BY <1>1, <1>2, <1>3, <1>4, CalmBefore, RisingKeeps DEF Rises
<1>6. Watched'
  BY <1>1, <1>2, CalmBefore, StillWatched
<1> QED
  BY <1>1, <1>2, <1>5, <1>6, OnlineEnabled, PresenceKeeps DEF PresenceStep

LEMMA SetAvailableKeeps ==
  ASSUME OnlineInv, NEW g \in Goroutines, setAvailable(g), Recorded
  PROVE  WatchInv'
<1>1. At(g, "set available") /\ Inside(g) /\ Head(todo[g]) = "set available"
  BY AtInside, PresenceSet DEF setAvailable, At
<1>2. UNCHANGED <<on, armed, stopped, online>>
  BY DEF setAvailable, shown
<1>3. \/ todo'[g] = Tail(todo[g])
      \/ /\ todo'[g] \in Steps /\ todo'[g] # <<>> /\ Head(todo'[g]) = "tell online"
         /\ Tail(todo'[g]) = Tail(todo[g])
  BY <1>1, InsideRest, FirstStep, AreSteps DEF setAvailable
<1>4. available'[on[g]] /\ \A m \in Managers : available[m] => available'[m]
  BY <1>1, InsideRest DEF setAvailable, OnlineInv, ManagerInv
<1>5. Knows(g)'
  BY <1>1, <1>2, <1>3, <1>4, CalmBefore, RisingKeeps DEF Rises
<1>6. Watched'
  BY <1>1, <1>2, <1>4, CalmBefore, StillWatched
<1> QED
  BY <1>1, <1>2, <1>5, <1>6, OnlineEnabled, PresenceKeeps DEF PresenceStep

LEMMA TellOnlineKeeps ==
  ASSUME OnlineInv, NEW g \in Goroutines, Tell(g), At(g, "tell online"), Recorded
  PROVE  WatchInv'
<1>1. Inside(g) /\ Head(todo[g]) = "tell online"
  BY AtInside, PresenceSet DEF At
<1>2. UNCHANGED <<on, available, armed, stopped>>
  BY DEF Tell, manager
<1>3. todo'[g] = Tail(todo[g])
  BY <1>1, InsideRest DEF Tell
<1>4. /\ Enabled /\ todo[g] \in Steps /\ todo[g] # <<>>
      /\ Tail(todo[g]) \in Arms(Outside) \/ Tail(todo[g]) \in Shows(Outside)
  BY <1>1, InsideRest DEF Rest, Rises
<1>5. ~At(g, "tell online")'
  BY <1>3, <1>4, WordHeads DEF At
<1>6. Knows(g)'
  BY <1>1, <1>2, <1>3, <1>5, CalmBefore, RisingKeeps
<1>7. Watched'
  <2> SUFFICES ASSUME calm' PROVE Guarded' \/ Watching(g)'
    BY DEF Watched
  <2>1. calm /\ available[on[g]] /\ on[g] \in Managers
    BY <1>1, CalmBefore, InsideRest DEF OnlineInv, WatchInv, Knows
  <2>2. CASE Tail(todo[g]) \in Shows(Outside)
    <3>1. todo[g] \in Typed
      BY <1>1, <1>4, <2>2, TypedWords
    <3>2. armed[on[g]]
      BY <2>1, <3>1 DEF OnlineInv, WatchInv, Knows
    <3> QED
      BY <1>2, <2>1, <3>2 DEF Guarded
  <2>3. CASE Tail(todo[g]) \in Arms(Outside)
    BY <1>2, <1>3, <2>1, <2>3, WordHeads, WordsNotEmpty DEF Watching, At
  <2> QED
    BY <1>4, <2>2, <2>3
<1> QED
  BY <1>1, <1>4, <1>6, <1>7, PresenceKeeps DEF PresenceStep

(* The rest of a method that has come to its end.                          *)
LEMMA EndKnows ==
  ASSUME NEW g, todo'[g] \in Outside
  PROVE  Knows(g)' /\ ~Inside(g)'
<1>1. todo'[g] \in Methods(Outside) /\ todo'[g] \in Words
  BY DEF Words, Methods
<1>2. todo'[g] \notin Typed /\ todo'[g] \notin Stopping /\ ~At(g, "tell online")'
  BY <1>1, NotBegun DEF At
<1>3. ~Inside(g)'
  BY OutsideHead DEF Inside
<1> QED
  BY <1>1, <1>2, <1>3 DEF Knows

LEMMA TellOfflineKeeps ==
  ASSUME OnlineInv, NEW g \in Goroutines, Tell(g), At(g, "tell offline"), Recorded
  PROVE  WatchInv'
<1>1. Inside(g) /\ Head(todo[g]) = "tell offline"
  BY AtInside, PresenceSet DEF At
<1>2. todo'[g] = Tail(todo[g]) /\ Tail(todo[g]) \in Outside
  BY <1>1, InsideRest DEF Tell, Rest, Rises
<1>3. Knows(g)' /\ ~Inside(g)'
  BY <1>2, EndKnows
<1>4. ~At(g, "tell online") /\ ~At(g, "tell offline")'
  BY <1>1, <1>3, AtInside, PresenceSet DEF At, Inside
<1>5. online' = online \/ ~online'
  <2>1. CASE up /\ socket
    BY <1>4, <2>1, Zenon DEF Tell
  <2>2. CASE ~(up /\ socket)
    BY <2>2, Zenon DEF Tell
  <2> QED
    BY <2>1, <2>2
<1>6. ~(calm' /\ online')
  <2>1. online' /\ online => Unheard
    BY <1>4, Zenon DEF Unheard
  <2>2. calm' => ~Unheard
    BY Zenon DEF Recorded
  <2> QED
    BY <1>5, <2>1, <2>2
<1>7. Watched'
  BY <1>6 DEF Watched
<1>8. online' => Enabled
  <2>1. CASE online' = online
    BY <2>1, OnlineEnabled
  <2>2. CASE ~online'
    BY <2>2
  <2> QED
    BY <1>5, <2>1, <2>2
<1> QED
  BY <1>1, <1>3, <1>7, <1>8, PresenceKeeps DEF PresenceStep

LEMMA SetUnavailableKeeps ==
  ASSUME OnlineInv, NEW g \in Goroutines, setUnavailable(g), Recorded
  PROVE  WatchInv'
<1>1. At(g, "set unavailable") /\ Inside(g) /\ Head(todo[g]) = "set unavailable"
  BY AtInside, PresenceSet DEF setUnavailable, At
<1>2. UNCHANGED <<on, armed, stopped, online>>
  BY DEF setUnavailable, shown
<1>3. Tail(todo[g]) \in Outside /\ on[g] \in Managers
  BY <1>1, InsideRest DEF Rest, Rises
<1>4. CASE available[on[g]]
  <2>1. todo'[g] \in Steps /\ todo'[g] # <<>> /\ Head(todo'[g]) = "tell offline"
        /\ Tail(todo'[g]) \in Outside
    BY <1>1, <1>3, <1>4, FirstStep, AreSteps DEF setUnavailable
  <2>2. todo'[g] \in Words
    BY <2>1 DEF Words, After
  <2>3. Knows(g)'
    BY <2>1, <2>2, WordHeads DEF Knows, At, Rises
  <2>4. Watched'
    BY <2>1 DEF Watched, Watching, At
  <2> QED
    BY <1>1, <1>2, <2>3, <2>4, OnlineEnabled, PresenceKeeps DEF PresenceStep
<1>5. CASE ~available[on[g]]
  <2>1. todo'[g] = Tail(todo[g])
    BY <1>1, <1>5, InsideRest DEF setUnavailable
  <2>2. Knows(g)'
    BY <1>3, <2>1, EndKnows
  <2>3. \A m \in Managers : available[m] => available'[m]
    BY <1>5 DEF setUnavailable, OnlineInv, ManagerInv
  <2>4. ~Watching(g)
    <3>1. todo[g] \notin Hiding
      BY <1>1, WordHeads, WordsNotEmpty
    <3> QED
      BY <1>1, <1>5, <3>1 DEF Watching, At
  <2>5. Watched'
    BY <1>1, <1>2, <2>3, <2>4, CalmBefore, Watchers DEF Watched, Guarded
  <2> QED
    BY <1>1, <1>2, <2>2, <2>5, OnlineEnabled, PresenceKeeps DEF PresenceStep
<1> QED
  BY <1>4, <1>5

LEMMA ResetIdleTimerKeeps ==
  ASSUME OnlineInv, NEW g \in Goroutines, resetIdleTimer(g), Recorded
  PROVE  WatchInv'
<1>1. At(g, "arm") /\ Inside(g) /\ Head(todo[g]) = "arm"
  BY AtInside, PresenceSet DEF resetIdleTimer, At
<1>2. UNCHANGED <<on, available, stopped, online>>
  BY DEF resetIdleTimer, shown
<1>3. todo'[g] = Tail(todo[g]) /\ on[g] \in Managers
      /\ (Tail(todo[g]) \in Outside \/ Tail(todo[g]) \in Types(Outside))
  BY <1>1, InsideRest DEF resetIdleTimer, Rest, Rises
<1>4. armed'[on[g]] = Enabled /\ \A m \in Managers \ {on[g]} : armed'[m] = armed[m]
  BY <1>3 DEF resetIdleTimer, OnlineInv, ManagerInv
<1>5. Knows(g)'
  <2>1. CASE todo'[g] \in Outside
    BY <2>1, EndKnows
  <2>2. CASE todo'[g] \in Types(Outside)
    <3>1. todo'[g] \in Words /\ todo'[g] # <<>> /\ Head(todo'[g]) = "typing?" /\ Enabled
      BY <2>2 DEF Words, Typed, Types, Rising, After
    <3> QED
      BY <1>2, <1>4, <3>1, WordHeads DEF Knows, At
  <2> QED
    BY <1>3, <2>1, <2>2
<1>6. Watched'
  <2> SUFFICES ASSUME calm', online' PROVE Guarded'
    BY DEF Watched
  <2>1. calm /\ online /\ Enabled
    BY <1>2, CalmBefore DEF OnlineInv, WatchInv
  <2>2. Guarded \/ available[on[g]]
    <3>1. todo[g] \notin Hiding /\ ~At(g, "tell offline")
      BY <1>1, WordHeads, WordsNotEmpty DEF At
    <3> QED
      BY <1>1, <2>1, <3>1, Watchers DEF Watching
  <2>3. CASE available[on[g]]
    BY <1>2, <1>3, <1>4, <2>1, <2>3 DEF Guarded
  <2>4. CASE Guarded
    <3>1. PICK m \in Managers : available[m] /\ (armed[m] \/ stopped[m])
      BY <2>4 DEF Guarded
    <3>2. CASE m = on[g]
      BY <2>3, <3>1, <3>2
    <3>3. CASE m # on[g]
      BY <1>2, <1>4, <3>1, <3>3 DEF Guarded
    <3> QED
      BY <3>2, <3>3
  <2> QED
    BY <2>2, <2>3, <2>4
<1> QED
  BY <1>1, <1>2, <1>5, <1>6, OnlineEnabled, PresenceKeeps DEF PresenceStep

LEMMA StopIdleTimerKeeps ==
  ASSUME OnlineInv, NEW g \in Goroutines, stopIdleTimer(g), Recorded
  PROVE  WatchInv'
<1>1. At(g, "disarm") /\ Inside(g) /\ Head(todo[g]) = "disarm"
  BY AtInside, PresenceSet DEF stopIdleTimer, At
<1>2. UNCHANGED <<on, available, stopped, online>>
  BY DEF stopIdleTimer, shown
<1>3. todo'[g] = Tail(todo[g]) /\ on[g] \in Managers /\ todo[g] \in Steps /\ todo[g] # <<>>
      /\ (Tail(todo[g]) \in Outside \/ Tail(todo[g]) \in Hides(Outside))
  BY <1>1, InsideRest DEF stopIdleTimer, Rest, Rises
<1>4. \A m \in Managers \ {on[g]} : armed'[m] = armed[m]
  BY <1>3 DEF stopIdleTimer, OnlineInv, ManagerInv
<1>5. Knows(g)'
  <2>1. CASE todo'[g] \in Outside
    BY <2>1, EndKnows
  <2>2. CASE todo'[g] \in Hides(Outside)
    <3>1. todo'[g] \in Words /\ todo'[g] # <<>> /\ Head(todo'[g]) = "set unavailable"
      BY <2>2, WordHeads, WordsNotEmpty DEF Words
    <3> QED
      BY <3>1, WordHeads DEF Knows, At, Rises
  <2> QED
    BY <1>3, <2>1, <2>2
<1>6. stopped[on[g]] \/ At(g, "set unavailable")'
  <2>1. CASE Tail(todo[g]) \in Outside
    <3>1. todo[g] \in Stopping
      BY <1>1, <1>3, <2>1 DEF Stopping, After
    <3> QED
      BY <3>1 DEF OnlineInv, WatchInv, Knows
  <2>2. CASE Tail(todo[g]) \in Hides(Outside)
    BY <1>3, <2>2, WordHeads, WordsNotEmpty DEF At
  <2> QED
    BY <1>3, <2>1, <2>2
<1>7. Watched'
  <2> SUFFICES ASSUME calm', online' PROVE Guarded' \/ Watching(g)'
    BY DEF Watched
  <2>1. Guarded
    <3>1. ~Watching(g)
      <4>1. todo[g] \notin Hiding
        BY <1>1, WordHeads, WordsNotEmpty
      <4> QED
        BY <1>1, <4>1 DEF Watching, At
    <3> QED
      BY <1>1, <1>2, <3>1, CalmBefore, Watchers
  <2>2. PICK m \in Managers : available[m] /\ (armed[m] \/ stopped[m])
    BY <2>1 DEF Guarded
  <2>3. CASE m # on[g]
    BY <1>2, <1>4, <2>2, <2>3 DEF Guarded
  <2>4. CASE m = on[g]
    BY <1>2, <1>6, <2>2, <2>4 DEF Guarded, Watching
  <2> QED
    BY <2>3, <2>4
<1> QED
  BY <1>1, <1>2, <1>5, <1>7, OnlineEnabled, PresenceKeeps DEF PresenceStep

LEMMA SetStoppedKeeps ==
  ASSUME OnlineInv, NEW g \in Goroutines, SetStopped(g), Recorded
  PROVE  WatchInv'
<1>1. At(g, "set stopped") /\ Inside(g) /\ Head(todo[g]) = "set stopped"
  BY AtInside, PresenceSet DEF SetStopped, At
<1>2. UNCHANGED <<on, available, armed, online>>
  BY DEF SetStopped, shown
<1>3. todo'[g] = Tail(todo[g]) /\ on[g] \in Managers /\ Tail(todo[g]) \in Stopping
  BY <1>1, InsideRest DEF SetStopped, Rest, Rises
<1>4. stopped'[on[g]] /\ \A m \in Managers : stopped[m] => stopped'[m]
  BY <1>3 DEF SetStopped, OnlineInv, ManagerInv
<1>5. Knows(g)'
  <2>1. todo'[g] \in Words /\ todo'[g] # <<>> /\ Head(todo'[g]) = "disarm"
    BY <1>3, WordHeads, WordsNotEmpty DEF Words
  <2> QED
    BY <1>2, <1>4, <2>1, WordHeads DEF Knows, At, Rises
<1>6. Watched'
  BY <1>1, <1>2, <1>4, CalmBefore, StillWatched
<1> QED
  BY <1>1, <1>2, <1>5, <1>6, OnlineEnabled, PresenceKeeps DEF PresenceStep

LEMMA ComposeKeeps ==
  ASSUME OnlineInv, NEW g \in Goroutines, Compose(g), Recorded
  PROVE  WatchInv'
<1>1. At(g, "composing") /\ Inside(g) /\ Head(todo[g]) = "composing"
  BY AtInside, PresenceSet DEF Compose, At
<1>2. UNCHANGED <<on, available, armed, stopped, online>>
  BY DEF Compose, manager
<1>3. todo'[g] \in Outside
  BY <1>1, InsideRest DEF Compose, Rest, Rises
<1>4. Watched'
  BY <1>1, <1>2, CalmBefore, StillWatched
<1> QED
  BY <1>1, <1>2, <1>3, <1>4, EndKnows, OnlineEnabled, PresenceKeeps DEF PresenceStep

(* Where BeforeSend ends when it skips the indicator.                      *)
LEMMA SkipOutside ==
  ASSUME NEW s \in Types(Outside), NEW i \in DOMAIN s, s[i] = "composing"
  PROVE  SubSeq(s, i + 1, Len(s)) \in Outside
<1> DEFINE t == Tail(s)
           u == Tail(t)
           v == Tail(u)
<1>1. s \in Steps /\ s # <<>> /\ Head(s) = "typing?" /\ t \in Rising(Shows(Outside))
  BY DEF Types, After
<1>2. t \in Steps /\ t # <<>> /\ Head(t) \in Rises /\ u \in Shows(Outside)
  BY <1>1 DEF Rising, After
<1>3. u \in Steps /\ u # <<>> /\ Head(u) = "composing" /\ v \in Outside
      /\ ~Has(v, {"composing"})
  BY <1>2 DEF Shows, After
<1>4. v \in Steps
  BY <1>3, OutsideClosed
<1>5. \A x \in Steps : x # <<>> =>
        /\ Len(x) \in Nat /\ DOMAIN x = 1 .. Len(x) /\ Len(x) > 0
        /\ Len(Tail(x)) = Len(x) - 1 /\ Head(x) = x[1]
        /\ \A k \in 1 .. Len(x) - 1 : Tail(x)[k] = x[k + 1]
  BY LenProperties, EmptySeq, HeadTailProperties DEF Steps
<1> HIDE DEF t, u, v
<1>6. /\ Len(s) \in Nat /\ DOMAIN s = 1 .. Len(s) /\ Len(s) > 0 /\ Len(t) = Len(s) - 1
      /\ s[1] = "typing?" /\ \A k \in 1 .. Len(s) - 1 : t[k] = s[k + 1]
  BY <1>1, <1>5 DEF t
<1>7. /\ Len(t) > 0 /\ Len(u) = Len(t) - 1
      /\ t[1] \in Rises /\ \A k \in 1 .. Len(t) - 1 : u[k] = t[k + 1]
  BY <1>2, <1>5 DEF u
<1>8. /\ Len(u) > 0 /\ Len(v) = Len(u) - 1
      /\ \A k \in 1 .. Len(u) - 1 : v[k] = u[k + 1]
  BY <1>3, <1>5 DEF v
<1>9. Len(s) > 2 /\ Len(v) = Len(s) - 3 /\ s[2] \in Rises
  BY <1>6, <1>7, <1>8
<1>10. ASSUME NEW k \in 1 .. Len(s) - 3 PROVE v[k] = s[k + 3]
  <2>1. v[k] = u[k + 1] /\ u[k + 1] = t[k + 2] /\ t[k + 2] = s[k + 3]
    BY <1>6, <1>7, <1>8, <1>9
  <2> QED
    BY <2>1
<1>11. DOMAIN v = 1 .. Len(s) - 3 /\ v \in Seq(StepNames)
  BY <1>4, <1>9, LenProperties DEF Steps
<1>12. i = 3
  <2>1. i # 1 /\ i # 2
    BY <1>6, <1>9 DEF Rises
  <2>2. ASSUME i > 3 PROVE FALSE
    <3>1. i - 3 \in 1 .. Len(s) - 3 /\ (i - 3) + 3 = i
      BY <1>6, <2>2
    <3>2. v[i - 3] = "composing"
      BY <1>10, <3>1
    <3> QED
      BY <1>3, <1>11, <3>1, <3>2 DEF Has
  <2> QED
    BY <1>6, <2>1, <2>2
<1> DEFINE w == SubSeq(s, 4, Len(s))
<1>13. /\ w \in Seq(StepNames) /\ Len(w) = Len(s) - 3
       /\ \A k \in 1 .. Len(s) - 3 : w[k] = s[k + 3]
  <2>1. s \in Seq(StepNames) /\ \A k \in 4 .. Len(s) : s[k] \in StepNames
    BY <1>1, <1>6, ElementOfSeq DEF Steps
  <2> QED
    BY <1>6, <1>9, <2>1, SubSeqProperties
<1> HIDE DEF w
<1>14. w = v
  BY <1>9, <1>10, <1>11, <1>13, SeqEqual
<1>15. SubSeq(s, i + 1, Len(s)) = w
  BY <1>12 DEF w
<1> QED
  BY <1>3, <1>14, <1>15

LEMMA CheckTypingKeeps ==
  ASSUME OnlineInv, NEW g \in Goroutines, CheckTyping(g), Recorded
  PROVE  WatchInv'
<1>1. At(g, "typing?") /\ Inside(g) /\ Head(todo[g]) = "typing?"
  BY AtInside, PresenceSet DEF CheckTyping, At
<1>2. UNCHANGED <<on, available, armed, stopped, online>>
  BY DEF CheckTyping, manager, shown
<1>3. /\ todo[g] \in Steps /\ todo[g] # <<>> /\ Tail(todo[g]) \in Rising(Shows(Outside))
      /\ todo[g] \in Types(Outside) /\ todo[g] \in Typed
  BY <1>1, InsideRest DEF Rest, Rises, Types, Typed, After
<1>4. CASE up
  <2>1. todo'[g] = Tail(todo[g])
    BY <1>1, <1>4, InsideRest DEF CheckTyping
  <2>2. todo'[g] \in Words /\ todo'[g] # <<>> /\ Head(todo'[g]) \in Rises
    BY <1>3, <2>1 DEF Words, Typed, Rising, After
  <2>3. Knows(g)'
    BY <1>2, <1>3, <2>2, CalmBefore, WordHeads DEF Knows, At, Rises, OnlineInv, WatchInv
  <2>4. Watched'
    BY <1>1, <1>2, CalmBefore, StillWatched
  <2> QED
    BY <1>1, <1>2, <2>3, <2>4, OnlineEnabled, PresenceKeeps DEF PresenceStep
<1>5. CASE ~up
  <2> DEFINE i == CHOOSE i \in DOMAIN todo[g] : todo[g][i] = "composing"
  <2>1. \E k \in DOMAIN todo[g] : todo[g][k] = "composing"
    <3>1. Has(Tail(todo[g]), {"composing"})
      BY <1>1, <1>3, TailSteps DEF OnlineInv, IndicatorInv, Routines, Script
    <3> QED
      BY <1>3, <3>1, TailSteps DEF Has
  <2>2. i \in DOMAIN todo[g] /\ todo[g][i] = "composing"
    BY <2>1
  <2>3. todo'[g] = SubSeq(todo[g], i + 1, Len(todo[g]))
    BY <1>1, <1>5, InsideRest DEF CheckTyping, SkipTyping
  <2> HIDE DEF i
  <2>4. todo'[g] \in Outside
    BY <1>3, <2>2, <2>3, SkipOutside
  <2>5. Watched'
    BY <1>1, <1>2, CalmBefore, StillWatched
  <2> QED
    BY <1>1, <1>2, <2>4, <2>5, EndKnows, OnlineEnabled, PresenceKeeps DEF PresenceStep
<1> QED
  BY <1>4, <1>5

LEMMA PresenceStepKeeps ==
  ASSUME OnlineInv, NEW g \in Goroutines, PresenceStep(g), ~StopTyping(g), Recorded
  PROVE  WatchInv'
<1>1. CASE Tell(g)
  BY <1>1, TellOnlineKeeps, TellOfflineKeeps DEF Tell
<1> QED
  BY <1>1, CheckRunningKeeps, CheckAwayKeeps, SetAvailableKeeps, SetUnavailableKeeps,
     ResetIdleTimerKeeps, StopIdleTimerKeeps, SetStoppedKeeps, CheckTypingKeeps, ComposeKeeps
     DEF PresenceStep

-----------------------------------------------------------------------------
(* The steps of the sender, of the engine and of handleEvent are outside   *)
(* the methods of the presence manager.                                    *)
LEMMA OwnStepKeeps ==
  ASSUME OnlineInv, NEW g \in Goroutines, Step(g),
         StopTyping(g) \/ (SenderStep(g) /\ UNCHANGED shown) \/ Signal(g) \/ HangUp(g)
  PROVE  WatchInv'
<1>1. todo[g] # <<>> /\ todo[g] \in Steps /\ Head(todo[g]) \notin PresenceSteps
  BY DEF StopTyping, SenderStep, Signal, HangUp, Check, CheckClient, Load, Transmit, Publish,
     SetPresenceConfig, StartEngine, StopBegins, SetState, Backoffs, At, PresenceSteps,
     OnlineInv, IndicatorInv, Routines, Script
<1>2. ~Inside(g) /\ Tail(todo[g]) \in Methods(Outside)
  <2>1. todo[g] \in Words /\ ~Rest(Head(todo[g]), Tail(todo[g]))
    BY <1>1, PresenceSet DEF OnlineInv, WatchInv, Knows, Rest, Rises
  <2>2. todo[g] \in Outside
    BY <2>1, WordRest
  <2> QED
    BY <1>1, <2>2, OutsideClosed DEF Inside, Closed
<1>3. UNCHANGED <<available, stopped, armed>> /\ online' \in {online, FALSE} /\ Recorded
  <2>1. UNCHANGED <<available, stopped, armed>>
    BY DEF StopTyping, SenderStep, Signal, HangUp, Check, CheckClient, Load, Transmit, Publish,
       SetPresenceConfig, StartEngine, StopBegins, SetState, Backoffs, manager
  <2>2. online' \in {online, FALSE}
    BY DEF StopTyping, Signal, TellsPresence, TellsTyping, TellsRead, HangUp, Close, shown
  <2> QED
    BY <2>1, <2>2 DEF Step
<1>4. \/ UNCHANGED on
      \/ Head(todo[g]) = "load" /\ on' = [on EXCEPT ![g] = current]
  BY DEF StopTyping, SenderStep, Signal, HangUp, Check, CheckClient, Load, Transmit, Publish,
     SetPresenceConfig, StartEngine, StopBegins, SetState, Backoffs, At
<1>5. g \in Managers => Head(todo[g]) # "load" /\ on[g] = g
  BY <1>1, TailSteps DEF OnlineInv, WatchInv, Own
<1>6. \A h \in Goroutines \ {g} : on'[h] = on[h]
  BY <1>4 DEF OnlineInv, ManagerInv
<1>7. \E r \in Methods(Outside) : Instead(g, r) /\ (g \in Managers => ~Has(r, {"load"}))
  <2>1. CASE Fails(g)
    <3> DEFINE a == IF Reports(g) THEN <<"failed">> ELSE <<>>
               b == IF stopTyping[g] THEN <<"stop typing">> ELSE <<>>
    <3>1. Instead(g, a \o b) /\ a \in {<<>>, <<"failed">>} /\ b \in {<<>>, <<"stop typing">>}
      BY <2>1 DEF Fails, Fail
    <3> HIDE DEF a, b
    <3>2. a \o b \in Outside
      BY <3>1, FailureOutside
    <3>3. ~Has(a \o b, {"load"})
      <4>1. /\ <<>> \in Steps /\ <<"failed">> \in Steps /\ <<"stop typing">> \in Steps
            /\ ~Has(<<>>, {"load"}) /\ ~Has(<<"failed">>, {"load"})
            /\ ~Has(<<"stop typing">>, {"load"})
        <5>1. "failed" \notin {"load"} /\ "stop typing" \notin {"load"}
          OBVIOUS
        <5> QED
          BY <5>1, EmptySteps, OneStep, AreSteps
      <4>2. a \in Steps /\ b \in Steps /\ ~Has(a, {"load"}) /\ ~Has(b, {"load"})
        BY <3>1, <4>1
      <4> QED
        BY <4>2, ConcatSteps
    <3> QED
      BY <3>1, <3>2, <3>3 DEF Methods
  <2>2. CASE Succeeds(g)
    <3>1. PICK r : Moves(todo[g], r) /\ Instead(g, r)
      BY <2>2 DEF Succeeds
    <3>2. r = Tail(todo[g]) \/ r = <<>>
      BY <1>1, <3>1, PresenceSet DEF Moves
    <3>3. r \in Methods(Outside)
      BY <1>2, <3>2, OutsideClosed DEF Methods
    <3>4. g \in Managers => ~Has(r, {"load"})
      <4>1. {"load"} \cap Fills = {}
        BY DEF Fills
      <4> QED
        BY <1>1, <3>1, <4>1, MoveKeeps DEF OnlineInv, WatchInv, Own
    <3> QED
      BY <3>1, <3>3, <3>4
  <2> QED
    BY <2>1, <2>2, StepTodo DEF OnlineInv, IndicatorInv, Routines
<1> QED
  BY <1>2, <1>3, <1>4, <1>5, <1>6, <1>7, OutsideKeeps

(* The timer of m has run out.  If this was all that watched the account,  *)
(* the callback does now; if it comes in between, it is no longer calm.    *)
LEMMA IdleKeeps ==
  ASSUME OnlineInv, NEW m \in Managers, Idle(m)
  PROVE  WatchInv'
<1>1. /\ armed[m] /\ todo[m] = <<>> /\ Instead(m, IdleCallback) /\ Recorded
      /\ armed' = [armed EXCEPT ![m] = FALSE]
      /\ UNCHANGED <<on, available, stopped, online>>
  BY DEF Idle, IdleTimeout, shown
<1>2. m \in Goroutines /\ on[m] = m
  BY DEF Goroutines, OnlineInv, WatchInv, Own
<1>3. todo'[m] = IdleCallback /\ \A h \in Goroutines : h # m => todo'[h] = todo[h]
  BY <1>1, <1>2 DEF OnlineInv, IndicatorInv, Routines, Instead
<1>4. IdleCallback \in Hiding /\ IdleCallback \in Steps
  <2> DEFINE r == <<"running?">>
             u == <<"set unavailable">>
             e == <<>>
  <2>1. r \in Steps /\ u \in Steps /\ "running?" \in StepNames /\ "set unavailable" \in StepNames
    BY AreSteps, OneStep
  <2>2. IdleCallback = r \o u
    BY <2>1, SplitPair DEF IdleCallback
  <2>3. u \o e = u /\ e \in Outside /\ e \in Steps
    BY <2>1, ConcatEmptySeq, OutsideClosed, EmptySteps DEF Steps
  <2>4. u \o e \in Hides(Outside)
    BY <2>1, <2>3, InAfter DEF Hides
  <2>5. r \o u \in Hiding /\ r \o u \in Steps
    <3>1. u \in Hides(Outside)
      BY <2>3, <2>4
    <3> HIDE DEF u
    <3> QED
      BY <2>1, <3>1, InAfter DEF Hiding
  <2> QED
    BY <2>2, <2>5
<1>5. IdleCallback # <<>> /\ Head(IdleCallback) = "running?"
  BY <1>4, WordHeads, WordsNotEmpty
<1>6. ~Inside(m) /\ Inside(m)'
  BY <1>1, <1>3, <1>5, PresenceSet DEF Inside
<1>7. calm' => calm /\ Alone'
  BY <1>1, Zenon DEF Recorded, Overlap, Alone
<1>8. ASSUME calm', NEW h \in Goroutines PROVE ~Inside(h)
  <2>1. ASSUME h # m PROVE ~Inside(h)'
    BY <1>2, <1>6, <1>7, <1>8, <2>1 DEF Alone
  <2> QED
    BY <1>3, <1>6, <2>1 DEF Inside
<1>9. Own'
  <2>1. ~Has(IdleCallback, {"load"})
    BY PresenceScripts DEF Without
  <2> QED
    BY <1>1, <1>3, <2>1 DEF OnlineInv, WatchInv, Own, Goroutines
<1>10. ASSUME NEW h \in Goroutines PROVE Knows(h)'
  <2>1. CASE h = m
    <3>1. IdleCallback \in Words
      BY <1>4 DEF Words
    <3> QED
      BY <1>3, <1>5, <2>1, <3>1, WordHeads DEF Knows, At, Rises
  <2>2. CASE h # m
    <3>1. todo'[h] = todo[h] /\ Knows(h)
      BY <1>3, <2>2 DEF OnlineInv, WatchInv
    <3>2. calm' => todo[h] \notin Typed
      <4>1. ASSUME todo[h] \in Typed PROVE Inside(h)
        <5>1. todo[h] # <<>> /\ Head(todo[h]) \in Rises \cup {"tell online", "composing", "typing?"}
          BY <4>1, WordsNotEmpty, WordHeads
        <5> QED
          BY <5>1, PresenceSet DEF Inside, Rises
      <4> QED
        BY <1>8, <4>1
    <3> QED
      BY <1>1, <1>7, <3>1, <3>2 DEF Knows, At
  <2> QED
    BY <2>1, <2>2
<1>11. Watched'
  <2> SUFFICES ASSUME calm', online' PROVE Guarded' \/ Watching(m)'
    BY <1>2 DEF Watched
  <2>1. Guarded
    BY <1>1, <1>7, <1>8, WatchingInside DEF OnlineInv, WatchInv, Watched
  <2>2. PICK k \in Managers : available[k] /\ (armed[k] \/ stopped[k])
    BY <2>1 DEF Guarded
  <2>3. CASE k # m
    <3>1. armed'[k] = armed[k]
      BY <1>1, <2>3 DEF OnlineInv, ManagerInv
    <3> QED
      BY <1>1, <2>2, <3>1 DEF Guarded
  <2>4. CASE k = m
    BY <1>1, <1>2, <1>3, <1>4, <2>2, <2>4 DEF Watching
  <2> QED
    BY <2>3, <2>4
<1> QED
  BY <1>1, <1>7, <1>9, <1>10, <1>11, OnlineEnabled DEF WatchInv, Alone

LEMMA WatchInit == Init => WatchInv
<1> SUFFICES ASSUME Init PROVE WatchInv
  OBVIOUS
<1>1. /\ \A g \in Goroutines : todo[g] = <<>>
      /\ \A m \in Managers : on[m] = m
      /\ ~online
  BY DEF Init, PresenceInit, Goroutines
<1>2. <<>> \in Words
  BY OutsideClosed DEF Words, Methods
<1>3. \A g \in Goroutines : Knows(g) /\ ~Inside(g)
  BY <1>1, <1>2, WordsNotEmpty DEF Knows, Inside, At
<1>4. Own
  BY <1>1, EmptySteps DEF Own, Goroutines
<1> QED
  BY <1>1, <1>3, <1>4 DEF WatchInv, Alone, Watched

LEMMA WatchStep == OnlineInv /\ [Next]_vars => WatchInv'
<1> SUFFICES ASSUME OnlineInv, [Next]_vars PROVE WatchInv'
  OBVIOUS
<1>1. ASSUME NEW c \in Callers, Begin(c), Recorded PROVE WatchInv'
  <2>1. PICK o \in Ops : Instead(c, Program[o])
    BY <1>1 DEF Begin
  <2>2. Program[o] \in Methods(Outside)
    BY OpsAssumption, ProgramOutside DEF Methods
  <2>3. ~Inside(c) /\ c \in Goroutines /\ c \notin Managers
    BY <1>1, GoroutinesAssumption DEF Begin, Inside, Goroutines
  <2>4. UNCHANGED <<available, stopped, armed, on, online>>
    BY <1>1 DEF Begin, manager, shown
  <2> QED
    BY <1>1, <2>1, <2>2, <2>3, <2>4, OutsideKeeps
<1>2. ASSUME NEW g \in Goroutines, Step(g) PROVE WatchInv'
  BY <1>2, PresenceStepKeeps, OwnStepKeeps DEF Step
<1>3. ASSUME NEW m \in Managers, Idle(m) PROVE WatchInv'
  BY <1>3, IdleKeeps
<1>4. CASE Whatsmeow
  <2>1. \E k \in Events, h \in Handlers : todo[h] = <<>> /\ Instead(h, Handling[k])
    BY <1>4 DEF Whatsmeow, WaConnected, WaDisconnected, WaLoggedOut, WaStreamReplaced,
       WaPairSuccess, WaKeepAlive, Emit
  <2>2. PICK k \in Events, h \in Handlers : todo[h] = <<>> /\ Instead(h, Handling[k])
    BY <2>1
  <2>3. Handling[k] \in Methods(Outside)
    BY OpsAssumption, HandlingOutside DEF Methods
  <2>4. ~Inside(h) /\ h \in Goroutines /\ h \notin Managers
    BY <2>2, GoroutinesAssumption DEF Inside, Goroutines
  <2>5. UNCHANGED <<available, stopped, armed, on>> /\ online' \in {online, FALSE} /\ Recorded
    BY <1>4 DEF Whatsmeow, WaConnected, WaDisconnected, WaLoggedOut, WaStreamReplaced,
       WaPairSuccess, WaKeepAlive, Close, manager, shown
  <2> QED
    BY <2>2, <2>3, <2>4, <2>5, OutsideKeeps
<1>5. CASE UNCHANGED vars
  BY <1>5 DEF vars, presence, manager, shown, routine, OnlineInv, WatchInv, Own, Alone, Watched,
     Knows, Guarded, Watching, Inside, At
<1> QED
  BY <1>1, <1>2, <1>3, <1>4, <1>5 DEF Next

(* presence.go:13: "After IdleTimeout with no activity -> set Unavailable  *)
(* (go offline)": between the methods of the managers, an account that one *)
(* of them has shown online has a manager that knows it, and whose timer   *)
(* is running unless it has been stopped.  What SendPresence, SetTyping,   *)
(* Stop and a lost connection do to the server in between is allowed for;  *)
(* an account that SendPresence has shown online is not claimed to go      *)
(* offline.                                                                *)
THEOREM OnlineAlwaysWatched == Spec => []OnlineIsWatched
<1>1. Init => OnlineInv
  <2> SUFFICES ASSUME Init PROVE OnlineInv
    OBVIOUS
  <2>1. NetworkInv
    BY DEF Init, PresenceInit, NetworkInv
  <2>2. ManagerInv
    BY DEF Init, PresenceInit, ManagerInv
  <2> QED
    BY <2>1, <2>2, IndicatorInit, WatchInit DEF OnlineInv
<1>2. OnlineInv /\ [Next]_vars => OnlineInv'
  BY IndicatorStep, NetworkStep, ManagerStep, WatchStep DEF OnlineInv
<1>3. OnlineInv => OnlineIsWatched
  BY WatchingInside DEF OnlineInv, WatchInv, Watched, Guarded, OnlineIsWatched, Quiet
<1> QED
  BY <1>1, <1>2, <1>3, PTL DEF Spec

=============================================================================
