---------------------------- MODULE OpenAppProofs ----------------------------
(***************************************************************************)
(* Proofs about OpenApp, for any number of callers, apps, calls and steps  *)
(* of the user, and for devices that are slow to close an app or not.      *)
(***************************************************************************)
EXTENDS OpenApp, SequenceTheorems, TLAPS

\* What a caller was told, and what ran on the device.
NearInv(c) ==
  /\ c \in Active /\ app = "NEAR" => c \in nearRan
  /\ c \notin late =>
       /\ pc[c] = "name_sent" /\ answers[c][1] = NameIs("NEAR") => c \in nearRan
       /\ pc[c] = "open_sent" /\ answers[c][1].status = "ok" => c \in nearRan
       /\ outcome[c] = "ok" => c \in nearRan

\* A call during which the NEAR app stays gets no further than its name.
StayInv(c) ==
  c \in nearStayed \ late =>
    /\ sent[c] \subseteq {"get_app_name"}
    /\ pc[c] \in {"idle", "name", "name_sent"}
    /\ pc[c] # "idle" => app = "NEAR"
    /\ pc[c] = "name_sent" /\ answers[c][1].status = "ok" =>
         answers[c][1].name \in {"NEAR", "malformed"}

\* Where an unhindered call is, the device is as the next step wants it.
ReadyInv(c) ==
  c \notin hindered \cup late =>
    /\ pc[c] # "idle" => ~locked
    /\ pc[c] = "name" => ~closing
    /\ pc[c] = "name_sent" => ~closing /\ answers[c][1] = NameIs(app)
    /\ pc[c] = "quit" => MayQuit
    /\ pc[c] = "quit_sent" => /\ answers[c][1].status = "ok"
                              /\ closing \/ app = "BOLOS"
    /\ pc[c] = "sleep" => (closing /\ c \in covered) \/ app = "BOLOS"
    /\ pc[c] = "open" => slow \/ app = "BOLOS"
    /\ pc[c] = "open_sent" => slow \/ answers[c][1].status = "ok"
    /\ pc[c] = "idle" => slow \/ outcome[c] \in {"none", "ok"}
    /\ pc[c] # "idle" => outcome[c] = "none"

IInv == /\ TypeOK
        /\ \A c \in Callers : NearInv(c) /\ StayInv(c) /\ ReadyInv(c)

\* Where a call is not late, what it gets first is the answer to its command.
LEMMA AnswersStep ==
  ASSUME TypeOK, NEW d \in Callers, NEW a \in Answer, Answers(d, a)
  PROVE  /\ answers' \in [Callers -> Seq(Answer)]
         /\ \A c \in Callers \ {d} : answers'[c] = answers[c] /\ (c \in late' <=> c \in late)
         /\ late' \in SUBSET Callers
         /\ d \notin late' => d \notin late /\ answers'[d][1] = a
<1> DEFINE q == answers[d]
<1>1. q \in Seq(Answer) /\ Len(q) \in Nat
  BY LenProperties DEF TypeOK
<1>2. PICK left \in LeftFor(d) :
        /\ answers' = [answers EXCEPT ![d] = Append(left, a)]
        /\ late' = IF left = <<>> THEN late ELSE late \cup {d}
  BY DEF Answers
<1>3. PICK m \in 1 .. Len(q) + 1, n \in 0 .. Len(q) : left = SubSeq(q, m, n)
  BY DEF LeftFor
<1>4. left \in Seq(Answer)
  <2>1. ASSUME m <= n PROVE left \in Seq(Answer)
    BY <1>1, <1>3, <2>1, SubSeqProperties
  <2>2. ASSUME n < m PROVE left \in Seq(Answer)
    BY <1>1, <1>3, <2>2, SubSeqEmpty
  <2> QED
    BY <1>1, <2>1, <2>2
<1>5. Append(left, a) \in Seq(Answer)
  BY <1>4, AppendProperties
<1>6. left = <<>> => Append(left, a)[1] = a
  OBVIOUS
<1> QED
  BY <1>2, <1>5, <1>6 DEF TypeOK

LEMMA TakesStep ==
  ASSUME TypeOK, NEW d \in Callers, NEW here, Takes(d, here)
  PROVE  /\ pc[d] = here
         /\ answers' \in [Callers -> Seq(Answer)]
         /\ \A c \in Callers \ {d} : answers'[c] = answers[c]
         /\ FirstAnswer(d) = answers[d][1] /\ answers[d][1] \in Answer
<1>1. answers[d] \in Seq(Answer) /\ answers[d] # <<>>
  BY DEF TypeOK, Takes
<1>2. /\ Tail(answers[d]) \in Seq(Answer)
      /\ Head(answers[d]) \in Answer /\ Head(answers[d]) = answers[d][1]
  BY <1>1, HeadTailProperties
<1> QED
  BY <1>2 DEF TypeOK, Takes, FirstAnswer

\* What the device may answer.
LEMMA AnswerType ==
  ASSUME TypeOK
  PROVE  /\ NameIs(app) \in Answer /\ NameIs("malformed") \in Answer
         /\ Status("ok") \in Answer /\ Status("error") \in Answer
         /\ Status("ok").status = "ok" /\ Status("error").status = "error"
BY DEF TypeOK, Answer, NameIs, Status

LEMMA InitIInv == Init => IInv
<1> SUFFICES ASSUME Init PROVE IInv
  OBVIOUS
<1>1. TypeOK
  <2>1. pc \in [Callers -> Places] /\ outcome \in [Callers -> Outcomes]
    BY DEF Init, Places, Outcomes
  <2>2. answers \in [Callers -> Seq(Answer)]
    BY EmptySeq DEF Init
  <2>3. calls \in 0 .. MaxCalls /\ userSteps \in 0 .. MaxUserSteps
    BY BoundsAssumption DEF Init
  <2>4. sent \in [Callers -> SUBSET Commands]
    BY DEF Init
  <2> QED
    BY <2>1, <2>2, <2>3, <2>4 DEF Init, TypeOK
<1>2. ASSUME NEW c \in Callers PROVE NearInv(c) /\ StayInv(c) /\ ReadyInv(c)
  BY DEF Init, NearInv, StayInv, ReadyInv, Active
<1> QED
  BY <1>1, <1>2 DEF IInv

LEMMA OpenNearApplicationStep ==
  ASSUME IInv, NEW d \in Callers, OpenNearApplication(d)
  PROVE  IInv'
<1> USE DEF OpenNearApplication, deviceVars
<1>1. TypeOK'
  <2>1. pc' \in [Callers -> Places] /\ outcome' \in [Callers -> Outcomes]
    BY DEF IInv, TypeOK, Places, Outcomes
  <2>2. answers' \in [Callers -> Seq(Answer)]
    BY DEF IInv, TypeOK
  <2>3. /\ app' \in Apps
        /\ closing' \in BOOLEAN /\ (closing' => app' # "BOLOS")
        /\ locked' \in BOOLEAN /\ slow' \in BOOLEAN
        /\ covered' \in SUBSET Callers /\ (covered' # {} => closing')
    BY DEF IInv, TypeOK, Apps
  <2>4. calls' \in 0 .. MaxCalls /\ userSteps' \in 0 .. MaxUserSteps
    BY BoundsAssumption DEF IInv, TypeOK
  <2>5. /\ sent' \in [Callers -> SUBSET Commands]
        /\ nearRan' \in SUBSET Callers
        /\ nearStayed' \in SUBSET Callers
        /\ hindered' \in SUBSET Callers
        /\ late' \in SUBSET Callers
    BY DEF IInv, TypeOK, Commands, Active
  <2> QED
    BY <2>1, <2>2, <2>3, <2>4, <2>5 DEF TypeOK
<1>2. ASSUME NEW c \in Callers PROVE NearInv(c)'
  BY DEF IInv, TypeOK, NearInv, Active, NameIs
<1>3. ASSUME NEW c \in Callers PROVE StayInv(c)'
  BY DEF IInv, TypeOK, StayInv, Active
<1>4. ASSUME NEW c \in Callers PROVE ReadyInv(c)'
  BY DEF IInv, TypeOK, ReadyInv, Active, NameIs, MayQuit
<1> QED
  BY <1>1, <1>2, <1>3, <1>4 DEF IInv

LEMMA AskNameStep ==
  ASSUME IInv, NEW d \in Callers, AskName(d)
  PROVE  IInv'
<1>0. PICK a \in Answer :
        /\ Answers(d, a)
        /\ \/ ~locked /\ a = NameIs(app) /\ UNCHANGED hindered
           \/ /\ a = NameIs("malformed") \/ a.status = "error"
              /\ hindered' = hindered \cup {d}
  BY AnswerType DEF IInv, AskName, GetAppName, Hinder
<1>01. /\ pc[d] = "name" /\ pc' = [pc EXCEPT ![d] = "name_sent"]
      /\ sent' = [sent EXCEPT ![d] = @ \cup {"get_app_name"}]
      /\ KeepsRunning
      /\ UNCHANGED <<outcome, calls, locked, slow, userSteps>>
  BY DEF AskName, Exchange, GetAppName
<1>02. answers' \in [Callers -> Seq(Answer)] /\ late' \in SUBSET Callers
  BY <1>0, AnswersStep DEF IInv
<1>05. \A c \in Callers \ {d} : answers'[c] = answers[c] /\ (c \in late' <=> c \in late)
  BY <1>0, AnswersStep DEF IInv
<1>06. d \notin late' => d \notin late /\ answers'[d][1] = a
  BY <1>0, AnswersStep DEF IInv
<1>07. hindered \subseteq hindered' /\ hindered' \subseteq Callers
       /\ (d \notin hindered' => a = NameIs(app) /\ ~locked)
  BY <1>0 DEF IInv, TypeOK
<1>08. a \in {NameIs(app), NameIs("malformed")} \/ a.status = "error"
  BY <1>0
<1> USE DEF KeepsRunning, NameIs, Status
<1>1. TypeOK'
  <2>1. pc' \in [Callers -> Places] /\ outcome' \in [Callers -> Outcomes]
    BY <1>01 DEF IInv, TypeOK, Places, Outcomes
  <2>2. answers' \in [Callers -> Seq(Answer)]
    BY <1>02
  <2>3. /\ app' \in Apps
        /\ closing' \in BOOLEAN /\ (closing' => app' # "BOLOS")
        /\ locked' \in BOOLEAN /\ slow' \in BOOLEAN
        /\ covered' \in SUBSET Callers /\ (covered' # {} => closing')
    BY <1>01 DEF IInv, TypeOK, Apps
  <2>4. calls' \in 0 .. MaxCalls /\ userSteps' \in 0 .. MaxUserSteps
    BY <1>01, BoundsAssumption DEF IInv, TypeOK
  <2>5. /\ sent' \in [Callers -> SUBSET Commands]
        /\ nearRan' \in SUBSET Callers
        /\ nearStayed' \in SUBSET Callers
        /\ hindered' \in SUBSET Callers
        /\ late' \in SUBSET Callers
    <3>1. sent' \in [Callers -> SUBSET Commands]
      BY <1>01 DEF IInv, TypeOK, Commands
    <3>2. nearRan' = nearRan /\ nearStayed' = nearStayed
      BY <1>01
    <3> QED
      BY <1>02, <1>07, <3>1, <3>2 DEF IInv, TypeOK
  <2> QED
    BY <2>1, <2>2, <2>3, <2>4, <2>5 DEF TypeOK
<1>03. /\ pc'[d] = "name_sent" /\ outcome' = outcome
       /\ d \in Active /\ Active' = Active
       /\ sent'[d] = sent[d] \cup {"get_app_name"}
       /\ \A c \in Callers \ {d} : pc'[c] = pc[c] /\ sent'[c] = sent[c]
  BY <1>01 DEF IInv, TypeOK, Active
<1>04. app' = app /\ closing' = closing /\ covered' = covered /\ locked' = locked
       /\ nearRan' = nearRan /\ nearStayed' = nearStayed /\ slow' = slow
  BY <1>01
<1>2. ASSUME NEW c \in Callers PROVE NearInv(c)'
  <2>1. CASE c # d
    BY <1>05, <1>03, <1>04, <2>1 DEF IInv, NearInv
  <2>2. CASE c = d
    <3>1. a = NameIs("NEAR") => d \in nearRan
      BY <1>08, <1>03 DEF IInv, NearInv
    <3>2. NearInv(d)
      BY DEF IInv
    <3> QED
      BY <1>06, <1>03, <1>04, <2>2, <3>1, <3>2 DEF NearInv
  <2> QED
    BY <2>1, <2>2
<1>3. ASSUME NEW c \in Callers PROVE StayInv(c)'
  <2>1. CASE c # d
    BY <1>05, <1>03, <1>04, <2>1 DEF IInv, StayInv
  <2>2. CASE c = d
    <3>1. d \notin late' /\ d \in nearStayed => app = "NEAR" /\ sent[d] \subseteq {"get_app_name"}
      BY <1>01, <1>06 DEF IInv, StayInv
    <3>2. app = "NEAR" /\ a.status = "ok" => a.name \in {"NEAR", "malformed"}
      BY <1>08
    <3> QED
      BY <1>06, <1>03, <1>04, <2>2, <3>1, <3>2 DEF StayInv
  <2> QED
    BY <2>1, <2>2
<1>4. ASSUME NEW c \in Callers PROVE ReadyInv(c)'
  <2>1. CASE c # d
    BY <1>05, <1>03, <1>04, <1>07, <2>1 DEF IInv, ReadyInv, MayQuit
  <2>2. CASE c = d
    <3>1. d \notin hindered \cup late => ~closing /\ outcome[d] = "none"
      BY <1>01 DEF IInv, ReadyInv
    <3> QED
      BY <1>06, <1>03, <1>04, <1>07, <2>2, <3>1 DEF ReadyInv
  <2> QED
    BY <2>1, <2>2
<1> QED
  BY <1>1, <1>2, <1>3, <1>4 DEF IInv

LEMMA AskQuitStep ==
  ASSUME IInv, NEW d \in Callers, AskQuit(d)
  PROVE  IInv'
<1>0. PICK a \in Answer :
        /\ Answers(d, a)
        /\ \/ /\ MayQuit /\ a.status = "ok" /\ closing' = TRUE
              /\ hindered' = hindered \cup (Active \ {d})
              /\ UNCHANGED <<app, covered, nearRan, nearStayed>>
           \/ /\ ~MayQuit /\ a.status = "ok"
              /\ UNCHANGED hindered /\ KeepsRunning
           \/ /\ a.status = "error"
              /\ hindered' = hindered \cup (IF MayQuit THEN {d} ELSE {})
              /\ KeepsRunning
  BY AnswerType DEF IInv, AskQuit, QuitApp, Hinder
<1>01. /\ pc[d] = "quit" /\ pc' = [pc EXCEPT ![d] = "quit_sent"]
      /\ sent' = [sent EXCEPT ![d] = @ \cup {"quit_app"}]
      /\ UNCHANGED <<outcome, calls, locked, slow, userSteps>>
  BY DEF AskQuit, Exchange
<1>02. answers' \in [Callers -> Seq(Answer)] /\ late' \in SUBSET Callers
  BY <1>0, AnswersStep DEF IInv
<1>03. /\ pc'[d] = "quit_sent" /\ outcome' = outcome /\ locked' = locked /\ slow' = slow
       /\ d \in Active /\ Active' = Active
       /\ \A c \in Callers \ {d} : pc'[c] = pc[c] /\ sent'[c] = sent[c]
  BY <1>01 DEF IInv, TypeOK, Active
<1>05. \A c \in Callers \ {d} : answers'[c] = answers[c] /\ (c \in late' <=> c \in late)
  BY <1>0, AnswersStep DEF IInv
<1>06. d \notin late' => d \notin late /\ answers'[d][1] = a
  BY <1>0, AnswersStep DEF IInv
<1>04. /\ app' = app /\ covered' = covered
       /\ nearRan' = nearRan /\ nearStayed' = nearStayed
  BY <1>0 DEF KeepsRunning
<1>07. hindered \subseteq hindered' /\ hindered' \subseteq Callers
  BY <1>0 DEF IInv, TypeOK, Active
<1>08. closing' = closing \/ (closing' /\ Active \ {d} \subseteq hindered')
  BY <1>0 DEF KeepsRunning
<1>09. MayQuit /\ d \notin hindered' => a.status = "ok" /\ closing'
  BY <1>0
<1> USE DEF MayQuit, KeepsRunning
<1>1. TypeOK'
  <2>1. pc' \in [Callers -> Places] /\ outcome' \in [Callers -> Outcomes]
    BY <1>01 DEF IInv, TypeOK, Places, Outcomes
  <2>2. answers' \in [Callers -> Seq(Answer)]
    BY <1>02
  <2>3. /\ app' \in Apps
        /\ closing' \in BOOLEAN /\ (closing' => app' # "BOLOS")
        /\ locked' \in BOOLEAN /\ slow' \in BOOLEAN
        /\ covered' \in SUBSET Callers /\ (covered' # {} => closing')
    <3>1. app' \in Apps
      BY <1>0, <1>01, <1>02 DEF IInv, TypeOK, Apps
    <3>2. closing' \in BOOLEAN
      BY <1>0, <1>01, <1>02 DEF IInv, TypeOK
    <3>3. closing' => app' # "BOLOS"
      BY <1>0, <1>01, <1>02 DEF IInv, TypeOK
    <3>4. locked' \in BOOLEAN /\ slow' \in BOOLEAN
      BY <1>0, <1>01, <1>02 DEF IInv, TypeOK
    <3>5. covered' \in SUBSET Callers
      BY <1>0, <1>01, <1>02 DEF IInv, TypeOK
    <3>6. covered' # {} => closing'
      BY <1>0, <1>01, <1>02 DEF IInv, TypeOK
    <3> QED
      BY <3>1, <3>2, <3>3, <3>4, <3>5, <3>6
  <2>4. calls' \in 0 .. MaxCalls /\ userSteps' \in 0 .. MaxUserSteps
    BY <1>01, BoundsAssumption DEF IInv, TypeOK
  <2>5. /\ sent' \in [Callers -> SUBSET Commands]
        /\ nearRan' \in SUBSET Callers
        /\ nearStayed' \in SUBSET Callers
        /\ hindered' \in SUBSET Callers
        /\ late' \in SUBSET Callers
    <3>1. sent' \in [Callers -> SUBSET Commands]
      BY <1>01 DEF IInv, TypeOK, Commands
    <3> QED
      BY <1>02, <1>04, <1>07, <3>1 DEF IInv, TypeOK, Active
  <2> QED
    BY <2>1, <2>2, <2>3, <2>4, <2>5 DEF TypeOK
<1>2. ASSUME NEW c \in Callers PROVE NearInv(c)'
  <2>1. CASE c # d
    BY <1>03, <1>04, <1>05, <2>1 DEF IInv, NearInv
  <2>2. CASE c = d
    BY <1>03, <1>04, <1>06, <2>2 DEF IInv, NearInv
  <2> QED
    BY <2>1, <2>2
<1>3. ASSUME NEW c \in Callers PROVE StayInv(c)'
  <2>1. CASE c # d
    BY <1>03, <1>04, <1>05, <2>1 DEF IInv, StayInv
  <2>2. CASE c = d
    BY <1>01, <1>04, <1>06, <2>2 DEF IInv, StayInv
  <2> QED
    BY <2>1, <2>2
<1>4. ASSUME NEW c \in Callers PROVE ReadyInv(c)'
  <2>1. CASE c # d /\ c \notin Active
    BY <1>03, <1>05, <1>07, <2>1 DEF IInv, ReadyInv, Active
  <2>2. CASE c # d /\ c \in Active
    BY <1>03, <1>04, <1>05, <1>07, <1>08, <2>2 DEF IInv, ReadyInv, MayQuit
  <2>3. CASE c = d
    <3>1. d \notin hindered \cup late => MayQuit /\ outcome[d] = "none"
      BY <1>01 DEF IInv, ReadyInv
    <3>2. MayQuit => ~locked
      BY DEF MayQuit
    <3> QED
      BY <1>03, <1>06, <1>07, <1>09, <2>3, <3>1, <3>2 DEF ReadyInv
  <2> QED
    BY <2>1, <2>2, <2>3
<1> QED
  BY <1>1, <1>2, <1>3, <1>4 DEF IInv

LEMMA AskOpenStep ==
  ASSUME IInv, NEW d \in Callers, AskOpen(d)
  PROVE  IInv'
<1>0. PICK a \in Answer :
        /\ Answers(d, a)
        /\ \/ /\ MayOpen /\ a.status = "ok" /\ Runs("NEAR")
              /\ hindered' = hindered \cup (Active \ {d})
           \/ /\ a.status = "error"
              /\ hindered' = hindered \cup (IF MayOpen THEN {d} ELSE {})
              /\ KeepsRunning
  BY AnswerType DEF IInv, AskOpen, OpenNear, Hinder
<1>01. /\ pc[d] = "open" /\ pc' = [pc EXCEPT ![d] = "open_sent"]
      /\ sent' = [sent EXCEPT ![d] = @ \cup {"open_app"}]
      /\ UNCHANGED <<outcome, calls, locked, slow, userSteps>>
  BY DEF AskOpen, Exchange
<1>02. answers' \in [Callers -> Seq(Answer)] /\ late' \in SUBSET Callers
  BY <1>0, AnswersStep DEF IInv
<1>03. /\ pc'[d] = "open_sent" /\ outcome' = outcome /\ locked' = locked /\ slow' = slow
       /\ d \in Active /\ Active' = Active
       /\ \A c \in Callers \ {d} : pc'[c] = pc[c] /\ sent'[c] = sent[c]
  BY <1>01 DEF IInv, TypeOK, Active
<1>05. \A c \in Callers \ {d} : answers'[c] = answers[c] /\ (c \in late' <=> c \in late)
  BY <1>0, AnswersStep DEF IInv
<1>06. d \notin late' => d \notin late /\ answers'[d][1] = a
  BY <1>0, AnswersStep DEF IInv
<1>04. /\ nearStayed' = nearStayed
       /\ nearRan \subseteq nearRan' /\ nearRan' \subseteq nearRan \cup Active
  BY <1>0 DEF Runs, KeepsRunning
<1>07. hindered \subseteq hindered' /\ hindered' \subseteq Callers
  BY <1>0 DEF IInv, TypeOK, Active
<1>08. \/ /\ app = "BOLOS" /\ Active \subseteq nearRan'
          /\ a.status = "ok" /\ Active \ {d} \subseteq hindered'
       \/ /\ app' = app /\ closing' = closing /\ covered' = covered
          /\ nearRan' = nearRan /\ a.status = "error"
  BY <1>0 DEF Runs, KeepsRunning, MayOpen
<1>09. MayOpen /\ d \notin hindered' => a.status = "ok"
  BY <1>0
<1> USE DEF MayOpen, Runs, KeepsRunning
<1>1. TypeOK'
  <2>1. pc' \in [Callers -> Places] /\ outcome' \in [Callers -> Outcomes]
    BY <1>01 DEF IInv, TypeOK, Places, Outcomes
  <2>2. answers' \in [Callers -> Seq(Answer)]
    BY <1>02
  <2>3. /\ app' \in Apps
        /\ closing' \in BOOLEAN /\ (closing' => app' # "BOLOS")
        /\ locked' \in BOOLEAN /\ slow' \in BOOLEAN
        /\ covered' \in SUBSET Callers /\ (covered' # {} => closing')
    <3>1. app' \in Apps
      BY <1>0, <1>01, <1>02 DEF IInv, TypeOK, Apps
    <3>2. closing' \in BOOLEAN
      BY <1>0, <1>01, <1>02 DEF IInv, TypeOK
    <3>3. closing' => app' # "BOLOS"
      BY <1>0, <1>01, <1>02 DEF IInv, TypeOK
    <3>4. locked' \in BOOLEAN /\ slow' \in BOOLEAN
      BY <1>0, <1>01, <1>02 DEF IInv, TypeOK
    <3>5. covered' \in SUBSET Callers
      BY <1>0, <1>01, <1>02 DEF IInv, TypeOK
    <3>6. covered' # {} => closing'
      BY <1>0, <1>01, <1>02 DEF IInv, TypeOK
    <3> QED
      BY <3>1, <3>2, <3>3, <3>4, <3>5, <3>6
  <2>4. calls' \in 0 .. MaxCalls /\ userSteps' \in 0 .. MaxUserSteps
    BY <1>01, BoundsAssumption DEF IInv, TypeOK
  <2>5. /\ sent' \in [Callers -> SUBSET Commands]
        /\ nearRan' \in SUBSET Callers
        /\ nearStayed' \in SUBSET Callers
        /\ hindered' \in SUBSET Callers
        /\ late' \in SUBSET Callers
    <3>1. sent' \in [Callers -> SUBSET Commands]
      BY <1>01 DEF IInv, TypeOK, Commands
    <3> QED
      BY <1>02, <1>04, <1>07, <3>1 DEF IInv, TypeOK, Active
  <2> QED
    BY <2>1, <2>2, <2>3, <2>4, <2>5 DEF TypeOK
<1>2. ASSUME NEW c \in Callers PROVE NearInv(c)'
  <2>1. CASE c # d
    BY <1>03, <1>04, <1>05, <1>08, <2>1 DEF IInv, NearInv
  <2>2. CASE c = d
    BY <1>03, <1>04, <1>06, <1>08, <2>2 DEF IInv, NearInv
  <2> QED
    BY <2>1, <2>2
<1>3. ASSUME NEW c \in Callers PROVE StayInv(c)'
  <2>1. CASE c # d
    BY <1>03, <1>04, <1>05, <1>08, <2>1 DEF IInv, StayInv
  <2>2. CASE c = d
    BY <1>01, <1>04, <1>06, <2>2 DEF IInv, StayInv
  <2> QED
    BY <2>1, <2>2
<1>4. ASSUME NEW c \in Callers PROVE ReadyInv(c)'
  <2>1. CASE c # d /\ c \notin Active
    BY <1>03, <1>05, <1>07, <2>1 DEF IInv, ReadyInv, Active
  <2>2. CASE c # d /\ c \in Active
    BY <1>03, <1>05, <1>07, <1>08, <2>2 DEF IInv, ReadyInv, MayQuit
  <2>3. CASE c = d
    <3>1. d \notin hindered \cup late =>
            /\ ~locked /\ outcome[d] = "none"
            /\ slow \/ app = "BOLOS"
      BY <1>01 DEF IInv, ReadyInv
    <3> QED
      BY <1>03, <1>06, <1>07, <1>09, <2>3, <3>1 DEF ReadyInv, MayOpen
  <2> QED
    BY <2>1, <2>2, <2>3
<1> QED
  BY <1>1, <1>2, <1>3, <1>4 DEF IInv

LEMMA TransportFailsStep ==
  ASSUME IInv, NEW d \in Callers, TransportFails(d)
  PROVE  IInv'
<1> USE DEF TransportFails, Return, Hinder, deviceVars
<1>1. TypeOK'
  <2>1. pc' \in [Callers -> Places] /\ outcome' \in [Callers -> Outcomes]
    BY DEF IInv, TypeOK, Places, Outcomes
  <2>2. answers' \in [Callers -> Seq(Answer)]
    BY DEF IInv, TypeOK
  <2>3. /\ app' \in Apps
        /\ closing' \in BOOLEAN /\ (closing' => app' # "BOLOS")
        /\ locked' \in BOOLEAN /\ slow' \in BOOLEAN
        /\ covered' \in SUBSET Callers /\ (covered' # {} => closing')
    BY DEF IInv, TypeOK, Apps
  <2>4. calls' \in 0 .. MaxCalls /\ userSteps' \in 0 .. MaxUserSteps
    BY BoundsAssumption DEF IInv, TypeOK
  <2>5. /\ sent' \in [Callers -> SUBSET Commands]
        /\ nearRan' \in SUBSET Callers
        /\ nearStayed' \in SUBSET Callers
        /\ hindered' \in SUBSET Callers
        /\ late' \in SUBSET Callers
    BY DEF IInv, TypeOK, Commands, Active
  <2> QED
    BY <2>1, <2>2, <2>3, <2>4, <2>5 DEF TypeOK
<1>2. ASSUME NEW c \in Callers PROVE NearInv(c)'
  BY DEF IInv, TypeOK, NearInv, Active, NameIs
<1>3. ASSUME NEW c \in Callers PROVE StayInv(c)'
  BY DEF IInv, TypeOK, StayInv, Active
<1>4. ASSUME NEW c \in Callers PROVE ReadyInv(c)'
  BY DEF IInv, TypeOK, ReadyInv, Active, NameIs, MayQuit
<1> QED
  BY <1>1, <1>2, <1>3, <1>4 DEF IInv

LEMMA ReceiveNameStep ==
  ASSUME IInv, NEW d \in Callers, ReceiveName(d)
  PROVE  IInv'
<1> USE DEF ReceiveName, AfterName, Return, GoOn, deviceVars, history
<1>0. /\ pc[d] = "name_sent"
      /\ answers' \in [Callers -> Seq(Answer)]
      /\ \A c \in Callers \ {d} : answers'[c] = answers[c]
      /\ FirstAnswer(d) = answers[d][1] /\ answers[d][1] \in Answer
  BY TakesStep DEF IInv
<1>1. TypeOK'
  <2>1. pc' \in [Callers -> Places] /\ outcome' \in [Callers -> Outcomes]
    BY <1>0 DEF IInv, TypeOK, Places, Outcomes
  <2>2. answers' \in [Callers -> Seq(Answer)]
    BY <1>0 DEF IInv, TypeOK
  <2>3. /\ app' \in Apps
        /\ closing' \in BOOLEAN /\ (closing' => app' # "BOLOS")
        /\ locked' \in BOOLEAN /\ slow' \in BOOLEAN
        /\ covered' \in SUBSET Callers /\ (covered' # {} => closing')
    BY <1>0 DEF IInv, TypeOK, Apps
  <2>4. calls' \in 0 .. MaxCalls /\ userSteps' \in 0 .. MaxUserSteps
    BY BoundsAssumption DEF IInv, TypeOK
  <2>5. /\ sent' \in [Callers -> SUBSET Commands]
        /\ nearRan' \in SUBSET Callers
        /\ nearStayed' \in SUBSET Callers
        /\ hindered' \in SUBSET Callers
        /\ late' \in SUBSET Callers
    BY <1>0 DEF IInv, TypeOK, Commands, Active
  <2> QED
    BY <2>1, <2>2, <2>3, <2>4, <2>5 DEF TypeOK
<1>a. /\ \A c \in Callers \ {d} : pc'[c] = pc[c] /\ outcome'[c] = outcome[c]
      /\ app' = app /\ closing' = closing /\ locked' = locked /\ slow' = slow
      /\ covered' \subseteq covered /\ covered \subseteq covered' \cup {d}
      /\ sent' = sent /\ nearRan' = nearRan /\ nearStayed' = nearStayed
      /\ hindered' = hindered /\ late' = late
  BY DEF IInv, TypeOK
<1>b. /\ d \in Active /\ pc'[d] \in {"idle", "open", "quit"}
      /\ pc'[d] # "idle" => outcome'[d] = outcome[d]
  BY <1>0 DEF IInv, TypeOK, Active
<1>c. pc'[d] = "idle" /\ outcome'[d] = "ok" =>
        answers[d][1].status = "ok" /\ answers[d][1].name = "NEAR"
  BY <1>0 DEF IInv, TypeOK
<1>d. pc'[d] # "idle" => /\ answers[d][1].status = "ok"
                         /\ answers[d][1].name \notin {"NEAR", "malformed"}
  BY <1>0, OtherAppsAssumption DEF IInv, TypeOK, Apps
<1>e. answers[d][1].status = "ok" /\ answers[d][1].name = "NEAR" =>
        answers[d][1] = NameIs("NEAR")
  BY <1>0 DEF Answer, NameIs
<1>2. ASSUME NEW c \in Callers PROVE NearInv(c)'
  <2>1. CASE c # d
    BY <1>0, <1>a, <2>1 DEF IInv, NearInv, Active
  <2>2. CASE c = d
    <3>1. d \notin late /\ outcome'[d] = "ok" => d \in nearRan
      BY <1>0, <1>b, <1>c, <1>e DEF IInv, NearInv
    <3>2. d \in Active => (app = "NEAR" => d \in nearRan)
      BY DEF IInv, NearInv
    <3> QED
      BY <1>a, <1>b, <2>2, <3>1, <3>2 DEF NearInv
  <2> QED
    BY <2>1, <2>2
<1>3. ASSUME NEW c \in Callers PROVE StayInv(c)'
  <2>1. CASE c # d
    BY <1>0, <1>a, <2>1 DEF IInv, StayInv
  <2>2. CASE c = d
    BY <1>0, <1>a, <1>b, <1>d, <2>2 DEF IInv, StayInv
  <2> QED
    BY <2>1, <2>2
<1>4. ASSUME NEW c \in Callers, c \notin hindered' \cup late' PROVE ReadyInv(c)'
  <2>1. CASE c = d
    <3>1. /\ answers[d][1] = NameIs(app) /\ ~closing /\ ~locked
          /\ outcome[d] = "none"
      BY <1>0, <1>4, <1>a, <2>1 DEF IInv, ReadyInv
    <3>2. answers[d][1].status = "ok" /\ answers[d][1].name = app /\ app \in Apps
      BY <3>1 DEF NameIs, IInv, TypeOK
    <3>3. app = "NEAR" => pc'[d] = "idle" /\ outcome'[d] = "ok"
      BY <1>0, <3>2 DEF IInv, TypeOK
    <3>4. app = "BOLOS" => pc'[d] = "open" /\ outcome'[d] = "none"
      BY <1>0, <3>1, <3>2 DEF IInv, TypeOK
    <3>5. app \notin {"NEAR", "BOLOS"} => pc'[d] = "quit" /\ outcome'[d] = "none"
      BY <1>0, <3>1, <3>2 DEF IInv, TypeOK
    <3> QED
      BY <1>a, <2>1, <3>1, <3>3, <3>4, <3>5 DEF ReadyInv, MayQuit
  <2>2. CASE c # d
    BY <1>0, <1>4, <1>a, <2>2 DEF IInv, ReadyInv, MayQuit
  <2> QED
    BY <2>1, <2>2
<1> QED
  BY <1>1, <1>2, <1>3, <1>4 DEF IInv, ReadyInv

LEMMA ReceiveQuitStep ==
  ASSUME IInv, NEW d \in Callers, ReceiveQuit(d)
  PROVE  IInv'
<1> USE DEF ReceiveQuit, Return, GoOn, deviceVars, history
<1>0. /\ pc[d] = "quit_sent"
      /\ answers' \in [Callers -> Seq(Answer)]
      /\ \A c \in Callers \ {d} : answers'[c] = answers[c]
      /\ FirstAnswer(d) = answers[d][1] /\ answers[d][1] \in Answer
  BY TakesStep DEF IInv
<1>1. TypeOK'
  <2>1. pc' \in [Callers -> Places] /\ outcome' \in [Callers -> Outcomes]
    BY <1>0 DEF IInv, TypeOK, Places, Outcomes
  <2>2. answers' \in [Callers -> Seq(Answer)]
    BY <1>0 DEF IInv, TypeOK
  <2>3. /\ app' \in Apps
        /\ closing' \in BOOLEAN /\ (closing' => app' # "BOLOS")
        /\ locked' \in BOOLEAN /\ slow' \in BOOLEAN
        /\ covered' \in SUBSET Callers /\ (covered' # {} => closing')
    BY <1>0 DEF IInv, TypeOK, Apps
  <2>4. calls' \in 0 .. MaxCalls /\ userSteps' \in 0 .. MaxUserSteps
    BY BoundsAssumption DEF IInv, TypeOK
  <2>5. /\ sent' \in [Callers -> SUBSET Commands]
        /\ nearRan' \in SUBSET Callers
        /\ nearStayed' \in SUBSET Callers
        /\ hindered' \in SUBSET Callers
        /\ late' \in SUBSET Callers
    BY <1>0 DEF IInv, TypeOK, Commands, Active
  <2> QED
    BY <2>1, <2>2, <2>3, <2>4, <2>5 DEF TypeOK
<1>2. ASSUME NEW c \in Callers PROVE NearInv(c)'
  BY <1>0 DEF IInv, TypeOK, NearInv, Active, NameIs
<1>3. ASSUME NEW c \in Callers PROVE StayInv(c)'
  BY <1>0 DEF IInv, TypeOK, StayInv, Active
<1>4. ASSUME NEW c \in Callers PROVE ReadyInv(c)'
  BY <1>0 DEF IInv, TypeOK, ReadyInv, Active, NameIs, MayQuit
<1> QED
  BY <1>1, <1>2, <1>3, <1>4 DEF IInv

LEMMA WakeStep ==
  ASSUME IInv, NEW d \in Callers, Wake(d)
  PROVE  IInv'
<1> USE DEF Wake, GoOn, deviceVars, history
<1>1. TypeOK'
  <2>1. pc' \in [Callers -> Places] /\ outcome' \in [Callers -> Outcomes]
    BY DEF IInv, TypeOK, Places, Outcomes
  <2>2. answers' \in [Callers -> Seq(Answer)]
    BY DEF IInv, TypeOK
  <2>3. /\ app' \in Apps
        /\ closing' \in BOOLEAN /\ (closing' => app' # "BOLOS")
        /\ locked' \in BOOLEAN /\ slow' \in BOOLEAN
        /\ covered' \in SUBSET Callers /\ (covered' # {} => closing')
    BY DEF IInv, TypeOK, Apps
  <2>4. calls' \in 0 .. MaxCalls /\ userSteps' \in 0 .. MaxUserSteps
    BY BoundsAssumption DEF IInv, TypeOK
  <2>5. /\ sent' \in [Callers -> SUBSET Commands]
        /\ nearRan' \in SUBSET Callers
        /\ nearStayed' \in SUBSET Callers
        /\ hindered' \in SUBSET Callers
        /\ late' \in SUBSET Callers
    BY DEF IInv, TypeOK, Commands, Active
  <2> QED
    BY <2>1, <2>2, <2>3, <2>4, <2>5 DEF TypeOK
<1>2. ASSUME NEW c \in Callers PROVE NearInv(c)'
  BY DEF IInv, TypeOK, NearInv, Active, NameIs
<1>3. ASSUME NEW c \in Callers PROVE StayInv(c)'
  BY DEF IInv, TypeOK, StayInv, Active
<1>4. ASSUME NEW c \in Callers PROVE ReadyInv(c)'
  BY DEF IInv, TypeOK, ReadyInv, Active, NameIs, MayQuit
<1> QED
  BY <1>1, <1>2, <1>3, <1>4 DEF IInv

LEMMA ReceiveOpenStep ==
  ASSUME IInv, NEW d \in Callers, ReceiveOpen(d)
  PROVE  IInv'
<1> USE DEF ReceiveOpen, Return, deviceVars, history
<1>0. /\ pc[d] = "open_sent"
      /\ answers' \in [Callers -> Seq(Answer)]
      /\ \A c \in Callers \ {d} : answers'[c] = answers[c]
      /\ FirstAnswer(d) = answers[d][1] /\ answers[d][1] \in Answer
  BY TakesStep DEF IInv
<1>1. TypeOK'
  <2>1. pc' \in [Callers -> Places] /\ outcome' \in [Callers -> Outcomes]
    BY <1>0 DEF IInv, TypeOK, Places, Outcomes
  <2>2. answers' \in [Callers -> Seq(Answer)]
    BY <1>0 DEF IInv, TypeOK
  <2>3. /\ app' \in Apps
        /\ closing' \in BOOLEAN /\ (closing' => app' # "BOLOS")
        /\ locked' \in BOOLEAN /\ slow' \in BOOLEAN
        /\ covered' \in SUBSET Callers /\ (covered' # {} => closing')
    BY <1>0 DEF IInv, TypeOK, Apps
  <2>4. calls' \in 0 .. MaxCalls /\ userSteps' \in 0 .. MaxUserSteps
    BY BoundsAssumption DEF IInv, TypeOK
  <2>5. /\ sent' \in [Callers -> SUBSET Commands]
        /\ nearRan' \in SUBSET Callers
        /\ nearStayed' \in SUBSET Callers
        /\ hindered' \in SUBSET Callers
        /\ late' \in SUBSET Callers
    BY <1>0 DEF IInv, TypeOK, Commands, Active
  <2> QED
    BY <2>1, <2>2, <2>3, <2>4, <2>5 DEF TypeOK
<1>2. ASSUME NEW c \in Callers PROVE NearInv(c)'
  BY <1>0 DEF IInv, TypeOK, NearInv, Active, NameIs
<1>3. ASSUME NEW c \in Callers PROVE StayInv(c)'
  BY <1>0 DEF IInv, TypeOK, StayInv, Active
<1>4. ASSUME NEW c \in Callers PROVE ReadyInv(c)'
  BY <1>0 DEF IInv, TypeOK, ReadyInv, Active, NameIs, MayQuit
<1> QED
  BY <1>1, <1>2, <1>3, <1>4 DEF IInv

LEMMA AbandonStep ==
  ASSUME IInv, NEW d \in Callers, Abandon(d)
  PROVE  IInv'
<1> USE DEF Abandon, Return, Hinder, deviceVars
<1>1. TypeOK'
  <2>1. pc' \in [Callers -> Places] /\ outcome' \in [Callers -> Outcomes]
    BY DEF IInv, TypeOK, Places, Outcomes
  <2>2. answers' \in [Callers -> Seq(Answer)]
    BY DEF IInv, TypeOK
  <2>3. /\ app' \in Apps
        /\ closing' \in BOOLEAN /\ (closing' => app' # "BOLOS")
        /\ locked' \in BOOLEAN /\ slow' \in BOOLEAN
        /\ covered' \in SUBSET Callers /\ (covered' # {} => closing')
    BY DEF IInv, TypeOK, Apps
  <2>4. calls' \in 0 .. MaxCalls /\ userSteps' \in 0 .. MaxUserSteps
    BY BoundsAssumption DEF IInv, TypeOK
  <2>5. /\ sent' \in [Callers -> SUBSET Commands]
        /\ nearRan' \in SUBSET Callers
        /\ nearStayed' \in SUBSET Callers
        /\ hindered' \in SUBSET Callers
        /\ late' \in SUBSET Callers
    BY DEF IInv, TypeOK, Commands, Active
  <2> QED
    BY <2>1, <2>2, <2>3, <2>4, <2>5 DEF TypeOK
<1>2. ASSUME NEW c \in Callers PROVE NearInv(c)'
  BY DEF IInv, TypeOK, NearInv, Active, NameIs
<1>3. ASSUME NEW c \in Callers PROVE StayInv(c)'
  BY DEF IInv, TypeOK, StayInv, Active
<1>4. ASSUME NEW c \in Callers PROVE ReadyInv(c)'
  BY DEF IInv, TypeOK, ReadyInv, Active, NameIs, MayQuit
<1> QED
  BY <1>1, <1>2, <1>3, <1>4 DEF IInv

LEMMA AppClosesStep ==
  ASSUME IInv, AppCloses
  PROVE  IInv'
<1> USE DEF AppCloses, Runs, hostVars
<1>1. TypeOK'
  BY DEF IInv, TypeOK, Apps, Active
<1>2. ASSUME NEW c \in Callers PROVE NearInv(c)'
  BY DEF IInv, TypeOK, NearInv, Active
<1>3. ASSUME NEW c \in Callers PROVE StayInv(c)'
  BY DEF IInv, TypeOK, StayInv, Active
<1>4. ASSUME NEW c \in Callers PROVE ReadyInv(c)'
  BY DEF IInv, TypeOK, ReadyInv, MayQuit
<1> QED
  BY <1>1, <1>2, <1>3, <1>4 DEF IInv

LEMMA UserStepStep ==
  ASSUME IInv, UserStep
  PROVE  IInv'
<1> USE DEF UserStep, Runs, KeepsRunning, Hinder, hostVars
<1>1. TypeOK'
  <2>1. app' \in Apps
    BY DEF IInv, TypeOK, Apps
  <2>2. closing' \in BOOLEAN
    BY DEF IInv, TypeOK
  <2>3. closing' => app' # "BOLOS"
    BY DEF IInv, TypeOK
  <2>4. locked' \in BOOLEAN /\ slow' \in BOOLEAN
    BY DEF IInv, TypeOK
  <2>5. covered' \in SUBSET Callers /\ (covered' # {} => closing')
    BY DEF IInv, TypeOK
  <2>6. userSteps' \in 0 .. MaxUserSteps
    BY BoundsAssumption DEF IInv, TypeOK
  <2>7. /\ nearRan' \in SUBSET Callers
        /\ nearStayed' \in SUBSET Callers
        /\ hindered' \in SUBSET Callers
        /\ late' \in SUBSET Callers
    BY DEF IInv, TypeOK, Active
  <2> QED
    BY <2>1, <2>2, <2>3, <2>4, <2>5, <2>6, <2>7 DEF IInv, TypeOK
<1>2. ASSUME NEW c \in Callers PROVE NearInv(c)'
  BY DEF IInv, TypeOK, NearInv, Active
<1>3. ASSUME NEW c \in Callers PROVE StayInv(c)'
  BY DEF IInv, TypeOK, StayInv, Active
<1>4. ASSUME NEW c \in Callers PROVE ReadyInv(c)'
  BY DEF IInv, TypeOK, ReadyInv, Active
<1> QED
  BY <1>1, <1>2, <1>3, <1>4 DEF IInv

LEMMA NextStep == IInv /\ [Next]_vars => IInv'
<1> SUFFICES ASSUME IInv, [Next]_vars PROVE IInv'
  OBVIOUS
<1>1. ASSUME NEW d \in Callers, OpenNearApplication(d) PROVE IInv'
  BY <1>1, OpenNearApplicationStep
<1>2. ASSUME NEW d \in Callers, HostStep(d) PROVE IInv'
  BY <1>2, AskNameStep, ReceiveNameStep, AskQuitStep, ReceiveQuitStep, WakeStep,
     AskOpenStep, ReceiveOpenStep, TransportFailsStep DEF HostStep
<1>3. ASSUME NEW d \in Callers, Abandon(d) PROVE IInv'
  BY <1>3, AbandonStep
<1>4. CASE UNCHANGED vars
  BY <1>4 DEF vars, hostVars, deviceVars, history, IInv, TypeOK, NearInv, StayInv,
     ReadyInv, Active, MayQuit
<1> QED
  BY <1>1, <1>2, <1>3, <1>4, AppClosesStep, UserStepStep DEF Next, AllReturned

LEMMA IInvHolds == Spec => []IInv
BY InitIInv, NextStep, PTL DEF Spec

\* The variables keep their types; an app that is closing is not the dashboard.
THEOREM OpenAppTypeCorrect == Spec => []TypeOK
<1>1. IInv => TypeOK
  BY DEF IInv
<1> QED
  BY <1>1, IInvHolds, PTL

\* open_near_application never returns Ok unless the NEAR app ran meanwhile.
THEOREM OkCorrect == Spec => []OkMeansNearRan
<1>1. IInv => OkMeansNearRan
  BY DEF IInv, NearInv, OkMeansNearRan
<1> QED
  BY <1>1, IInvHolds, PTL

\* A call does nothing to a NEAR app that runs all the time.
THEOREM NoOpCorrect == Spec => []NoOpIfNearRuns
<1>1. IInv => NoOpIfNearRuns
  BY DEF IInv, TypeOK, StayInv, NoOpIfNearRuns
<1> QED
  BY <1>1, IInvHolds, PTL

\* A call that is not hindered never fails, if an app closes within the second.
THEOREM UnhinderedCorrect == Spec => []UnhinderedCallOpens
<1>1. IInv => UnhinderedCallOpens
  <2> SUFFICES ASSUME IInv, ~slow, NEW c \in Callers \ (hindered \cup late)
               PROVE  outcome[c] \in {"none", "ok"}
    BY DEF UnhinderedCallOpens
  <2> QED
    BY DEF IInv, ReadyInv
<1> QED
  BY <1>1, IInvHolds, PTL
============================================================================
