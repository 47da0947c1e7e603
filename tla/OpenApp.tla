------------------------------- MODULE OpenApp -------------------------------
(***************************************************************************)
(* open_near_application (src/lib.rs) and open_near_application_ble        *)
(* (src/ble_api.rs): ask for the name of the app that runs, quit it unless *)
(* it is the dashboard, wait a second, and have the NEAR app opened, which *)
(* the user confirms.  Each of the three is an exchange, and the device is *)
(* in the hands of its user, and of other callers, in between.  An         *)
(* exchange takes the first answer on the transport, be it one that an     *)
(* exchange which failed has left there.                                   *)
(*                                                                         *)
(* The device is external, and so is what it does on a command that does   *)
(* not fit its state: the model lets it refuse.  It takes time to close an *)
(* app: for a slow device, that may be more than the second that the code  *)
(* waits.                                                                  *)
(***************************************************************************)
EXTENDS Integers, Sequences

CONSTANTS
  HidCallers,    \* threads calling open_near_application
  BleCallers,    \* tasks calling open_near_application_ble
  OtherApps,     \* apps that are neither NEAR nor the dashboard
  MaxCalls,      \* bounds: calls, and
  MaxUserSteps   \*   what the user does on the device

Callers == HidCallers \cup BleCallers
Apps == {"NEAR", "BOLOS"} \cup OtherApps
Commands == {"get_app_name", "quit_app", "open_app"}

ASSUME OtherAppsAssumption == OtherApps \cap {"NEAR", "BOLOS", "none", "malformed"} = {}
ASSUME BoundsAssumption    == MaxCalls \in Nat /\ MaxUserSteps \in Nat

\* The status word (that of a locked device has a text of its own, and is an error
\* like the others), and the name in the data, if there is any data: a malformed
\* one is shorter than its length byte says, or lacks that byte.
Answer == [status : {"ok", "error"}, name : Apps \cup {"none", "malformed"}]
Status(s) == [status |-> s, name |-> "none"]
NameIs(n) == [status |-> "ok", name |-> n]

Places == {"idle", "name", "name_sent", "quit", "quit_sent",
           "sleep", "open", "open_sent"}
\* "status" is APDUExchangeError: of a status word, or of a malformed name.
Outcomes == {"none", "ok", "status", "transport", "panic", "abandoned"}

VARIABLES
  pc,         \* where each caller is
  answers,    \* the device's answers that its transport has not taken yet
  outcome,    \* what its last call returned
  app,        \* device: the app that runs
  closing,    \*   it has been told to quit and still runs
  locked,     \*   it wants its PIN
  slow,       \*   an app may take more than a second to close
  covered,    \* sleepers whose second covers the closing that is under way
  calls, userSteps,  \* counted against the bounds
  sent,       \* history: commands of the call that reached the device
  nearRan,    \* history: callers during whose call the NEAR app ran at a time,
  nearStayed, \*   or all the time
  hindered,   \* history: callers whose call met a refusal, a failure, a lock,
              \*   or somebody else at work on the device
  late        \* history: callers whose call met answers to earlier commands

hostVars   == <<pc, answers, outcome, calls>>
deviceVars == <<app, closing, locked, slow, userSteps>>
history    == <<sent, nearRan, nearStayed, hindered, late>>
vars       == <<hostVars, deviceVars, covered, history>>

Active == {c \in Callers : pc[c] # "idle"}

TypeOK ==
  /\ pc \in [Callers -> Places]
  /\ answers \in [Callers -> Seq(Answer)]
  /\ outcome \in [Callers -> Outcomes]
  /\ app \in Apps
  /\ closing \in BOOLEAN /\ (closing => app # "BOLOS")
  /\ locked \in BOOLEAN /\ slow \in BOOLEAN
  /\ covered \in SUBSET Callers /\ (covered # {} => closing)
  /\ calls \in 0 .. MaxCalls /\ userSteps \in 0 .. MaxUserSteps
  /\ sent \in [Callers -> SUBSET Commands]
  /\ nearRan \in SUBSET Callers
  /\ nearStayed \in SUBSET Callers
  /\ hindered \in SUBSET Callers
  /\ late \in SUBSET Callers

Init ==
  /\ pc = [c \in Callers |-> "idle"]
  /\ answers = [c \in Callers |-> <<>>]
  /\ outcome = [c \in Callers |-> "none"]
  /\ app \in Apps /\ closing = FALSE
  /\ locked \in BOOLEAN /\ slow \in BOOLEAN
  /\ covered = {}
  /\ calls = 0 /\ userSteps = 0
  /\ sent = [c \in Callers |-> {}]
  /\ nearRan = {} /\ nearStayed = {} /\ hindered = {} /\ late = {}

-----------------------------------------------------------------------------
(* What the device does.                                                   *)

\* The app that runs changes to a, while calls are under way.
Runs(a) ==
  /\ app' = a
  /\ closing' = FALSE
  /\ covered' = {}
  /\ nearRan' = IF a = "NEAR" THEN nearRan \cup Active ELSE nearRan
  /\ nearStayed' = IF a = "NEAR" THEN nearStayed ELSE nearStayed \ Active

KeepsRunning == UNCHANGED <<app, closing, covered, nearRan, nearStayed>>

\* What an exchange finds of the answers that c has not taken: a BLE transport
\* keeps those that come when nobody waits any more; a link that is made anew,
\* or a device that is opened again (over HID, for each exchange), loses what
\* was reported before; and what is under way may never come.
LeftFor(c) ==
  {SubSeq(answers[c], m, n) : m \in 1 .. Len(answers[c]) + 1, n \in 0 .. Len(answers[c])}

\* The device answers, after what is left.
Answers(c, a) ==
  \E left \in LeftFor(c) :
    /\ answers' = [answers EXCEPT ![c] = Append(left, a)]
    /\ late' = IF left = <<>> THEN late ELSE late \cup {c}
Hinder(S) == hindered' = hindered \cup S

GetAppName(c) ==
  /\ KeepsRunning
  /\ \/ ~locked /\ Answers(c, NameIs(app)) /\ UNCHANGED hindered
     \/ Answers(c, NameIs("malformed")) /\ Hinder({c})
     \/ Answers(c, Status("error")) /\ Hinder({c})

\* An app that is told to quit begins to; without one, or with one that is
\* closing already, the device may say yes or no.
MayQuit == app # "BOLOS" /\ ~closing /\ ~locked
QuitApp(c) ==
  \/ /\ MayQuit
     /\ closing' = TRUE
     /\ Answers(c, Status("ok"))
     /\ Hinder(Active \ {c})
     /\ UNCHANGED <<app, covered, nearRan, nearStayed>>
  \/ /\ ~MayQuit
     /\ Answers(c, Status("ok"))
     /\ UNCHANGED hindered /\ KeepsRunning
  \/ /\ Answers(c, Status("error"))
     /\ Hinder(IF MayQuit THEN {c} ELSE {})
     /\ KeepsRunning

\* Only the dashboard opens an app, and only if it is installed and the user
\* agrees.
MayOpen == app = "BOLOS" /\ ~locked
OpenNear(c) ==
  \/ /\ MayOpen
     /\ Runs("NEAR")
     /\ Answers(c, Status("ok"))
     /\ Hinder(Active \ {c})
  \/ /\ Answers(c, Status("error"))
     /\ Hinder(IF MayOpen THEN {c} ELSE {})
     /\ KeepsRunning

AppCloses ==
  /\ closing
  /\ Runs("BOLOS")
  /\ UNCHANGED <<hostVars, locked, slow, userSteps, sent, hindered, late>>

\* The user opens an app, leaves one, locks the device or unlocks it.
UserStep ==
  /\ userSteps < MaxUserSteps
  /\ userSteps' = userSteps + 1
  /\ \/ /\ ~locked
        /\ \/ app = "BOLOS" /\ \E a \in Apps \ {"BOLOS"} : Runs(a)
           \/ app # "BOLOS" /\ Runs("BOLOS")
        /\ UNCHANGED locked
     \/ locked' = ~locked /\ KeepsRunning
  /\ Hinder(Active)
  /\ UNCHANGED <<hostVars, slow, sent, late>>

-----------------------------------------------------------------------------
(* What the callers do.                                                    *)

Return(c, result) ==
  /\ pc' = [pc EXCEPT ![c] = "idle"]
  /\ outcome' = [outcome EXCEPT ![c] = result]
  /\ covered' = covered \ {c}
  /\ UNCHANGED calls

GoOn(c, there) ==
  /\ pc' = [pc EXCEPT ![c] = there]
  /\ UNCHANGED <<outcome, calls>>

OpenNearApplication(c) ==
  /\ pc[c] = "idle"
  /\ calls < MaxCalls
  /\ calls' = calls + 1
  /\ pc' = [pc EXCEPT ![c] = "name"]
  /\ outcome' = [outcome EXCEPT ![c] = "none"]
  /\ sent' = [sent EXCEPT ![c] = {}]
  /\ nearRan' = (nearRan \ {c}) \cup (IF app = "NEAR" THEN {c} ELSE {})
  /\ nearStayed' = (nearStayed \ {c}) \cup (IF app = "NEAR" THEN {c} ELSE {})
  /\ hindered' = (hindered \ {c}) \cup (IF closing \/ locked THEN {c} ELSE {})
  /\ late' = late \ {c}
  /\ UNCHANGED <<answers, deviceVars, covered>>

\* transport.exchange(&command), up to the device: for HID, get_transport
\* first.
Exchange(c, here, there, command) ==
  /\ pc[c] = here
  /\ pc' = [pc EXCEPT ![c] = there]
  /\ sent' = [sent EXCEPT ![c] = @ \cup {command}]
  /\ UNCHANGED <<outcome, calls, locked, slow, userSteps>>

AskName(c) == Exchange(c, "name", "name_sent", "get_app_name") /\ GetAppName(c)
AskQuit(c) == Exchange(c, "quit", "quit_sent", "quit_app") /\ QuitApp(c)
AskOpen(c) == Exchange(c, "open", "open_sent", "open_app") /\ OpenNear(c)

\* No device for get_transport, or the exchange fails: before the device has
\* the command, or after; its answer may still come.
TransportFails(c) ==
  /\ pc[c] \notin {"idle", "sleep"}
  /\ Return(c, "transport")
  /\ Hinder({c})
  /\ UNCHANGED <<answers, deviceVars, sent, nearRan, nearStayed, late>>

\* The exchange hands over the first answer on the transport.
FirstAnswer(c) == Head(answers[c])
Takes(c, here) ==
  /\ pc[c] = here
  /\ answers[c] # <<>>
  /\ answers' = [answers EXCEPT ![c] = Tail(@)]

\* A bug (for the mutation runs): the NEAR app is quit like any other.
AfterNameQuitsNear(c, name) ==
  GoOn(c, IF name = "BOLOS" THEN "open" ELSE "quit") /\ UNCHANGED covered

\* match running_app_name()?
AfterName(c, name) ==
  \/ name = "NEAR" /\ Return(c, "ok")
  \/ name = "BOLOS" /\ GoOn(c, "open") /\ UNCHANGED covered
  \/ name \notin {"NEAR", "BOLOS"} /\ GoOn(c, "quit") /\ UNCHANGED covered

\* running_app_name slices the data by its length byte and panics if it is too
\* short; running_app_name_ble looks first.
ReceiveName(c) ==
  /\ Takes(c, "name_sent")
  /\ LET answer == FirstAnswer(c)
     IN  \/ answer.status = "error" /\ Return(c, "status")
         \/ answer.status = "ok" /\ answer.name \in Apps /\ AfterName(c, answer.name)
         \/ /\ answer.status = "ok" /\ answer.name \notin Apps
            /\ Return(c, IF c \in HidCallers THEN "panic" ELSE "status")
  /\ UNCHANGED <<deviceVars, history>>

\* Bugs: the code waits for the app to close even when it has closed already;
\* or does not wait at all.
ReceiveQuitWaitsAgain(c) ==
  /\ Takes(c, "quit_sent")
  /\ \/ FirstAnswer(c).status = "error" /\ Return(c, "status")
     \/ /\ FirstAnswer(c).status = "ok"
        /\ GoOn(c, "sleep")
        /\ covered' = covered \cup {c}
  /\ UNCHANGED <<deviceVars, history>>
ReceiveQuitNoSleep(c) ==
  /\ Takes(c, "quit_sent")
  /\ \/ FirstAnswer(c).status = "error" /\ Return(c, "status")
     \/ FirstAnswer(c).status = "ok" /\ GoOn(c, "open") /\ UNCHANGED covered
  /\ UNCHANGED <<deviceVars, history>>

\* quit_open_application()?; and the second begins.
ReceiveQuit(c) ==
  /\ Takes(c, "quit_sent")
  /\ \/ FirstAnswer(c).status = "error" /\ Return(c, "status")
     \/ /\ FirstAnswer(c).status = "ok"
        /\ GoOn(c, "sleep")
        /\ covered' = IF closing THEN covered \cup {c} ELSE covered
  /\ UNCHANGED <<deviceVars, history>>

\* sleep(Duration::from_secs(1)) is over.
Wake(c) ==
  /\ pc[c] = "sleep"
  /\ slow \/ c \notin covered
  /\ GoOn(c, "open")
  /\ covered' = covered \ {c}
  /\ UNCHANGED <<answers, deviceVars, history>>

\* Bugs: who is refused begins again; or the return code is not looked at.
ReceiveOpenRetries(c) ==
  /\ Takes(c, "open_sent")
  /\ \/ FirstAnswer(c).status = "ok" /\ Return(c, "ok")
     \/ FirstAnswer(c).status = "error" /\ GoOn(c, "name") /\ UNCHANGED covered
  /\ UNCHANGED <<deviceVars, history>>
ReceiveOpenUnchecked(c) ==
  /\ Takes(c, "open_sent")
  /\ Return(c, "ok")
  /\ UNCHANGED <<deviceVars, history>>

ReceiveOpen(c) ==
  /\ Takes(c, "open_sent")
  /\ \/ FirstAnswer(c).status = "ok" /\ Return(c, "ok")
     \/ FirstAnswer(c).status = "error" /\ Return(c, "status")
  /\ UNCHANGED <<deviceVars, history>>

\* The thread dies, or the future is dropped; an answer may still come.
Abandon(c) ==
  /\ pc[c] # "idle"
  /\ Return(c, "abandoned")
  /\ Hinder({c})
  /\ UNCHANGED <<answers, deviceVars, sent, nearRan, nearStayed, late>>

\* Callers may stop calling.
AllReturned == calls = MaxCalls /\ Active = {} /\ UNCHANGED vars

-----------------------------------------------------------------------------
HostStep(c) ==
  \/ AskName(c) \/ ReceiveName(c)
  \/ AskQuit(c) \/ ReceiveQuit(c) \/ Wake(c)
  \/ AskOpen(c) \/ ReceiveOpen(c)
  \/ TransportFails(c)

Next ==
  \/ \E c \in Callers : OpenNearApplication(c) \/ HostStep(c) \/ Abandon(c)
  \/ AppCloses
  \/ UserStep
  \/ AllReturned

Spec == Init /\ [][Next]_vars

\* A call goes on by itself, and every exchange ends.  Nothing is asked of the
\* device; but when it is not slow, the second lasts until the app has closed,
\* and so that has to happen.
FairSpec ==
  /\ Spec
  /\ \A c \in Callers : WF_vars(HostStep(c))
  /\ WF_vars(~slow /\ AppCloses)

-----------------------------------------------------------------------------
(* Properties.                                                             *)

\* Ok of open_near_application means that the NEAR app ran at some time during
\* the call, whatever the user and the other callers did meanwhile, unless the
\* call took an answer to an earlier command for its own.  (That the app still
\* runs nobody can know.)
OkMeansNearRan ==
  \A c \in Callers \ late : outcome[c] = "ok" => c \in nearRan

\* "No-op if NEAR app is already open" (src/ble_api.rs): while the NEAR app
\* runs all the time, a call neither quits it nor opens it again, unless an
\* earlier exchange left the name of another app on the transport.
NoOpIfNearRuns ==
  \A c \in nearStayed \ late : sent[c] \subseteq {"get_app_name"}

\* A call that nobody refuses, disturbs or cuts off, and whose exchanges get their
\* own answers, succeeds, from any app: the quit comes before the open, and the
\* second between them is long enough.
UnhinderedCallOpens ==
  ~slow =>
    \A c \in Callers \ (hindered \cup late) : outcome[c] \in {"none", "ok"}

\* Every call returns: the steps make no loop.
EveryCallReturns == \A c \in Callers : (pc[c] # "idle") ~> (pc[c] = "idle")

\* The BLE functions are "mirroring the USB HID API" (src/ble_api.rs): the same
\* reply of the device has the same kind of outcome over both.  The code does
\* not keep to it: a malformed name is an error over BLE and a panic over HID.
MirrorsHid == \A c \in Callers : outcome[c] # "panic"
============================================================================
