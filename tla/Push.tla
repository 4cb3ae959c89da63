-------------------------------- MODULE Push --------------------------------
(***************************************************************************)
(* The push worker (worker/push/push.go): it consumes chat.notify and      *)
(* calls the vendor of the receiver's device, at most once per merge       *)
(* window, at most HourMax times per hour.  What it knows of a device is   *)
(* in memory only.                                                         *)
(*                                                                         *)
(* A notification is its offset.  Time is in ticks; of a device's last     *)
(* send only its age up to Window matters, of hours only whether a new one *)
(* has begun since the count was started.                                  *)
(***************************************************************************)
EXTENDS Naturals, Sequences, FiniteSets

CONSTANTS
  Device,     \* receivers
  Notify,     \* Notify[n]: the receiver of the notification at offset n
  Window,     \* mergeWindow, in ticks
  HourMax,    \* deviceHourly
  MaxVendor,  \* bound: calls of the vendor that fail
  MaxStop     \* bound: crashes and failed commits

ASSUME PushAssumption ==
  /\ Notify \in Seq(Device)
  /\ {Window, HourMax} \subseteq Nat \ {0}
  /\ {MaxVendor, MaxStop} \subseteq Nat

VARIABLES
  devices,    \* devices[d]: deviceState
  notifyPc,   \* the place in Run: "fetch" or "commit"
  notifyDone, \* committed offset
  waiting,    \* history: waiting[d], the notifications taken since the last push
  hourly,     \* history: hourly[d], pushes of the running hour
  vendorFails, stops  \* how often each has occurred

pushVars == <<devices, notifyPc, notifyDone, waiting, hourly, vendorFails, stops>>

\* A device of which the worker knows nothing: lastSentAt.IsZero() counts as "long ago".
NewDevice == [age |-> Window, badge |-> 0, count |-> 0, sameHour |-> TRUE]

PushInit ==
  /\ devices = [d \in Device |-> NewDevice]
  /\ notifyPc = "fetch"
  /\ notifyDone = 0
  /\ waiting = [d \in Device |-> {}]
  /\ hourly = [d \in Device |-> 0]
  /\ vendorFails = 0
  /\ stops = 0

(***************************************************************************)
(* send: a new hour starts a new count; at the limit, or when the vendor   *)
(* fails, nothing changes but that.  st is the state ingest has prepared.  *)
(***************************************************************************)
NewHour(st) == IF st.sameHour THEN st ELSE [st EXCEPT !.count = 0, !.sameHour = TRUE]

Limited(st) == NewHour(st).count >= HourMax

\* Mutant of Sent: no action uses it.
SentKeepsBadge(st) == [NewHour(st) EXCEPT !.age = 0, !.count = @ + 1]

Sent(st) == [NewHour(st) EXCEPT !.age = 0, !.count = @ + 1, !.badge = 0]

SendWorks(d, st) ==
  /\ ~Limited(st)
  /\ devices' = [devices EXCEPT ![d] = Sent(st)]
  /\ hourly' = [hourly EXCEPT ![d] = @ + 1]
  /\ UNCHANGED vendorFails

SendFails(d, st) ==
  /\ IF Limited(st) THEN UNCHANGED vendorFails
     ELSE vendorFails < MaxVendor /\ vendorFails' = vendorFails + 1
  /\ devices' = [devices EXCEPT ![d] = NewHour(st)]
  /\ UNCHANGED hourly

(***************************************************************************)
(* ingest: outside the window the badge starts at 1 and is sent; inside it *)
(* is only counted up.                                                     *)
(***************************************************************************)
Reset(st) == [st EXCEPT !.badge = 1]

Ingest ==
  LET n == notifyDone + 1
      d == Notify[n]
      st == devices[d]
      now == waiting[d] \cup {n}
  IN
  /\ notifyPc = "fetch"
  /\ n <= Len(Notify)
  /\ notifyPc' = "commit"
  /\ IF st.age = Window
     THEN \/ SendWorks(d, Reset(st)) /\ waiting' = [waiting EXCEPT ![d] = {}]
          \/ SendFails(d, Reset(st)) /\ waiting' = [waiting EXCEPT ![d] = now]
     ELSE /\ devices' = [devices EXCEPT ![d].badge = @ + 1]
          /\ waiting' = [waiting EXCEPT ![d] = now]
          /\ UNCHANGED <<hourly, vendorFails>>
  /\ UNCHANGED <<notifyDone, stops>>

CommitNotify ==
  /\ notifyPc = "commit"
  /\ notifyPc' = "fetch"
  /\ notifyDone' = notifyDone + 1
  /\ UNCHANGED <<devices, waiting, hourly, vendorFails, stops>>

\* Mutant of Due: no action uses it.
DueBelowLimit(d) == devices[d].badge > 1 /\ devices[d].age = Window /\ devices[d].count < HourMax

(***************************************************************************)
(* flushDue, for one device: what waits is sent once the window is over,   *)
(* if it is more than one.                                                 *)
(***************************************************************************)
Due(d) == devices[d].badge > 1 /\ devices[d].age = Window

FlushDue(d) ==
  /\ notifyPc = "fetch"
  /\ Due(d)
  /\ \/ SendWorks(d, devices[d]) /\ waiting' = [waiting EXCEPT ![d] = {}]
     \/ SendFails(d, devices[d]) /\ UNCHANGED waiting
  /\ UNCHANGED <<notifyPc, notifyDone, stops>>

\* A crash, or a commit that fails: Run ends and a new process knows no device.
Stop ==
  /\ stops < MaxStop
  /\ stops' = stops + 1
  /\ devices' = [d \in Device |-> NewDevice]
  /\ notifyPc' = "fetch"
  /\ UNCHANGED <<notifyDone, waiting, hourly, vendorFails>>

Tick ==
  /\ \E d \in Device : devices[d].age < Window
  /\ devices' = [d \in Device |->
       IF devices[d].age < Window THEN [devices[d] EXCEPT !.age = @ + 1] ELSE devices[d]]
  /\ UNCHANGED <<notifyPc, notifyDone, waiting, hourly, vendorFails, stops>>

HourTurns ==
  /\ \E d \in Device : hourly[d] > 0
  /\ devices' = [d \in Device |-> [devices[d] EXCEPT !.sameHour = FALSE]]
  /\ hourly' = [d \in Device |-> 0]
  /\ UNCHANGED <<notifyPc, notifyDone, waiting, vendorFails, stops>>

PushRun == Ingest \/ CommitNotify

PushNext ==
  \/ PushRun \/ Stop \/ Tick \/ HourTurns
  \/ \E d \in Device : FlushDue(d)

PushSpec == PushInit /\ [][PushNext]_pushVars

-----------------------------------------------------------------------------
\* The variables hold what the code can put into them.
PushTypeOK ==
  /\ devices \in [Device -> [age : 0..Window, badge : 0..Len(Notify), count : 0..HourMax, sameHour : BOOLEAN]]
  /\ notifyPc \in {"fetch", "commit"}
  /\ notifyDone \in 0..Len(Notify)
  /\ \A d \in Device : waiting[d] \subseteq {n \in DOMAIN Notify : Notify[n] = d}

(***************************************************************************)
(* The badge never says more than what has arrived since the device was    *)
(* last told, over failed calls, suppressed sends and redelivery after a   *)
(* crash.  (It may say less: ingest overwrites what was suppressed.)       *)
(***************************************************************************)
BadgeIsReal == \A d \in Device : devices[d].badge <= Cardinality(waiting[d])

(***************************************************************************)
(* No device gets more than HourMax pushes in an hour of the clock, except *)
(* by a restart, which forgets the count.                                  *)
(***************************************************************************)
HourlyLimit == \A d \in Device : hourly[d] <= HourMax * (1 + stops)

(***************************************************************************)
(* Several notifications that wait together do not wait for ever: they are *)
(* told once the window is over and the hour has room, or the count starts *)
(* again with the next one.                                                *)
(***************************************************************************)
MergedIsTold == \A d \in Device : []<>(devices[d].badge <= 1)

(***************************************************************************)
(* What waits is told at the end of the window (push.go: inside the window *)
(* only count, flushDue tells it).  A single one is not.                   *)
(***************************************************************************)
NothingForgotten == \A d \in Device : []<>(devices[d].badge = 0)

=============================================================================
