---------------------------- MODULE EngineDriver ----------------------------
(***************************************************************************)
(* The NetBSD driver of the Curve25519 engine                              *)
(* (sbusfpga_curve25519engine.c) and the engine it drives, as EngineJob    *)
(* promises it.  Unit 0 is for tests and for asking for a session; each    *)
(* session has a unit, a register window and a page of DMA memory of its   *)
(* own.  The driver runs under the kernel lock and never sleeps, so its    *)
(* calls do not interleave with each other, only with the engine: a call   *)
(* that gives up waiting leaves a job running.                             *)
(*                                                                         *)
(* A message is built up over several calls: GCMPFX ("pfx") loads every    *)
(* register its program reads, GCMAD, GCMAES and GCMFINISH ("next") write  *)
(* the addresses, the length and the last block and use what the calls     *)
(* before left in the window.  A window is described by the call whose     *)
(* inputs are in it and by the set of calls that made the rest of it, with *)
(* 0 among them when something else had a hand in it.                      *)
(***************************************************************************)
EXTENDS Naturals, FiniteSets

CONSTANTS Processes,
          Sessions,     \* the units 1 .. MAX_ACTIVE_SESSION - 1
          Cookies,      \* what cprng_strong32 may return, 0 left out
          Tests,        \* the kinds of jobs of unit 0
          MaxEntries,   \* bound on the calls of the driver's entry points
          MaxJobs,      \* bound on those that start a job
          MaxWork,      \* instructions of the longest job
          MaxCount,     \* how often wait_job looks (250)
          Stalls        \* whether a job may outlast wait_job

NoCookie == 0
Nobody == [who |-> "nobody", cookie |-> NoCookie]
Units == Sessions \cup {0}
GcmKinds == {"pfx", "next"}
Programs == {"montgomery", "check"} \cup GcmKinds
CallNumbers == 0 .. MaxJobs
Windows == [in : CallNumbers, out : SUBSET CallNumbers]

ASSUME DriverAssumption ==
  /\ Sessions \subseteq Nat \ {0} /\ Cookies \subseteq Nat \ {NoCookie}
  /\ Tests \subseteq {"montgomery", "check"} /\ Nobody.who \notin Processes
  /\ MaxEntries \in Nat /\ MaxJobs \in Nat /\ MaxWork \in Nat \ {0}
  /\ MaxCount \in Nat /\ Stalls \in BOOLEAN

VARIABLES on, csr, running, abort, failed, left,   \* the engine
          outcome,      \* the calls that the result of its job will stand for
          rf,           \* its register file
          active_sessions, mapped_sessions, sessions_cookies,
          open,         \* who has which unit open
          held,         \* to whom each session was given, until that process ends it
          given,        \* the cookies each process got
          call,         \* the ioctl that is running a job
          entries,      \* how often the driver was entered
          jobs,         \* and how often for a job
          asked,        \* the calls of each session since its last GCMPFX; 0: one failed
          disturbed,    \* whether one of them came while a job was running or
                        \* without power, or a job of unit 0 ran in the window
          last          \* how the last job ended for its caller

engineVars == <<csr, running, abort, failed, left, outcome, rf>>
tableVars == <<active_sessions, mapped_sessions, sessions_cookies, held, given>>
askVars == <<asked, disturbed>>
vars == <<on, engineVars, tableVars, askVars, open, call, entries, jobs, last>>

NoCall == [pc |-> "none", unit |-> 0, kind |-> "montgomery", who |-> Nobody.who, count |-> 0]
NoneEnded == [unit |-> 0, err |-> FALSE, out |-> {}, asked |-> {}, disturbed |-> FALSE]
Unknown == [in |-> 0, out |-> {0}]

\* The state attach leaves behind: programs loaded, DMA memory mapped, power off.
Init ==
  /\ on = FALSE
  /\ csr = [window |-> 0, program |-> "montgomery"]
  /\ running = FALSE /\ abort = FALSE /\ failed = FALSE /\ left = 0
  /\ outcome = {} /\ rf = [u \in Units |-> Unknown]
  /\ active_sessions = {} /\ mapped_sessions = {}
  /\ sessions_cookies = [s \in Sessions |-> NoCookie]
  /\ open = {} /\ held = [s \in Sessions |-> Nobody]
  /\ given = [p \in Processes |-> {}]
  /\ asked = [s \in Sessions |-> {0}] /\ disturbed = [s \in Sessions |-> FALSE]
  /\ call = NoCall /\ entries = 0 /\ jobs = 0 /\ last = NoneEnded

Free == call.pc = "none"
Entered ==
  /\ Free /\ entries < MaxEntries
  /\ entries' = entries + 1

(* The character device.  The kernel calls the driver's close when the     *)
(* last process that has the unit open closes it.                          *)

Open(u, p) ==
  /\ Entered
  /\ u # 0 => u \in active_sessions
  /\ open' = open \cup {<<u, p>>} /\ on' = TRUE
  /\ UNCHANGED <<engineVars, tableVars, askVars, call, jobs, last>>

Forget(u) ==
  /\ active_sessions' = active_sessions \ {u}
  /\ mapped_sessions' = mapped_sessions \ {u}

PowerDown == on' = (on /\ active_sessions' # {})

Close(u, p) ==
  /\ Entered /\ <<u, p>> \in open
  /\ open' = open \ {<<u, p>>}
  /\ IF \E q \in Processes : <<u, q>> \in open'
     THEN UNCHANGED <<on, active_sessions, mapped_sessions>>
     ELSE Forget(u) /\ PowerDown
  /\ UNCHANGED <<engineVars, sessions_cookies, held, given, askVars, call, jobs, last>>

Mmap(u, p) ==
  /\ Entered /\ <<u, p>> \in open /\ u # 0
  /\ u \in active_sessions
  /\ mapped_sessions' = mapped_sessions \cup {u}
  /\ UNCHANGED <<on, engineVars, active_sessions, sessions_cookies, held, given,
                 askVars, open, call, jobs, last>>

(* The session calls.  A process shows only cookies it was given, and      *)
(* cprng_strong32 does not return one a second time.                       *)

\* Variant: only the mapped sessions count as taken.
UnmappedSessions == Sessions \ mapped_sessions
FreeSessions == Sessions \ (active_sessions \cup mapped_sessions)

FreshCookies == Cookies \ UNION {given[p] : p \in Processes}

GetSession(p) ==
  /\ Entered /\ <<0, p>> \in open
  /\ \E s \in FreeSessions, c \in FreshCookies :
       /\ \A t \in FreeSessions : s <= t
       /\ active_sessions' = active_sessions \cup {s}
       /\ sessions_cookies' = [sessions_cookies EXCEPT ![s] = c]
       /\ held' = [held EXCEPT ![s] = [who |-> p, cookie |-> c]]
       /\ given' = [given EXCEPT ![p] = @ \cup {c}]
       /\ asked' = [asked EXCEPT ![s] = {0}]
  /\ UNCHANGED <<on, engineVars, mapped_sessions, disturbed, open, call, jobs, last>>

\* Variant: any cookie will do.
CheckActive(u, c) == c # NoCookie /\ u \in active_sessions
CheckSession(u, c) ==
  /\ c # NoCookie /\ sessions_cookies[u] = c
  /\ u \in active_sessions

CloseSession(u, p, c) ==
  /\ Entered /\ <<u, p>> \in open /\ u # 0
  /\ CheckSession(u, c)
  /\ sessions_cookies' = [sessions_cookies EXCEPT ![u] = NoCookie]
  /\ Forget(u)
  /\ held' = IF held[u].who = p THEN [held EXCEPT ![u] = Nobody] ELSE held
  /\ UNCHANGED <<on, engineVars, given, askVars, open, call, jobs, last>>

(***************************************************************************)
(* A job.  Its call selects the program, and a session's its window, then  *)
(* writes the inputs over the bus, which waits for the engine to stop,     *)
(* starts the job and polls until it is over.  Nothing good comes of a job *)
(* whose registers are changed under it.  Without power the clocks of the  *)
(* engine and its register file stand: writes and the start of a job are   *)
(* lost, and the bus waits for ever for a job that was cut off.            *)
(***************************************************************************)
Enter(u, p, kind) ==
  /\ Entered /\ <<u, p>> \in open /\ jobs < MaxJobs
  /\ jobs' = jobs + 1
  /\ call' = [pc |-> "load", unit |-> u, kind |-> kind, who |-> p, count |-> 0]
  /\ outcome' = IF running THEN {0} ELSE outcome
  /\ last' = NoneEnded
  /\ UNCHANGED <<on, tableVars, open, running, abort, failed, left, rf>>

Asked(u, kind) ==
  /\ asked' = [asked EXCEPT ![u] = IF kind = "pfx" THEN {jobs'} ELSE @ \cup {jobs'}]
  /\ disturbed' = [disturbed EXCEPT ![u] = ~on \/ (kind = "next" /\ (@ \/ running))]

\* Variant: the session's window is not selected.
GcmSameWindow(u, p, c, kind) ==
  /\ u # 0 /\ CheckSession(u, c)
  /\ Enter(u, p, kind) /\ Asked(u, kind)
  /\ csr' = [csr EXCEPT !.program = kind]
Gcm(u, p, c, kind) ==
  /\ u # 0 /\ CheckSession(u, c)
  /\ Enter(u, p, kind) /\ Asked(u, kind)
  /\ csr' = [window |-> u, program |-> kind]

Test(p, kind) ==
  /\ Enter(0, p, kind) /\ UNCHANGED askVars
  /\ csr' = [csr EXCEPT !.program = kind]

\* A call that returns an error leaves its message unfinished.
Return(err, out) ==
  /\ call' = NoCall
  /\ asked' = IF err /\ call.unit # 0 THEN [asked EXCEPT ![call.unit] = @ \cup {0}]
                                     ELSE asked
  /\ last' = IF call.unit = 0 THEN [NoneEnded EXCEPT !.err = err]
             ELSE [unit |-> call.unit, err |-> err, out |-> out,
                   asked |-> asked'[call.unit], disturbed |-> disturbed[call.unit]]
  /\ UNCHANGED <<on, entries, tableVars, open, jobs, engineVars, disturbed>>

\* write_inputs looks at the status first; the other jobs let the bus wait.
LoadRefused ==
  /\ call.pc = "load" /\ call.kind = "montgomery" /\ running
  /\ Return(TRUE, {})

\* Variant: the inputs go in while a job runs.
LoadAtOnce ==
  /\ call.pc = "load"
  /\ rf' = IF on THEN [rf EXCEPT ![call.unit].in = jobs] ELSE rf
  /\ call' = [call EXCEPT !.pc = "start"]
  /\ UNCHANGED <<on, entries, tableVars, askVars, open, jobs, last,
                 csr, running, abort, failed, left, outcome>>

Load ==
  /\ call.pc = "load" /\ ~running
  /\ rf' = IF on THEN [rf EXCEPT ![call.unit].in = jobs] ELSE rf
  /\ call' = [call EXCEPT !.pc = "start"]
  /\ UNCHANGED <<on, entries, tableVars, askVars, open, jobs, last,
                 csr, running, abort, failed, left, outcome>>

\* What the selected program makes of the selected window.
Outcome ==
  CASE csr.program = "pfx"  -> {rf[csr.window].in}
    [] csr.program = "next" -> rf[csr.window].out \cup {rf[csr.window].in}
    [] OTHER                -> IF csr.window = 0 THEN {rf[0].in} ELSE {0}

StartJob ==
  /\ call.pc = "start"
  /\ IF running THEN Return(TRUE, {})
     ELSE /\ IF on
             THEN /\ running' = TRUE /\ failed' = FALSE /\ abort' = FALSE
                  /\ left' \in 1 .. MaxWork
                  /\ outcome' = Outcome
             ELSE UNCHANGED <<running, failed, abort, left, outcome>>
          /\ call' = [call EXCEPT !.pc = "wait"]
          /\ disturbed' = IF call.unit = 0 /\ csr.window # 0
                          THEN [disturbed EXCEPT ![csr.window] = TRUE] ELSE disturbed
          /\ UNCHANGED <<on, entries, tableVars, open, jobs, last, csr, rf, asked>>

\* Variant: nothing is counted.
WaitJobUncounted ==
  /\ call.pc = "wait" /\ running /\ call.count < MaxCount
  /\ UNCHANGED vars

WaitJob ==
  /\ call.pc = "wait" /\ running /\ call.count < MaxCount
  /\ call' = [call EXCEPT !.count = @ + 1]
  /\ UNCHANGED <<on, entries, tableVars, askVars, open, jobs, last, engineVars>>

GivingUp == Stalls /\ call.pc = "wait" /\ running /\ call.count = MaxCount

WaitGivesUp ==
  GivingUp /\ call.kind # "check" /\ Return(TRUE, {})

\* The checks of unit 0 print the registers first, for which the bus waits.
CheckGivesUp ==
  /\ GivingUp /\ call.kind = "check"
  /\ call' = [call EXCEPT !.pc = "print"]
  /\ UNCHANGED <<on, entries, tableVars, askVars, open, jobs, last, engineVars>>

CheckPrinted ==
  call.pc = "print" /\ ~running /\ Return(TRUE, {})

JobFailed ==
  /\ call.pc = "wait" /\ ~running /\ abort
  /\ Return(TRUE, {})

JobDone ==
  /\ call.pc = "wait" /\ ~running /\ ~abort
  /\ Return(FALSE, rf[call.unit].out)

(* The engine, in the window the register selects at that moment: until    *)
(* the last instruction the window holds nothing that can be used.         *)

Work ==
  /\ on /\ running
  /\ \/ /\ left > 1 /\ left' = left - 1
        /\ rf' = [rf EXCEPT ![csr.window] = Unknown]
        /\ UNCHANGED <<running, abort, failed>>
     \/ /\ left = 1 /\ left' = 0
        /\ rf' = [rf EXCEPT ![csr.window] = [in |-> 0, out |-> outcome]]
        /\ running' = FALSE /\ UNCHANGED <<abort, failed>>
     \/ /\ left' = 0 /\ running' = FALSE
        /\ failed' = TRUE /\ abort' = TRUE
        /\ UNCHANGED rf
  /\ outcome' = IF running' THEN outcome ELSE {}
  /\ UNCHANGED <<on, entries, tableVars, askVars, open, call, jobs, last, csr>>

Device == \E u \in Units, p \in Processes : Open(u, p) \/ Close(u, p) \/ Mmap(u, p)
SessionCalls ==
  \E p \in Processes :
    \/ GetSession(p)
    \/ \E u \in Sessions, c \in given[p] : CloseSession(u, p, c)
Jobs ==
  \E p \in Processes :
    \/ \E u \in Sessions, c \in given[p], kind \in GcmKinds : Gcm(u, p, c, kind)
    \/ \E kind \in Tests : Test(p, kind)

Calls == \/ LoadRefused \/ Load \/ StartJob
         \/ WaitJob \/ WaitGivesUp \/ CheckGivesUp \/ CheckPrinted
         \/ JobFailed \/ JobDone

Next == Device \/ SessionCalls \/ Jobs \/ Calls \/ Work

Spec == Init /\ [][Next]_vars
\* The kernel keeps running its calls; nothing is said of the engine.
FairSpec == Spec /\ WF_vars(Calls)

-----------------------------------------------------------------------------
TypeOK ==
  /\ on \in BOOLEAN /\ running \in BOOLEAN /\ abort \in BOOLEAN /\ failed \in BOOLEAN
  /\ csr \in [window : Units, program : Programs]
  /\ left \in 0 .. MaxWork /\ outcome \subseteq CallNumbers
  /\ rf \in [Units -> Windows]
  /\ active_sessions \subseteq Sessions /\ mapped_sessions \subseteq Sessions
  /\ sessions_cookies \in [Sessions -> Cookies \cup {NoCookie}]
  /\ held \in [Sessions -> [who : Processes, cookie : Cookies] \cup {Nobody}]
  /\ given \in [Processes -> SUBSET Cookies]
  /\ open \subseteq Units \X Processes /\ jobs \in CallNumbers /\ entries \in Nat
  /\ asked \in [Sessions -> SUBSET CallNumbers] /\ disturbed \in [Sessions -> BOOLEAN]
  /\ call \in [pc : {"none", "load", "start", "wait", "print"}, unit : Units,
               kind : Programs, who : Processes \cup {Nobody.who}, count : 0 .. MaxCount]
  /\ last \in [unit : Units, err : BOOLEAN, out : SUBSET CallNumbers,
               asked : SUBSET CallNumbers, disturbed : BOOLEAN]

\* A session's job that ends without an error answers for exactly the calls of
\* its message, whatever other sessions do and also after calls that gave up
\* waiting: no error since the last GCMPFX, the power on, and the engine at rest
\* whenever a call came that builds on the window.
Answered == last.unit # 0 /\ ~last.err /\ 0 \notin last.asked
OwnResult == Answered /\ ~last.disturbed => last.out = last.asked

\* "to each session its own register file": the same without the engine having
\* to be powered and at rest.  The code does not keep it.
OwnRegisterFile == Answered => last.out = last.asked

\* A process that was given a session and has its unit open keeps it until it
\* closes the one or the other itself: get_session does not hand it out again,
\* and its number and cookie stay good, whatever others open, map and close.
Owned(s) == held[s] # Nobody /\ <<s, held[s].who>> \in open
SessionsKept ==
  [][ \A s \in Sessions :
        Owned(s) /\ <<s, held[s].who>> \in open' /\ held'[s] # Nobody =>
          held'[s] = held[s] /\ CheckSession(s, held[s].cookie)' ]_vars

\* A session that is given ends only by its owner, who has its unit open then.
\* The code does not keep it for an owner that has not opened the unit yet.
EndedByItsOwner ==
  [][ \A s \in Sessions :
        /\ held[s] # Nobody /\ CheckSession(s, held[s].cookie)
        /\ ~CheckSession(s, held[s].cookie)'
        => <<s, held[s].who>> \in open ]_vars

\* A job of a session is only accepted from the process the session was given
\* to, also after the unit was closed, one way or the other, and given again.
OwnersOnly == ~Free /\ call.unit # 0 => held[call.unit].who = call.who

\* A job runs in the window its inputs were written to.  The code does not keep it.
OwnWindow == call.pc = "wait" /\ running => csr.window = call.unit

\* open turns the power on first, but the code does not keep it on until the call.
Powered == ~Free => on

\* wait_job comes back with an answer or an error, even if the engine hangs.
WaitsEnd == call.pc = "wait" ~> call.pc # "wait"

\* Towards the engine the driver and the bus keep to what EngineJob says.
Engine == INSTANCE EngineJob WITH
            Windows <- Units, Values <- Windows,
            window <- csr.window
EngineAsPromised == Engine!JobSpec
=============================================================================
