------------------------- MODULE EngineDriverProofs -------------------------
(***************************************************************************)
(* What the driver keeps for every number of processes and sessions, every *)
(* set of cookies and every number of jobs, whatever the engine does: a    *)
(* session stays with its owner, a message comes out as it was asked for,  *)
(* and the engine is used as EngineJob says it may be.                     *)
(***************************************************************************)
EXTENDS EngineDriver, TLAPS

\* What the table says of a session in use is what its owner was told, and no
\* two processes were told the same.
TableInv ==
  /\ \A s \in active_sessions :
       /\ held[s] # Nobody /\ held[s].cookie = sessions_cookies[s]
       /\ sessions_cookies[s] \in given[held[s].who]
  /\ \A s \in Sessions : Owned(s) => s \in active_sessions
  /\ \A p, q \in Processes : p # q => given[p] \cap given[q] = {}

\* The table does not change under a call, and neither do the registers it set.
CallerInv ==
  ~Free => /\ call.unit # 0 <=> call.kind \in GcmKinds
           /\ csr.program = call.kind
           /\ call.unit # 0 => csr.window = call.unit /\ held[call.unit].who = call.who

\* A session of whose message nothing went wrong has the whole of it in its
\* window and no job there, except while it has a call.
Sound(u) == 0 \notin asked[u] /\ ~disturbed[u]
Rests(u) == rf[u].out = asked[u] /\ ~(running /\ csr.window = u)
Ready(u) == IF call.kind = "pfx" THEN asked[u] = {jobs}
                                 ELSE ~running /\ rf[u].out \cup {jobs} = asked[u]
Attended(u) ==
  /\ on
  /\ call.pc = "load" => Ready(u)
  /\ call.pc = "start" => ~running /\ rf[u].in = jobs /\ Ready(u)
  /\ call.pc = "wait" => IF running THEN outcome = asked[u]
                                    ELSE ~abort => rf[u].out = asked[u]
MessageInv ==
  \A u \in Sessions : Sound(u) => IF Free \/ call.unit # u THEN Rests(u) ELSE Attended(u)

ErrorInv == failed <=> abort

DriverInv == TypeOK /\ TableInv /\ CallerInv /\ MessageInv /\ ErrorInv /\ OwnResult

(* The parts of the type invariant that belong together.                   *)
TableType ==
  /\ active_sessions \subseteq Sessions /\ mapped_sessions \subseteq Sessions
  /\ sessions_cookies \in [Sessions -> Cookies \cup {NoCookie}]
  /\ held \in [Sessions -> [who : Processes, cookie : Cookies] \cup {Nobody}]
  /\ given \in [Processes -> SUBSET Cookies]
  /\ open \subseteq Units \X Processes
FlagType == on \in BOOLEAN /\ running \in BOOLEAN /\ abort \in BOOLEAN /\ failed \in BOOLEAN
EngineType ==
  /\ csr \in [window : Units, program : Programs]
  /\ left \in 0 .. MaxWork /\ outcome \subseteq CallNumbers
  /\ rf \in [Units -> Windows]
AskType == asked \in [Sessions -> SUBSET CallNumbers] /\ disturbed \in [Sessions -> BOOLEAN]
CallType ==
  /\ call \in [pc : {"none", "load", "start", "wait", "print"}, unit : Units,
               kind : Programs, who : Processes \cup {Nobody.who}, count : 0 .. MaxCount]
  /\ jobs \in CallNumbers /\ entries \in Nat
LastType == last \in [unit : Units, err : BOOLEAN, out : SUBSET CallNumbers,
                      asked : SUBSET CallNumbers, disturbed : BOOLEAN]

LEMMA Types == TypeOK <=> TableType /\ FlagType /\ EngineType /\ AskType /\ CallType /\ LastType
BY Zenon DEF TypeOK, TableType, FlagType, EngineType, AskType, CallType, LastType

LEMMA Numbers == 0 \in CallNumbers /\ {0} \subseteq CallNumbers /\ 0 \in Units /\ Unknown \in Windows
BY DriverAssumption DEF CallNumbers, Units, Unknown, Windows

LEMMA Starts == Init => DriverInv
<1> SUFFICES ASSUME Init PROVE DriverInv
  OBVIOUS
<1>1. TypeOK
  <2>1. FlagType
    BY Zenon DEF Init, FlagType
  <2>2. EngineType
    BY Numbers, DriverAssumption DEF Init, EngineType, Programs
  <2>3. TableType
    BY DEF Init, TableType
  <2>4. AskType
    BY Numbers DEF Init, AskType
  <2>5. CallType
    BY Numbers, DriverAssumption DEF Init, NoCall, CallType, Programs, CallNumbers
  <2>6. LastType
    BY Numbers DEF Init, NoneEnded, LastType
  <2> QED
    BY <2>1, <2>2, <2>3, <2>4, <2>5, <2>6, Types
<1>2. TableInv
  BY DEF Init, TableInv, Owned
<1>3. CallerInv /\ OwnResult
  BY DEF Init, CallerInv, OwnResult, Answered, Free, NoCall, NoneEnded
<1>4. MessageInv
  BY DEF Init, MessageInv, Sound
<1>5. ErrorInv
  BY Zenon DEF Init, ErrorInv
<1> QED
  BY <1>1, <1>2, <1>3, <1>4, <1>5 DEF DriverInv
-----------------------------------------------------------------------------
(* The character device and the session calls: they come between jobs and  *)
(* change the table, and of a message only that a new session has none.    *)
TableStep ==
  /\ Free /\ UNCHANGED <<engineVars, call, jobs, last, disturbed>>
  /\ \/ asked' = asked
     \/ \E s \in Sessions : asked' = [asked EXCEPT ![s] = {0}]

LEMMA TableSteps ==
  ASSUME Device \/ SessionCalls
  PROVE  TableStep /\ entries' = entries + 1
<1>1. CASE Device
  <2> PICK u \in Units, p \in Processes : Open(u, p) \/ Close(u, p) \/ Mmap(u, p)
    BY <1>1 DEF Device
  <2> QED
    BY DEF Open, Close, Mmap, Entered, askVars, TableStep
<1>2. CASE SessionCalls
  <2> PICK p \in Processes : \/ GetSession(p)
                             \/ \E u \in Sessions, c \in given[p] : CloseSession(u, p, c)
    BY <1>2 DEF SessionCalls
  <2>1. CASE GetSession(p)
    BY <2>1 DEF GetSession, Entered, FreeSessions, TableStep
  <2>2. CASE \E u \in Sessions, c \in given[p] : CloseSession(u, p, c)
    BY <2>2 DEF CloseSession, Entered, askVars, TableStep
  <2> QED
    BY <2>1, <2>2
<1> QED
  BY <1>1, <1>2

LEMMA PowerIsABit ==
  ASSUME FlagType, Device \/ SessionCalls
  PROVE  on' \in BOOLEAN
<1>1. CASE Device
  <2> PICK u \in Units, p \in Processes : Open(u, p) \/ Close(u, p) \/ Mmap(u, p)
    BY <1>1 DEF Device
  <2>1. CASE Open(u, p)
    BY <2>1, Zenon DEF Open
  <2>2. CASE Close(u, p)
    BY <2>2, Zenon DEF Close, PowerDown, FlagType
  <2>3. CASE Mmap(u, p)
    BY <2>3, Zenon DEF Mmap, FlagType
  <2> QED
    BY <2>1, <2>2, <2>3
<1>2. CASE SessionCalls
  BY <1>2, Zenon DEF SessionCalls, GetSession, CloseSession, FlagType
<1> QED
  BY <1>1, <1>2

LEMMA OpenKeeps ==
  ASSUME TableType, TableInv, NEW u \in Units, NEW p \in Processes, Open(u, p)
  PROVE  TableType' /\ TableInv'
<1>1. /\ UNCHANGED tableVars /\ open' = open \cup {<<u, p>>}
      /\ u # 0 => u \in active_sessions
  BY DEF Open
<1>2. TableType'
  BY <1>1 DEF TableType, tableVars
<1>3. ASSUME NEW s \in Sessions, Owned(s)' PROVE s \in active_sessions'
  <2>1. CASE <<s, held[s].who>> = <<u, p>>
    BY <1>1, <2>1, DriverAssumption DEF tableVars
  <2>2. CASE <<s, held[s].who>> # <<u, p>>
    BY <1>1, <1>3, <2>2 DEF tableVars, Owned, TableInv
  <2> QED
    BY <2>1, <2>2
<1> QED
  BY <1>1, <1>2, <1>3 DEF TableInv, tableVars

LEMMA CloseKeeps ==
  ASSUME TableType, TableInv, NEW u \in Units, NEW p \in Processes, Close(u, p)
  PROVE  TableType' /\ TableInv'
<1>1. /\ UNCHANGED <<sessions_cookies, held, given>> /\ open' = open \ {<<u, p>>}
      /\ active_sessions' \subseteq active_sessions /\ mapped_sessions' \subseteq mapped_sessions
      /\ \/ active_sessions' = active_sessions
         \/ /\ active_sessions' = active_sessions \ {u}
            /\ \A q \in Processes : <<u, q>> \notin open'
  BY DEF Close, Forget
<1>2. TableType'
  BY <1>1 DEF TableType
<1>3. ASSUME NEW s \in Sessions, Owned(s)' PROVE s \in active_sessions'
  <2>1. Owned(s) /\ s \in active_sessions
    BY <1>1, <1>3 DEF Owned, TableInv
  <2>2. held[s].who \in Processes
    BY <2>1 DEF TableType, Owned
  <2>3. <<s, held[s].who>> \in open'
    BY <1>1, <1>3 DEF Owned
  <2> QED
    BY <1>1, <2>1, <2>2, <2>3
<1> QED
  BY <1>1, <1>2, <1>3 DEF TableInv

LEMMA CloseSessionKeeps ==
  ASSUME TableType, TableInv,
         NEW u \in Sessions, NEW p \in Processes, NEW c \in given[p], CloseSession(u, p, c)
  PROVE  TableType' /\ TableInv'
<1>1. /\ UNCHANGED <<given, open>> /\ active_sessions' = active_sessions \ {u}
      /\ mapped_sessions' = mapped_sessions \ {u}
      /\ sessions_cookies' = [sessions_cookies EXCEPT ![u] = NoCookie]
      /\ held' = IF held[u].who = p THEN [held EXCEPT ![u] = Nobody] ELSE held
      /\ u \in active_sessions /\ sessions_cookies[u] = c
  BY DEF CloseSession, Forget, CheckSession
<1>2. held[u].who = p
  <2>1. held[u] \in [who : Processes, cookie : Cookies] /\ c \in given[held[u].who]
    BY <1>1 DEF TableInv, TableType
  <2> QED
    BY <2>1 DEF TableInv
<1>3. held' = [held EXCEPT ![u] = Nobody]
  BY <1>1, <1>2
<1>4. TableType'
  BY <1>1, <1>3 DEF TableType
<1>5. ASSUME NEW s \in Sessions, s # u
      PROVE  held'[s] = held[s] /\ sessions_cookies'[s] = sessions_cookies[s]
  BY <1>1, <1>3, <1>5 DEF TableType
<1>6. ~Owned(u)'
  BY <1>3 DEF Owned, TableType
<1>7. ASSUME NEW s \in active_sessions'
      PROVE  /\ held'[s] # Nobody /\ held'[s].cookie = sessions_cookies'[s]
             /\ sessions_cookies'[s] \in given'[held'[s].who]
  <2>1. s \in Sessions /\ s # u /\ s \in active_sessions
    BY <1>1, <1>7 DEF TableType
  <2> QED
    BY <1>1, <1>5, <2>1 DEF TableInv
<1>8. ASSUME NEW s \in Sessions, Owned(s)' PROVE s \in active_sessions'
  <2>1. s # u
    BY <1>6, <1>8
  <2> QED
    BY <1>1, <1>5, <1>8, <2>1 DEF Owned, TableInv
<1> QED
  BY <1>1, <1>4, <1>7, <1>8 DEF TableInv

LEMMA GetSessionKeeps ==
  ASSUME TableType, TableInv, NEW p \in Processes, GetSession(p)
  PROVE  TableType' /\ TableInv'
<1> PICK s \in FreeSessions, c \in FreshCookies :
       /\ active_sessions' = active_sessions \cup {s}
       /\ sessions_cookies' = [sessions_cookies EXCEPT ![s] = c]
       /\ held' = [held EXCEPT ![s] = [who |-> p, cookie |-> c]]
       /\ given' = [given EXCEPT ![p] = @ \cup {c}]
  BY DEF GetSession
<1>1. UNCHANGED <<mapped_sessions, open>>
  BY DEF GetSession
<1>2. /\ s \in Sessions /\ s \notin active_sessions /\ c \in Cookies
      /\ \A q \in Processes : c \notin given[q]
  BY DEF FreeSessions, FreshCookies
<1>3. TableType'
  BY <1>1, <1>2 DEF TableType
<1>4. [who |-> p, cookie |-> c] # Nobody
  BY DriverAssumption DEF Nobody
<1>5. /\ held'[s] = [who |-> p, cookie |-> c] /\ sessions_cookies'[s] = c
      /\ given'[p] = given[p] \cup {c}
      /\ \A t \in Sessions : t # s =>
           held'[t] = held[t] /\ sessions_cookies'[t] = sessions_cookies[t]
      /\ \A q \in Processes : q # p => given'[q] = given[q]
  BY <1>2 DEF TableType
<1>6. ASSUME NEW t \in active_sessions'
      PROVE  /\ held'[t] # Nobody /\ held'[t].cookie = sessions_cookies'[t]
             /\ sessions_cookies'[t] \in given'[held'[t].who]
  <2>1. CASE t = s
    BY <1>4, <1>5, <2>1
  <2>2. CASE t # s
    <3>1. t \in Sessions /\ t \in active_sessions
      BY <1>6, <2>2 DEF TableType
    <3>2. held[t].who \in Processes
      BY <3>1 DEF TableInv, TableType
    <3> QED
      BY <1>5, <2>2, <3>1, <3>2 DEF TableInv
  <2> QED
    BY <2>1, <2>2
<1>7. ASSUME NEW t \in Sessions, Owned(t)' PROVE t \in active_sessions'
  BY <1>1, <1>5, <1>7 DEF Owned, TableInv
<1>8. ASSUME NEW q \in Processes, NEW r \in Processes, q # r
      PROVE  given'[q] \cap given'[r] = {}
  BY <1>2, <1>5, <1>8 DEF TableInv
<1> QED
  BY <1>3, <1>6, <1>7, <1>8 DEF TableInv

LEMMA TableNext ==
  ASSUME TableType, TableInv, Device \/ SessionCalls
  PROVE  TableType' /\ TableInv'
<1>1. CASE Device
  <2> PICK u \in Units, p \in Processes : Open(u, p) \/ Close(u, p) \/ Mmap(u, p)
    BY <1>1 DEF Device
  <2>1. CASE Mmap(u, p)
    <3>1. /\ mapped_sessions' = mapped_sessions \cup {u} /\ u \in active_sessions
          /\ UNCHANGED <<active_sessions, sessions_cookies, held, given, open>>
      BY <2>1 DEF Mmap
    <3> QED
      BY <3>1 DEF TableType, TableInv, Owned
  <2> QED
    BY <2>1, OpenKeeps, CloseKeeps
<1>2. CASE SessionCalls
  BY <1>2, GetSessionKeeps, CloseSessionKeeps DEF SessionCalls
<1> QED
  BY <1>1, <1>2

LEMMA TableKeeps ==
  ASSUME DriverInv, Device \/ SessionCalls
  PROVE  DriverInv'
<1>1. TableStep /\ entries' = entries + 1
  BY TableSteps
<1>2. TableType /\ FlagType /\ EngineType /\ AskType /\ CallType /\ LastType
  BY Types DEF DriverInv
<1>3. TableType' /\ TableInv'
  BY <1>2, TableNext DEF DriverInv
<1>4. FlagType'
  <2>1. UNCHANGED <<running, abort, failed>>
    BY <1>1 DEF TableStep, engineVars
  <2> QED
    BY <1>2, <2>1, PowerIsABit, Zenon DEF FlagType
<1>5. EngineType' /\ AskType' /\ CallType' /\ LastType'
  BY <1>1, <1>2, Numbers DEF EngineType, AskType, CallType, LastType, TableStep, engineVars
<1>6. TypeOK'
  <2>1. (TypeOK <=> TableType /\ FlagType /\ EngineType /\ AskType /\ CallType /\ LastType)'
    BY Types, PTL
  <2> QED
    BY <1>3, <1>4, <1>5, <2>1
<1>7. Free' /\ CallerInv' /\ ErrorInv' /\ OwnResult'
  BY <1>1 DEF DriverInv, CallerInv, ErrorInv, OwnResult, Answered, TableStep, engineVars, Free
<1>8. MessageInv'
  <2> SUFFICES ASSUME NEW u \in Sessions, Sound(u)' PROVE Rests(u)'
    BY <1>7 DEF MessageInv
  <2>1. asked'[u] = asked[u]
    BY <1>1, <1>2 DEF TableStep, Sound, AskType
  <2>2. Sound(u)
    BY <1>1, <2>1 DEF Sound, TableStep
  <2>3. Rests(u)
    BY <1>1, <2>2 DEF DriverInv, MessageInv, TableStep
  <2> QED
    BY <1>1, <2>1, <2>3 DEF Rests, TableStep, engineVars
<1> QED
  BY <1>3, <1>6, <1>7, <1>8 DEF DriverInv
-----------------------------------------------------------------------------
(* The calls leave the table alone.                                        *)
LEMMA TableStays ==
  ASSUME TableType, TableInv, UNCHANGED tableVars, open' = open
  PROVE  TableType' /\ TableInv'
BY DEF TableType, TableInv, Owned, tableVars

LEMMA TypesNext ==
  ASSUME TableType', FlagType', EngineType', AskType', CallType', LastType'
  PROVE  TypeOK'
<1>1. (TypeOK <=> TableType /\ FlagType /\ EngineType /\ AskType /\ CallType /\ LastType)'
  BY Types, PTL
<1> QED
  BY <1>1

(* CHECKSESSION: the cookie of a session in use is known to its owner only.*)
LEMMA CookieNamesOwner ==
  ASSUME TableType, TableInv, NEW u \in Sessions, NEW p \in Processes, NEW c \in given[p],
         CheckSession(u, c)
  PROVE  held[u].who = p
<1>1. u \in active_sessions /\ sessions_cookies[u] = c
  BY DEF CheckSession
<1>2. held[u] \in [who : Processes, cookie : Cookies] /\ c \in given[held[u].who]
  BY <1>1 DEF TableInv, TableType
<1> QED
  BY <1>2 DEF TableInv

(* What every job's call begins with.                                      *)
LEMMA EnterTypes ==
  ASSUME TypeOK, TableInv, NEW u \in Units, NEW p \in Processes, NEW kind \in Programs,
         Enter(u, p, kind), csr' \in [window : Units, program : Programs], AskType'
  PROVE  TypeOK' /\ TableInv' /\ jobs' \in CallNumbers /\ jobs' # 0
<1>1. TableType /\ FlagType /\ EngineType /\ CallType /\ LastType
  BY Types
<1>2. TableType' /\ TableInv'
  BY <1>1, TableStays DEF Enter
<1>3. FlagType'
  BY <1>1, Zenon DEF FlagType, Enter
<1>4. jobs' \in CallNumbers /\ jobs' # 0
  BY <1>1, DriverAssumption DEF CallType, Enter, CallNumbers
<1>5. CallType'
  <2>1. call' = [pc |-> "load", unit |-> u, kind |-> kind, who |-> p, count |-> 0]
        /\ entries' = entries + 1
    BY DEF Enter, Entered
  <2> QED
    BY <1>1, <1>4, <2>1, DriverAssumption DEF CallType
<1>6. EngineType'
  <2>1. (outcome' = outcome \/ outcome' = {0}) /\ UNCHANGED <<left, rf>>
    BY DEF Enter
  <2> QED
    BY <1>1, <2>1, Numbers DEF EngineType
<1>7. LastType'
  BY Numbers DEF Enter, LastType, NoneEnded
<1> QED
  BY <1>2, <1>3, <1>4, <1>5, <1>6, <1>7, TypesNext

LEMMA GcmKeeps ==
  ASSUME DriverInv, NEW u \in Sessions, NEW p \in Processes, NEW c \in given[p],
         NEW kind \in GcmKinds, Gcm(u, p, c, kind)
  PROVE  DriverInv'
<1>1. /\ u # 0 /\ CheckSession(u, c) /\ Enter(u, p, kind) /\ Asked(u, kind)
      /\ csr' = [window |-> u, program |-> kind]
  BY DEF Gcm
<1>2. TableType /\ FlagType /\ EngineType /\ AskType /\ CallType /\ LastType
  BY Types DEF DriverInv
<1>3. u \in Units /\ kind \in Programs
  BY DEF Units, Programs
<1>4. jobs' \in CallNumbers
  BY <1>1, <1>2, DriverAssumption DEF CallType, Enter, CallNumbers
<1>5. AskType'
  <2>1. asked' \in [Sessions -> SUBSET CallNumbers]
    BY <1>1, <1>2, <1>4 DEF Asked, AskType
  <2>2. ASSUME NEW b \in BOOLEAN PROVE (~on \/ (kind = "next" /\ (b \/ running))) \in BOOLEAN
    BY Zenon
  <2>3. disturbed' \in [Sessions -> BOOLEAN]
    BY <1>1, <1>2, <2>2 DEF Asked, AskType
  <2> QED
    BY <2>1, <2>3 DEF AskType
<1>6. TypeOK' /\ TableInv'
  BY <1>1, <1>3, <1>5, EnterTypes DEF DriverInv
<1>7. held[u].who = p
  BY <1>1, <1>2, CookieNamesOwner DEF DriverInv
<1>8. Free /\ ~Free' /\ call' = [pc |-> "load", unit |-> u, kind |-> kind, who |-> p, count |-> 0]
  BY <1>1 DEF Enter, Entered, Free
<1>9. CallerInv'
  BY <1>1, <1>7, <1>8 DEF CallerInv, Enter, tableVars
<1>10. ErrorInv'
  BY <1>1, Zenon DEF DriverInv, ErrorInv, Enter
<1>11. OwnResult'
  BY <1>1 DEF Enter, OwnResult, Answered, NoneEnded
<1>12. MessageInv'
  <2> SUFFICES ASSUME NEW v \in Sessions, Sound(v)'
               PROVE  IF v = u THEN Attended(v)' ELSE Rests(v)'
    BY <1>8 DEF MessageInv
  <2>1. UNCHANGED <<on, running, rf>>
    BY <1>1 DEF Enter
  <2>2. CASE v # u
    <3>1. asked'[v] = asked[v] /\ disturbed'[v] = disturbed[v]
      BY <1>1, <1>2, <2>2 DEF Asked, AskType
    <3>2. Sound(v) /\ Rests(v)
      BY <1>8, <3>1 DEF Sound, DriverInv, MessageInv
    <3> QED
      BY <1>1, <2>1, <2>2, <3>1, <3>2 DEF Rests
  <2>3. CASE v = u
    <3>1. /\ asked'[u] = IF kind = "pfx" THEN {jobs'} ELSE asked[u] \cup {jobs'}
          /\ disturbed'[u] = (~on \/ (kind = "next" /\ (disturbed[u] \/ running)))
      BY <1>1, <1>2 DEF Asked, AskType
    <3>2. on
      BY <2>3, <3>1, Zenon DEF Sound
    <3>3. ASSUME kind = "next" PROVE ~running /\ rf[u].out \cup {jobs'} = asked'[u]
      <4>1. ~disturbed[u] /\ ~running
        BY <2>3, <3>1, <3>3, Zenon DEF Sound
      <4>2. asked'[u] = asked[u] \cup {jobs'}
        BY <3>1, <3>3
      <4>3. Sound(u)
        BY <2>3, <4>1, <4>2 DEF Sound
      <4>4. rf[u].out = asked[u]
        BY <1>8, <4>3 DEF DriverInv, MessageInv, Rests
      <4> QED
        BY <4>1, <4>2, <4>4
    <3>4. Ready(u)'
      BY <1>8, <2>1, <3>1, <3>3 DEF Ready, GcmKinds
    <3> QED
      BY <1>8, <2>1, <2>3, <3>2, <3>4 DEF Attended
  <2> QED
    BY <2>2, <2>3
<1> QED
  BY <1>6, <1>9, <1>10, <1>11, <1>12 DEF DriverInv

LEMMA TestKeeps ==
  ASSUME DriverInv, NEW p \in Processes, NEW kind \in Tests, Test(p, kind)
  PROVE  DriverInv'
<1>1. Enter(0, p, kind) /\ UNCHANGED askVars /\ csr' = [csr EXCEPT !.program = kind]
  BY DEF Test
<1>2. TableType /\ FlagType /\ EngineType /\ AskType /\ CallType /\ LastType
  BY Types DEF DriverInv
<1>3. 0 \in Units /\ kind \in Programs /\ kind \notin GcmKinds
  BY DriverAssumption, Numbers DEF Programs, GcmKinds
<1>4. AskType' /\ csr' \in [window : Units, program : Programs]
  BY <1>1, <1>2, <1>3 DEF AskType, askVars, EngineType
<1>5. TypeOK' /\ TableInv'
  BY <1>1, <1>3, <1>4, EnterTypes DEF DriverInv
<1>6. Free /\ ~Free' /\ call' = [pc |-> "load", unit |-> 0, kind |-> kind, who |-> p, count |-> 0]
  BY <1>1 DEF Enter, Entered, Free
<1>7. CallerInv'
  BY <1>1, <1>2, <1>3, <1>6 DEF CallerInv, EngineType
<1>8. ErrorInv'
  BY <1>1, Zenon DEF DriverInv, ErrorInv, Enter
<1>9. OwnResult'
  BY <1>1 DEF Enter, OwnResult, Answered, NoneEnded
<1>10. MessageInv'
  <2> SUFFICES ASSUME NEW v \in Sessions, Sound(v)' PROVE Rests(v)'
    BY <1>6, DriverAssumption DEF MessageInv
  <2>1. Sound(v)
    BY <1>1 DEF Sound, askVars
  <2>2. Rests(v)
    BY <1>6, <2>1 DEF DriverInv, MessageInv
  <2> QED
    BY <1>1, <1>2, <2>2 DEF Rests, Enter, askVars, EngineType
<1> QED
  BY <1>5, <1>7, <1>8, <1>9, <1>10 DEF DriverInv

(* A call's return: an error marks the message, and what is handed out     *)
(* without one is what the message was asked for.                          *)
LEMMA ReturnKeeps ==
  ASSUME DriverInv, ~Free, NEW err \in BOOLEAN, NEW out \in SUBSET CallNumbers, Return(err, out),
         ~err /\ call.unit # 0 =>
           ~running /\ out = rf[call.unit].out /\ (Sound(call.unit) => out = asked[call.unit])
  PROVE  DriverInv'
<1>1. TableType /\ FlagType /\ EngineType /\ AskType /\ CallType /\ LastType
  BY Types DEF DriverInv
<1>2. UNCHANGED <<on, entries, tableVars, open, jobs, engineVars, disturbed>> /\ call' = NoCall
  BY DEF Return
<1>3. call.unit \in Units /\ (call.unit # 0 => call.unit \in Sessions)
  BY <1>1 DEF CallType, Units
<1>4. asked' = IF err /\ call.unit # 0 THEN [asked EXCEPT ![call.unit] = @ \cup {0}] ELSE asked
  BY DEF Return
<1>5. AskType'
  <2>1. asked' \in [Sessions -> SUBSET CallNumbers]
    BY <1>1, <1>4, Numbers DEF AskType
  <2> QED
    BY <1>1, <1>2, <2>1 DEF AskType
<1>6. LastType'
  <2>1. CASE call.unit = 0
    BY <2>1, Numbers DEF Return, LastType, NoneEnded
  <2>2. CASE call.unit # 0
    <3>1. asked'[call.unit] \in SUBSET CallNumbers /\ disturbed[call.unit] \in BOOLEAN
      BY <1>1, <1>3, <1>5, <2>2 DEF AskType
    <3>2. last' = [unit |-> call.unit, err |-> err, out |-> out,
                   asked |-> asked'[call.unit], disturbed |-> disturbed[call.unit]]
      BY <2>2 DEF Return
    <3> QED
      BY <1>3, <3>1, <3>2 DEF LastType
  <2> QED
    BY <2>1, <2>2
<1>7. TableType' /\ TableInv'
  BY <1>1, <1>2, TableStays DEF DriverInv
<1>8. FlagType'
  BY <1>1, <1>2, Zenon DEF FlagType, engineVars
<1>9. EngineType' /\ CallType'
  BY <1>1, <1>2, Numbers, DriverAssumption DEF EngineType, CallType, engineVars, NoCall, Programs
<1>10. TypeOK'
  BY <1>5, <1>6, <1>7, <1>8, <1>9, TypesNext
<1>11. Free' /\ CallerInv'
  BY <1>2 DEF Free, CallerInv, NoCall
<1>12. ErrorInv'
  BY <1>2, Zenon DEF DriverInv, ErrorInv, engineVars
<1>13. OwnResult'
  <2>1. CASE call.unit = 0
    BY <2>1 DEF Return, OwnResult, Answered, NoneEnded
  <2>2. CASE err /\ call.unit # 0
    BY <2>2 DEF Return, OwnResult, Answered
  <2>3. CASE ~err /\ call.unit # 0
    BY <1>2, <1>4, <2>3 DEF Return, OwnResult, Answered, Sound
  <2> QED
    BY <2>1, <2>2, <2>3
<1>14. MessageInv'
  <2> SUFFICES ASSUME NEW v \in Sessions, Sound(v)' PROVE Rests(v)'
    BY <1>11 DEF MessageInv
  <2>1. asked'[v] = asked[v] /\ (v = call.unit => ~err)
    BY <1>1, <1>3, <1>4, DriverAssumption DEF Sound, AskType
  <2>2. Sound(v)
    BY <1>2, <2>1 DEF Sound
  <2>3. CASE v # call.unit
    <3>1. Rests(v)
      BY <2>2, <2>3 DEF DriverInv, MessageInv
    <3> QED
      BY <1>2, <2>1, <3>1 DEF Rests, engineVars
  <2>4. CASE v = call.unit
    <3>1. ~running /\ rf[v].out = asked[v]
      BY <2>1, <2>2, <2>4, DriverAssumption
    <3> QED
      BY <1>2, <2>1, <3>1 DEF Rests, engineVars
  <2> QED
    BY <2>3, <2>4
<1> QED
  BY <1>7, <1>10, <1>11, <1>12, <1>13, <1>14 DEF DriverInv

LEMMA LoadKeeps ==
  ASSUME DriverInv, Load
  PROVE  DriverInv'
<1>1. TableType /\ FlagType /\ EngineType /\ AskType /\ CallType /\ LastType
  BY Types DEF DriverInv
<1>2. /\ UNCHANGED <<on, entries, tableVars, askVars, open, jobs, last, csr, running, abort,
                    failed, left, outcome>>
      /\ call.pc = "load" /\ ~running /\ call' = [call EXCEPT !.pc = "start"]
      /\ rf' = IF on THEN [rf EXCEPT ![call.unit].in = jobs] ELSE rf
  BY DEF Load
<1>3. call.unit \in Units /\ jobs \in CallNumbers
  BY <1>1 DEF CallType
<1>4. EngineType'
  <2>1. rf' \in [Units -> Windows]
    BY <1>1, <1>2, <1>3 DEF EngineType, Windows
  <2> QED
    BY <1>1, <1>2, <2>1 DEF EngineType
<1>5. AskType' /\ CallType' /\ LastType'
  BY <1>1, <1>2 DEF AskType, askVars, CallType, LastType
<1>6. FlagType'
  BY <1>1, <1>2, Zenon DEF FlagType
<1>7. TableType' /\ TableInv'
  BY <1>1, <1>2, TableStays DEF DriverInv
<1>8. TypeOK'
  BY <1>4, <1>5, <1>6, <1>7, TypesNext
<1>9. ~Free /\ ~Free' /\ CallerInv'
  BY <1>1, <1>2 DEF DriverInv, CallerInv, CallType, Free, tableVars
<1>10. ErrorInv'
  BY <1>2, Zenon DEF DriverInv, ErrorInv
<1>11. OwnResult'
  BY <1>2 DEF DriverInv, OwnResult, Answered
<1>12. MessageInv'
  <2> SUFFICES ASSUME NEW v \in Sessions, Sound(v)'
               PROVE  IF call.unit # v THEN Rests(v)' ELSE Attended(v)'
    BY <1>1, <1>2, <1>9 DEF MessageInv, CallType
  <2>1. Sound(v)
    BY <1>2 DEF Sound, askVars
  <2>2. \A u \in Units : u # call.unit => rf'[u] = rf[u]
    BY <1>1, <1>2, <1>3 DEF EngineType
  <2>3. CASE call.unit # v
    <3>1. Rests(v)
      BY <1>9, <2>1, <2>3 DEF DriverInv, MessageInv
    <3> QED
      BY <1>2, <2>2, <2>3, <3>1 DEF Rests, askVars, Units
  <2>4. CASE call.unit = v
    <3>1. on /\ Ready(v)
      BY <1>2, <1>9, <2>1, <2>4 DEF DriverInv, MessageInv, Attended
    <3>2. rf'[v].in = jobs /\ rf'[v].out = rf[v].out
      BY <1>1, <1>2, <1>3, <2>4, <3>1 DEF EngineType, Windows
    <3>3. Ready(v)'
      BY <1>1, <1>2, <3>1, <3>2 DEF Ready, CallType, askVars
    <3>4. call'.pc = "start" /\ on' /\ ~running' /\ rf'[v].in = jobs'
      BY <1>1, <1>2, <3>1, <3>2 DEF CallType
    <3> QED
      BY <2>4, <3>3, <3>4, Zenon DEF Attended
  <2> QED
    BY <2>3, <2>4
<1> QED
  BY <1>7, <1>8, <1>9, <1>10, <1>11, <1>12 DEF DriverInv

LEMMA StartKeeps ==
  ASSUME DriverInv, StartJob, ~running
  PROVE  DriverInv'
<1>1. TableType /\ FlagType /\ EngineType /\ AskType /\ CallType /\ LastType
  BY Types DEF DriverInv
<1>2. /\ UNCHANGED <<on, entries, tableVars, open, jobs, last, csr, rf, asked>>
      /\ call.pc = "start" /\ call' = [call EXCEPT !.pc = "wait"]
      /\ disturbed' = IF call.unit = 0 /\ csr.window # 0
                      THEN [disturbed EXCEPT ![csr.window] = TRUE] ELSE disturbed
  BY DEF StartJob
<1>3. \/ running' = TRUE /\ failed' = FALSE /\ abort' = FALSE /\ left' \in 1 .. MaxWork
         /\ outcome' = Outcome
      \/ ~on /\ UNCHANGED <<running, failed, abort, left, outcome>>
  BY Zenon DEF StartJob
<1>4. FlagType'
  BY <1>1, <1>2, <1>3, Zenon DEF FlagType
<1>5. Outcome \subseteq CallNumbers
  BY <1>1, Numbers DEF Outcome, EngineType, Windows
<1>6. EngineType'
  <2>1. left' \in 0 .. MaxWork /\ outcome' \subseteq CallNumbers
    BY <1>1, <1>3, <1>5, DriverAssumption DEF EngineType
  <2> QED
    BY <1>1, <1>2, <2>1 DEF EngineType
<1>7. AskType' /\ CallType' /\ LastType'
  BY <1>1, <1>2 DEF AskType, CallType, LastType
<1>8. TableType' /\ TableInv'
  BY <1>1, <1>2, TableStays DEF DriverInv
<1>9. TypeOK'
  BY <1>4, <1>6, <1>7, <1>8, TypesNext
<1>10. ~Free /\ ~Free' /\ CallerInv'
  BY <1>1, <1>2 DEF DriverInv, CallerInv, CallType, Free, tableVars
<1>11. ErrorInv'
  <2>1. CASE ~failed' /\ ~abort'
    BY <2>1, Zenon DEF ErrorInv
  <2>2. CASE failed' = failed /\ abort' = abort
    BY <2>2, Zenon DEF DriverInv, ErrorInv
  <2> QED
    BY <1>3, <2>1, <2>2, Zenon
<1>12. OwnResult'
  BY <1>2 DEF DriverInv, OwnResult, Answered
<1>13. MessageInv'
  <2> SUFFICES ASSUME NEW v \in Sessions, Sound(v)'
               PROVE  IF call.unit # v THEN Rests(v)' ELSE Attended(v)'
    BY <1>1, <1>2, <1>10 DEF MessageInv, CallType
  <2>1. disturbed'[v] = disturbed[v] /\ ~(call.unit = 0 /\ csr.window = v)
    <3>1. v # 0 /\ v \in Units
      BY DriverAssumption DEF Units
    <3> QED
      BY <1>1, <1>2, <3>1 DEF Sound, AskType
  <2>2. Sound(v)
    BY <1>2, <2>1 DEF Sound
  <2>3. CASE call.unit # v
    <3>1. rf[v].out = asked[v]
      BY <1>10, <2>2, <2>3 DEF DriverInv, MessageInv, Rests
    <3>2. csr.window # v
      BY <1>10, <2>1, <2>3 DEF DriverInv, CallerInv
    <3> QED
      BY <1>2, <2>3, <3>1, <3>2 DEF Rests
  <2>4. CASE call.unit = v
    <3>1. on /\ rf[v].in = jobs /\ Ready(v)
      BY <1>2, <1>10, <2>2, <2>4 DEF DriverInv, MessageInv, Attended
    <3>2. running' /\ outcome' = Outcome
      BY <1>3, <3>1, Zenon
    <3>3. csr.window = v /\ csr.program = call.kind /\ call.kind \in GcmKinds
      BY <1>10, <2>4, DriverAssumption DEF DriverInv, CallerInv
    <3>4. Outcome = asked[v]
      BY <3>1, <3>3 DEF Outcome, Ready, GcmKinds
    <3>5. call'.pc = "wait" /\ outcome' = asked'[v] /\ on'
      BY <1>1, <1>2, <3>1, <3>2, <3>4 DEF CallType
    <3> QED
      BY <2>4, <3>2, <3>5, Zenon DEF Attended
  <2> QED
    BY <2>3, <2>4
<1> QED
  BY <1>8, <1>9, <1>10, <1>11, <1>12, <1>13 DEF DriverInv

LEMMA WaitKeeps ==
  ASSUME DriverInv, WaitJob \/ CheckGivesUp
  PROVE  DriverInv'
<1>1. TableType /\ FlagType /\ EngineType /\ AskType /\ CallType /\ LastType
  BY Types DEF DriverInv
<1>2. /\ UNCHANGED <<on, entries, tableVars, askVars, open, jobs, last, engineVars>>
      /\ call.pc = "wait" /\ running
      /\ \/ call' = [call EXCEPT !.count = @ + 1] /\ call.count < MaxCount
         \/ call' = [call EXCEPT !.pc = "print"] /\ call.kind = "check"
  BY DEF WaitJob, CheckGivesUp, GivingUp
<1>3. FlagType'
  BY <1>1, <1>2, Zenon DEF FlagType, engineVars
<1>4. EngineType' /\ AskType' /\ LastType'
  BY <1>1, <1>2 DEF EngineType, AskType, LastType, engineVars, askVars
<1>5. CallType'
  BY <1>1, <1>2, DriverAssumption DEF CallType
<1>6. TableType' /\ TableInv'
  BY <1>1, <1>2, TableStays DEF DriverInv
<1>7. TypeOK'
  BY <1>3, <1>4, <1>5, <1>6, TypesNext
<1>8. ~Free /\ ~Free' /\ CallerInv'
  BY <1>1, <1>2 DEF DriverInv, CallerInv, CallType, Free, tableVars, engineVars
<1>9. ErrorInv'
  BY <1>2, Zenon DEF DriverInv, ErrorInv, engineVars
<1>10. OwnResult'
  BY <1>2 DEF DriverInv, OwnResult, Answered
<1>11. MessageInv'
  <2> SUFFICES ASSUME NEW v \in Sessions, Sound(v)'
               PROVE  IF call.unit # v THEN Rests(v)' ELSE Attended(v)'
    BY <1>1, <1>2, <1>8 DEF MessageInv, CallType
  <2>1. Sound(v)
    BY <1>2 DEF Sound, askVars
  <2>2. CASE call.unit # v
    <3>1. Rests(v)
      BY <1>8, <2>1, <2>2 DEF DriverInv, MessageInv
    <3> QED
      BY <1>2, <2>2, <3>1 DEF Rests, askVars, engineVars
  <2>3. CASE call.unit = v
    <3>1. on /\ outcome = asked[v]
      BY <1>2, <1>8, <2>1, <2>3 DEF DriverInv, MessageInv, Attended
    <3>2. (call'.pc = "wait" \/ call'.pc = "print") /\ on' /\ running' /\ outcome' = asked'[v]
      BY <1>1, <1>2, <3>1 DEF CallType, askVars, engineVars
    <3> QED
      BY <2>3, <3>2, Zenon DEF Attended
  <2> QED
    BY <2>2, <2>3
<1> QED
  BY <1>6, <1>7, <1>8, <1>9, <1>10, <1>11 DEF DriverInv

LEMMA CallsKeep ==
  ASSUME DriverInv, Calls
  PROVE  DriverInv'
<1>1. {} \in SUBSET CallNumbers /\ TRUE \in BOOLEAN /\ FALSE \in BOOLEAN
  OBVIOUS
<1>2. CASE LoadRefused \/ WaitGivesUp \/ CheckPrinted \/ JobFailed
  <2>1. Return(TRUE, {}) /\ ~Free
    BY <1>2 DEF LoadRefused, WaitGivesUp, GivingUp, CheckPrinted, JobFailed, Free
  <2> QED
    BY <1>1, <2>1, ReturnKeeps
<1>3. CASE JobDone
  <2>1. /\ call.pc = "wait" /\ ~running /\ ~abort /\ ~Free
        /\ Return(FALSE, rf[call.unit].out)
    BY <1>3 DEF JobDone, Free
  <2>2. rf[call.unit].out \in SUBSET CallNumbers
    BY Types DEF DriverInv, EngineType, CallType, Windows
  <2>3. ASSUME call.unit # 0, Sound(call.unit) PROVE rf[call.unit].out = asked[call.unit]
    <3>1. call.unit \in Sessions
      BY <2>3, Types DEF DriverInv, CallType, Units
    <3> QED
      BY <2>1, <2>3, <3>1 DEF DriverInv, MessageInv, Attended
  <2> QED
    BY <1>1, <2>1, <2>2, <2>3, ReturnKeeps
<1>4. CASE StartJob
  <2>1. CASE running
    <3>1. Return(TRUE, {}) /\ ~Free
      BY <1>4, <2>1 DEF StartJob, Free
    <3> QED
      BY <1>1, <3>1, ReturnKeeps
  <2> QED
    BY <1>4, <2>1, StartKeeps
<1> QED
  BY <1>2, <1>3, <1>4, LoadKeeps, WaitKeeps DEF Calls
-----------------------------------------------------------------------------
(* An instruction: what becomes of the window it runs in and of the flags. *)
LEMMA WorkSteps ==
  ASSUME Work
  PROVE  /\ running /\ UNCHANGED <<on, entries, tableVars, askVars, open, call, jobs, last, csr>>
         /\ (left > 1 /\ left' = left - 1) \/ left' = 0
         /\ outcome' = outcome \/ outcome' = {}
         /\ \/ rf' = [rf EXCEPT ![csr.window] = Unknown]
            \/ rf' = [rf EXCEPT ![csr.window] = [in |-> 0, out |-> outcome]]
            \/ rf' = rf
         /\ (failed = abort) => (failed' = abort')
         /\ running' => outcome' = outcome
         /\ ~running' /\ ~abort' => rf' = [rf EXCEPT ![csr.window] = [in |-> 0, out |-> outcome]]
<1>1. running /\ UNCHANGED <<on, entries, tableVars, askVars, open, call, jobs, last, csr>>
  BY Zenon DEF Work
<1>2. (outcome' = outcome \/ outcome' = {}) /\ (running' => outcome' = outcome)
  BY Zenon DEF Work
<1>3. CASE /\ left > 1 /\ left' = left - 1
           /\ rf' = [rf EXCEPT ![csr.window] = Unknown]
           /\ UNCHANGED <<running, abort, failed>>
  BY <1>1, <1>2, <1>3, Zenon
<1>4. CASE /\ left = 1 /\ left' = 0
           /\ rf' = [rf EXCEPT ![csr.window] = [in |-> 0, out |-> outcome]]
           /\ running' = FALSE /\ UNCHANGED <<abort, failed>>
  BY <1>1, <1>2, <1>4, Zenon
<1>5. CASE /\ left' = 0 /\ running' = FALSE
           /\ failed' = TRUE /\ abort' = TRUE
           /\ UNCHANGED rf
  BY <1>1, <1>2, <1>5, Zenon
<1> QED
  BY <1>3, <1>4, <1>5, Zenon DEF Work

LEMMA WorkKeeps ==
  ASSUME DriverInv, Work
  PROVE  DriverInv'
<1>1. TableType /\ FlagType /\ EngineType /\ AskType /\ CallType /\ LastType
  BY Types DEF DriverInv
<1>2. running /\ UNCHANGED <<on, entries, tableVars, askVars, open, call, jobs, last, csr>>
  BY WorkSteps, Zenon
<1>3. FlagType'
  BY <1>1, Zenon DEF FlagType, Work
<1>4. \/ rf' = [rf EXCEPT ![csr.window] = Unknown]
      \/ rf' = [rf EXCEPT ![csr.window] = [in |-> 0, out |-> outcome]]
      \/ rf' = rf
  BY WorkSteps, Zenon
<1>5. EngineType'
  <2>1. left' \in 0 .. MaxWork
    <3>1. (left > 1 /\ left' = left - 1) \/ left' = 0
      BY WorkSteps, Zenon
    <3> QED
      BY <1>1, <3>1, DriverAssumption DEF EngineType
  <2>2. outcome' = outcome \/ outcome' = {}
    BY WorkSteps, Zenon
  <2>3. [in |-> 0, out |-> outcome] \in Windows
    BY <1>1, Numbers DEF EngineType, Windows
  <2> QED
    BY <1>1, <1>2, <1>4, <2>1, <2>2, <2>3, Numbers DEF EngineType
<1>6. AskType' /\ CallType' /\ LastType'
  BY <1>1, <1>2 DEF AskType, askVars, CallType, LastType
<1>7. TableType' /\ TableInv'
  BY <1>1, <1>2, TableStays DEF DriverInv
<1>8. TypeOK'
  BY <1>3, <1>5, <1>6, <1>7, TypesNext
<1>9. CallerInv'
  BY <1>2 DEF DriverInv, CallerInv, Free, tableVars
<1>10. ErrorInv'
  <2>1. failed = abort
    BY <1>1, Zenon DEF DriverInv, ErrorInv, FlagType
  <2>2. failed' = abort'
    BY <2>1, WorkSteps, Zenon
  <2> QED
    BY <2>2, Zenon DEF ErrorInv
<1>11. OwnResult'
  BY <1>2 DEF DriverInv, OwnResult, Answered
<1>12. MessageInv'
  <2> SUFFICES ASSUME NEW v \in Sessions, Sound(v)'
               PROVE  IF Free \/ call.unit # v THEN Rests(v)' ELSE Attended(v)'
    BY <1>2 DEF MessageInv, Free
  <2>1. Sound(v)
    BY <1>2 DEF Sound, askVars
  <2>2. CASE Free \/ call.unit # v
    <3>1. Rests(v)
      BY <2>1, <2>2 DEF DriverInv, MessageInv
    <3>2. csr.window # v /\ v \in Units
      BY <1>2, <3>1 DEF Rests, Units
    <3>3. rf'[v] = rf[v]
      BY <1>1, <1>4, <3>2 DEF EngineType
    <3> QED
      BY <1>2, <2>2, <3>1, <3>2, <3>3 DEF Rests, askVars
  <2>3. CASE ~(Free \/ call.unit # v)
    <3>1. Attended(v)
      BY <2>1, <2>3 DEF DriverInv, MessageInv
    <3>2. csr.window = v /\ v \in Units /\ call.kind \in GcmKinds
      BY <2>3, DriverAssumption DEF DriverInv, CallerInv, Units
    <3>3. CASE call.pc = "wait"
      <4>1. on /\ outcome = asked[v]
        BY <1>2, <3>1, <3>3 DEF Attended
      <4>2. running' => outcome' = asked'[v]
        BY <1>2, <4>1, WorkSteps, Zenon DEF askVars
      <4>3. ASSUME ~running', ~abort' PROVE rf'[v].out = asked'[v]
        <5>1. rf' = [rf EXCEPT ![csr.window] = [in |-> 0, out |-> outcome]]
          BY <4>3, WorkSteps, Zenon
        <5> QED
          BY <1>1, <1>2, <3>2, <4>1, <5>1 DEF EngineType, askVars
      <4>4. call'.pc = "wait" /\ on'
        BY <1>2, <3>3, <4>1
      <4> QED
        BY <2>3, <4>2, <4>3, <4>4, Zenon DEF Attended
    <3>4. CASE call.pc # "wait"
      <4>1. call.pc # "start" /\ (call.pc = "load" => call.kind = "pfx" /\ asked[v] = {jobs})
        BY <1>2, <3>1, <3>2 DEF Attended, Ready, GcmKinds
      <4>2. on
        BY <3>1 DEF Attended
      <4> QED
        BY <1>2, <2>3, <3>4, <4>1, <4>2 DEF Attended, Ready, askVars
    <3> QED
      BY <3>3, <3>4
  <2> QED
    BY <2>2, <2>3
<1> QED
  BY <1>7, <1>8, <1>9, <1>10, <1>11, <1>12 DEF DriverInv

LEMMA StutterKeeps ==
  ASSUME DriverInv, UNCHANGED vars
  PROVE  DriverInv'
<1>1. TypeOK' /\ TableInv' /\ CallerInv'
  BY DEF DriverInv, TypeOK, TableInv, Owned, CallerInv, Free, vars, engineVars, tableVars, askVars
<1>2. MessageInv' /\ OwnResult'
  BY DEF DriverInv, MessageInv, Sound, Rests, Attended, Ready, OwnResult, Answered, Free,
         vars, engineVars, askVars
<1>3. ErrorInv'
  BY Zenon DEF DriverInv, ErrorInv, vars, engineVars
<1> QED
  BY <1>1, <1>2, <1>3 DEF DriverInv

LEMMA StepKeeps == DriverInv /\ [Next]_vars => DriverInv'
<1> SUFFICES ASSUME DriverInv, [Next]_vars PROVE DriverInv'
  OBVIOUS
<1>1. CASE Device \/ SessionCalls
  BY <1>1, TableKeeps
<1>2. CASE Jobs
  BY <1>2, GcmKeeps, TestKeeps DEF Jobs
<1>3. CASE Calls
  BY <1>3, CallsKeep
<1>4. CASE Work
  BY <1>4, WorkKeeps
<1>5. CASE UNCHANGED vars
  BY <1>5, StutterKeeps
<1> QED
  BY <1>1, <1>2, <1>3, <1>4, <1>5 DEF Next

LEMMA DriverKept == Spec => []DriverInv
BY Starts, StepKeeps, PTL DEF Spec
-----------------------------------------------------------------------------
(* Types: the table names sessions, the window is one of the units', the   *)
(* counters stay in their bounds.                                          *)
THEOREM DriverTypeCorrect == Spec => []TypeOK
<1>1. DriverInv => TypeOK
  BY DEF DriverInv
<1> QED
  BY DriverKept, <1>1, PTL

(* CHECKSESSION: a job of a session that is running came from the process  *)
(* the session was given to last.                                          *)
THEOREM JobsAreTheOwners == Spec => []OwnersOnly
<1>1. DriverInv => OwnersOnly
  BY DEF DriverInv, CallerInv, OwnersOnly
<1> QED
  BY DriverKept, <1>1, PTL

(* wait_job and the windows: when no call of a message failed, the power   *)
(* was on and the engine at rest for the calls that build on the window,   *)
(* and no job of unit 0 took it, a call's result is that of the whole      *)
(* message and of nothing else.                                            *)
THEOREM ResultsAreOnesOwn == Spec => []OwnResult
<1>1. DriverInv => OwnResult
  BY DEF DriverInv
<1> QED
  BY DriverKept, <1>1, PTL

(* get_session, close and CLOSESESSION: what its owner has open stays his, *)
(* and nobody else's close, call or session takes it from him.             *)
THEOREM OwnersStay == Spec => SessionsKept
<1> DEFINE Kept == \A s \in Sessions :
        Owned(s) /\ <<s, held[s].who>> \in open' /\ held'[s] # Nobody =>
          held'[s] = held[s] /\ CheckSession(s, held[s].cookie)'
<1>1. DriverInv /\ DriverInv' /\ [Next]_vars => [Kept]_vars
  <2> SUFFICES ASSUME DriverInv, DriverInv', [Next]_vars, NEW s \in Sessions,
                      Owned(s), <<s, held[s].who>> \in open', held'[s] # Nobody
               PROVE  held'[s] = held[s] /\ CheckSession(s, held[s].cookie)'
    OBVIOUS
  <2>1. s \in active_sessions
    BY DEF DriverInv, TableInv
  <2>2. held'[s] = held[s]
    <3>1. CASE Device
      BY <3>1 DEF Device, Open, Close, Mmap, tableVars
    <3>2. CASE SessionCalls
      <4> PICK p \in Processes : \/ GetSession(p)
                                 \/ \E u \in Sessions, c \in given[p] : CloseSession(u, p, c)
        BY <3>2 DEF SessionCalls
      <4>1. CASE GetSession(p)
        BY <2>1, <4>1 DEF GetSession, FreeSessions, DriverInv, TypeOK
      <4>2. CASE \E u \in Sessions, c \in given[p] : CloseSession(u, p, c)
        BY <4>2 DEF CloseSession, DriverInv, TypeOK
      <4> QED
        BY <4>1, <4>2
    <3>3. CASE Jobs
      BY <3>3 DEF Jobs, Gcm, Test, Enter, tableVars
    <3>4. CASE Calls \/ Work \/ UNCHANGED vars
      BY <3>4 DEF Calls, LoadRefused, Load, StartJob, WaitJob, WaitGivesUp, CheckGivesUp,
                  CheckPrinted, JobFailed, JobDone, Return, Work, vars, tableVars
    <3> QED
      BY <3>1, <3>2, <3>3, <3>4 DEF Next
  <2>3. Owned(s)'
    BY <2>2 DEF Owned
  <2>4. s \in active_sessions' /\ sessions_cookies'[s] = held[s].cookie
    BY <2>2, <2>3 DEF DriverInv, TableInv
  <2>5. held[s].cookie # NoCookie
    <3>1. held[s] \in [who : Processes, cookie : Cookies]
      BY DEF DriverInv, TypeOK, Owned
    <3> QED
      BY <3>1, DriverAssumption
  <2> QED
    BY <2>2, <2>4, <2>5 DEF CheckSession
<1> QED
  BY DriverKept, <1>1, PTL DEF Spec, SessionsKept
-----------------------------------------------------------------------------
(* The engine as the driver uses it is the engine of EngineJob.            *)
LEMMA JobStarts == Init => Engine!JobInit
<1>1. Init => csr.window \in Units /\ rf \in [Units -> Windows]
  BY Numbers DEF Init
<1>2. Init => running = FALSE /\ failed = FALSE /\ abort = FALSE
  BY Zenon DEF Init
<1> QED
  BY <1>1, <1>2, Zenon DEF Engine!JobInit

LEMMA JobSteps == DriverInv /\ [Next]_vars => [Engine!JobNext]_(Engine!jobVars)
<1> SUFFICES ASSUME DriverInv, [Next]_vars
             PROVE  Engine!JobNext \/ UNCHANGED Engine!jobVars
  OBVIOUS
<1>0. DriverInv'
  BY StepKeeps
<1>1. CASE Device \/ SessionCalls
  BY <1>1, TableSteps DEF TableStep, engineVars, Engine!jobVars
<1>2. CASE Jobs
  <2>1. UNCHANGED <<running, failed, abort, rf>>
    BY <1>2 DEF Jobs, Gcm, Test, Enter
  <2>2. csr'.window \in Units
    BY <1>0 DEF DriverInv, TypeOK
  <2> QED
    BY <2>1, <2>2 DEF Engine!JobNext, Engine!Select
<1>3. CASE Load
  BY <1>0, <1>3 DEF Load, DriverInv, TypeOK, Engine!JobNext, Engine!Load
<1>4. CASE StartJob /\ ~running
  BY <1>4, Zenon DEF StartJob, Engine!JobNext, Engine!Go, Engine!jobVars
<1>5. CASE \/ LoadRefused \/ (StartJob /\ running) \/ WaitJob \/ WaitGivesUp \/ CheckGivesUp
           \/ CheckPrinted \/ JobFailed \/ JobDone \/ UNCHANGED vars
  BY <1>5 DEF LoadRefused, StartJob, WaitJob, WaitGivesUp, CheckGivesUp, CheckPrinted,
              JobFailed, JobDone, Return, vars, engineVars, Engine!jobVars
<1>6. CASE Work
  <2>1. \E v \in Windows : rf' = [rf EXCEPT ![csr.window] = v]
    <3>1. csr.window \in Units /\ rf \in [Units -> Windows] /\ rf' \in [Units -> Windows]
      BY <1>0 DEF DriverInv, TypeOK
    <3>2. \/ rf' = [rf EXCEPT ![csr.window] = Unknown]
          \/ rf' = [rf EXCEPT ![csr.window] = [in |-> 0, out |-> outcome]]
          \/ rf' = rf
      BY <1>6, WorkSteps, Zenon
    <3>3. rf' = [rf EXCEPT ![csr.window] = rf'[csr.window]]
      BY <3>1, <3>2
    <3> QED
      BY <3>1, <3>3
  <2>2. /\ running /\ running' \in BOOLEAN
        /\ failed' \in {failed, TRUE} /\ abort' \in {abort, failed, failed'}
        /\ UNCHANGED csr
    BY <1>6, Zenon DEF Work, DriverInv, TypeOK
  <2>3. failed = abort
    BY Zenon DEF DriverInv, ErrorInv, TypeOK
  <2>4. abort' = failed'
    BY <1>6, <2>3, WorkSteps, Zenon
  <2> QED
    BY <2>1, <2>2, <2>4, Zenon DEF Engine!JobNext, Engine!Work
<1> QED
  BY <1>1, <1>2, <1>3, <1>4, <1>5, <1>6 DEF Next, Calls

(* The driver keeps to EngineJob: it selects windows at any time, but      *)
(* touches the register file and starts jobs only while none is running.   *)
THEOREM DriverUsesTheEngine == Spec => EngineAsPromised
BY JobStarts, JobSteps, DriverKept, PTL DEF Spec, EngineAsPromised, Engine!JobSpec
=============================================================================
