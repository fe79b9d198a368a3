------------------------- MODULE SystemProxyProofs -------------------------
(***************************************************************************)
(* Proofs about SystemProxy: for any services and any number of clients    *)
(* the user's settings can be restored.                                    *)
(***************************************************************************)
EXTENDS SystemProxy, TLAPS

\* A set is alone.
Alone ==
    \A c, d \in Clients : c # d /\ req[c].pc \in Setting => req[d].pc = "idle"

\* What is recorded of service s is the user's.
Fair(s, v) == v = "no" \/ Original(s, v)

\* Nothing of ours was taken for the user's.
Honest ==
    \A s \in Services \ missed :
        Fair(s, saved[s]) /\ \A c \in Clients : Fair(s, req[c].snapshot[s])

Changed(s) == s \notin missed /\ ~Original(s, setting[s])

\* What a set knows at its points: its snapshot agrees with the file, and
\* nothing is configured before the file has it.
SetInv(r) ==
    /\ r.pc \in {"exists", "save", "create"} => file # "cut"
    /\ r.pc = "exists" => r.snapshot = saved
    /\ r.pc = "save" =>
        /\ \A s \in r.todo : r.snapshot[s] = "no"
        /\ \A s \in r.services : r.snapshot[s] = "no" => s \in r.todo
        /\ ~r.changed => file = "ok" /\ r.todo = {} /\ r.snapshot = saved
    /\ r.pc \in {"save", "create"} =>
        \A s \in Services : saved[s] # "no" => r.snapshot[s] = saved[s]
    /\ r.pc \in {"create", "write"} => \A s \in r.services : r.snapshot[s] # "no"
    /\ r.pc = "write" => file = "cut" /\ \A s \in Services : Changed(s) => Original(s, r.snapshot[s])
    /\ r.pc = "configure" =>
        /\ file = "ok" /\ r.todo \subseteq r.services
        /\ \A s \in r.services : saved[s] # "no"

\* What a restore knows: whatever is not as the user left it is in its
\* snapshot, and has its turn unless it was not listed.
RestoreInv(r) ==
    /\ r.pc = "existing" => \A s \in Services : Changed(s) => r.snapshot[s] # "no"
    /\ r.pc = "restore" => \A s \in Services : Changed(s) =>
          s \in r.todo \/ (r.snapshot[s] # "no" /\ s \notin r.services)

\* A restore only treats services that were recorded.
Todo(r) == r.pc = "restore" => \A s \in r.todo : r.snapshot[s] # "no"

RequestInv == Alone /\ Honest /\ \A c \in Clients : SetInv(req[c]) /\ RestoreInv(req[c])

\* The original settings of s can be had, as far as the file and those who
\* write it can tell: a spoiled file has no writer.
Had(s) ==
    \/ file = "ok" /\ Original(s, saved[s])
    \/ /\ file = "cut" /\ again
       /\ \A c \in Clients : req[c].pc = "write" => Original(s, req[c].snapshot[s])

SettingsInv == ~raced => \A s \in Services \ missed : Original(s, setting[s]) \/ Had(s)

ProxyInv ==
    /\ TypeOK /\ \A c \in Clients : Todo(req[c])
    /\ file # "ok" => saved = NoneSaved
    /\ ~raced => RequestInv /\ SettingsInv

-----------------------------------------------------------------------------
LEMMA IdleRequest == Idle \in Request /\ Idle.pc = "idle" /\ Idle.snapshot = NoneSaved
  BY DEF Idle, Request, NoneSaved

\* The invariant says nothing of an idle request.
LEMMA IdleInv ==
    ASSUME NEW r \in Request, r.pc = "idle" PROVE SetInv(r) /\ RestoreInv(r)
  BY DEF SetInv, RestoreInv

LEMMA InitProxy == Init => ProxyInv
  <1> SUFFICES ASSUME Init PROVE ProxyInv
    OBVIOUS
  <1>1. \A c \in Clients : req[c] = Idle
    BY DEF Init
  <1>2. TypeOK /\ saved = NoneSaved /\ missed = {}
    BY IdleRequest DEF Init, TypeOK, NoneSaved
  <1>3. Alone /\ Honest
    BY <1>1, <1>2, IdleRequest DEF Alone, Honest, Fair, NoneSaved
  <1>4. \A c \in Clients : SetInv(req[c]) /\ RestoreInv(req[c])
    BY <1>1, IdleRequest DEF SetInv, RestoreInv
  <1>5. SettingsInv
    BY DEF Init, SettingsInv, Original
  <1>6. \A c \in Clients : Todo(req[c])
    BY <1>1, IdleRequest DEF Todo
  <1>7. QED
    BY <1>2, <1>3, <1>4, <1>5, <1>6 DEF ProxyInv, RequestInv

Others(c) == \A d \in Clients : d # c => req'[d] = req[d]

LEMMA TodoKept ==
    ASSUME ProxyInv, NEW c \in Clients, Others(c), Todo(req'[c])
    PROVE  \A d \in Clients : Todo(req[d])'
  BY DEF ProxyInv, Others, Todo

\* A step that only changes the request of c, and what could not be read.
LEMMA LocalStep ==
    ASSUME ProxyInv, NEW c \in Clients, req' \in [Clients -> Request], Others(c),
           UNCHANGED <<listed, setting, file, saved, raced, missed, again>>,
           unread \subseteq unread', unread' \in SUBSET Services,
           req'[c].pc \in Setting => req[c].pc \in Setting,
           req'[c].pc # "idle" => req[c].pc # "idle",
           req'[c].pc # "write", Todo(req'[c]),
           ~raced => /\ SetInv(req'[c]) /\ RestoreInv(req'[c])
                     /\ \A s \in Services \ missed : (Fair(s, req[c].snapshot[s]))'
    PROVE  ProxyInv'
  <1>1. UNCHANGED <<listed, setting, file, saved, raced, missed, again>>
    OBVIOUS
  <1>2. TypeOK'
    BY <1>1 DEF ProxyInv, TypeOK
  <1>3. ASSUME ~raced PROVE RequestInv' /\ SettingsInv'
    <2>1. Alone'
      BY <1>3 DEF ProxyInv, RequestInv, Alone, Others
    <2>2. Honest'
      BY <1>1, <1>3 DEF ProxyInv, RequestInv, Honest, Fair, Original, Others
    <2>3. \A d \in Clients : (SetInv(req[d]))' /\ (RestoreInv(req[d]))'
      <3> SUFFICES ASSUME NEW d \in Clients PROVE (SetInv(req[d]))' /\ (RestoreInv(req[d]))'
        OBVIOUS
      <3>1. SetInv(req'[d]) /\ RestoreInv(req'[d])
        BY <1>3 DEF ProxyInv, RequestInv, Others
      <3>2. QED
        BY <1>1, <3>1 DEF SetInv, RestoreInv, Changed, Original
    <2>4. SettingsInv'
      BY <1>1, <1>3 DEF ProxyInv, SettingsInv, Had, Original, Others
    <2>5. QED
      BY <2>1, <2>2, <2>3, <2>4 DEF RequestInv
  <1>4. QED
    BY <1>1, <1>2, <1>3, TodoKept DEF ProxyInv

\* A step that changes nothing but the request of c.
LEMMA QuietStep ==
    ASSUME ProxyInv, NEW c \in Clients, req' \in [Clients -> Request], Others(c),
           UNCHANGED <<listed, setting, file, saved, histVars>>,
           req'[c].pc \in Setting => req[c].pc \in Setting,
           req'[c].pc # "idle" => req[c].pc # "idle",
           req'[c].pc # "write", Todo(req'[c]),
           ~raced => /\ SetInv(req'[c]) /\ RestoreInv(req'[c])
                     /\ \A s \in Services \ missed : Fair(s, req'[c].snapshot[s])
    PROVE  ProxyInv'
  <1>1. UNCHANGED <<listed, setting, file, saved, raced, missed, again>> /\ unread' = unread
    BY DEF histVars
  <1>2. unread \in SUBSET Services
    BY DEF ProxyInv, TypeOK
  <1>3. ~raced => \A s \in Services \ missed : (Fair(s, req[c].snapshot[s]))'
    BY <1>1 DEF Fair, Original
  <1>4. QED
    BY <1>1, <1>2, <1>3, LocalStep

\* A request begins; the history records an overlap.
LEMMA RequestProxy ==
    ASSUME ProxyInv, NEW c \in Clients, SetRequest(c) \/ RestoreRequest(c) PROVE ProxyInv'
  <1>1. PICK p \in {"list", "open"} : req' = [req EXCEPT ![c].pc = p]
    BY DEF SetRequest, RestoreRequest, Goto
  <1>2. req \in [Clients -> Request] /\ req[c].pc = "idle"
    BY DEF SetRequest, RestoreRequest, Busy, ProxyInv, TypeOK
  <1>3. /\ req' \in [Clients -> Request] /\ req'[c].pc = p
        /\ req'[c].snapshot = req[c].snapshot /\ Others(c)
    BY SMTT(30), <1>1, <1>2 DEF Request, Setting, Restoring, Others
  <1>4. UNCHANGED <<listed, setting, file, saved, missed, unread, again>> /\ raced' \in BOOLEAN
    BY DEF SetRequest, RestoreRequest, ProxyInv, TypeOK
  <1>5. TypeOK'
    BY <1>3, <1>4 DEF ProxyInv, TypeOK
  <1>6. ASSUME ~raced' PROVE RequestInv' /\ SettingsInv'
    <2>1. RequestInv /\ SettingsInv /\ ~raced
      BY <1>6 DEF SetRequest, RestoreRequest, ProxyInv
    <2>2. /\ p = "list" => \A d \in Clients : d # c => req[d].pc = "idle"
          /\ \A d \in Clients : d # c => req[d].pc \notin Setting
      <3>1. CASE SetRequest(c)
        BY <1>6, <3>1 DEF SetRequest, Busy, Setting
      <3>2. CASE RestoreRequest(c)
        <4>1. req'[c].pc = "open"
          BY <1>2, <3>2 DEF RestoreRequest, Goto, Request
        <4>2. QED
          BY <1>3, <1>6, <3>2, <4>1 DEF RestoreRequest
      <3>3. QED
        BY <3>1, <3>2
    <2>3. Alone'
      BY <1>3, <2>2 DEF Alone, Others, Setting
    <2>4. Honest'
      BY <1>3, <1>4, <2>1 DEF RequestInv, Honest, Fair, Original, Others
    <2>5. \A d \in Clients : (SetInv(req[d]))' /\ (RestoreInv(req[d]))'
      BY <1>3, <1>4, <2>1 DEF RequestInv, SetInv, RestoreInv, Changed, Original, Others
    <2>6. SettingsInv'
      BY <1>3, <1>4, <2>1 DEF SettingsInv, Had, Original, Others
    <2>7. QED
      BY <2>3, <2>4, <2>5, <2>6 DEF RequestInv
  <1>7. QED
    BY <1>1, <1>3, <1>4, <1>5, <1>6, TodoKept DEF ProxyInv, Todo

\* Returning is a local step.
LEMMA ReturnStep ==
    ASSUME ProxyInv, NEW c \in Clients, Return(c)
    PROVE  req' \in [Clients -> Request] /\ Others(c) /\ req'[c] = Idle
  BY IdleRequest DEF ProxyInv, TypeOK, Return, Others

LEMMA ReturnProxy ==
    ASSUME ProxyInv, NEW c \in Clients, Return(c), UNCHANGED <<listed, setting, file, saved, histVars>>
    PROVE  ProxyInv'
  <1>1. /\ req' \in [Clients -> Request] /\ Others(c) /\ req'[c] = Idle
        /\ req'[c].pc = "idle" /\ req'[c].snapshot = NoneSaved
    BY ReturnStep, IdleRequest
  <1>2. SetInv(req'[c]) /\ RestoreInv(req'[c])
    BY <1>1, IdleInv
  <1>3. \A s \in Services : Fair(s, req'[c].snapshot[s])
    BY <1>1 DEF NoneSaved, Fair
  <1>4. req'[c].pc \notin Setting /\ req'[c].pc # "write"
    BY <1>1 DEF Setting
  <1>5. QED
    BY <1>1, <1>2, <1>3, <1>4, QuietStep DEF Todo

-----------------------------------------------------------------------------
(* set_system_proxy.                                                       *)

LEMMA SetListProxy == ASSUME ProxyInv, NEW c \in Clients, SetList(c) PROVE ProxyInv'
  <1>1. req' = [req EXCEPT ![c].pc = "read", ![c].services = listed] /\ req[c].pc = "list"
    BY DEF SetList
  <1>2. /\ req' \in [Clients -> Request] /\ Others(c) /\ req'[c].pc = "read"
        /\ req'[c].snapshot = req[c].snapshot
    <2>1. req \in [Clients -> Request] /\ listed \in SUBSET Services
      BY DEF ProxyInv, TypeOK
    <2>2. QED
      BY ZenonT(60), <1>1, <2>1 DEF Request, Setting, Others
  <1>3. SetInv(req'[c]) /\ RestoreInv(req'[c])
    BY <1>2 DEF SetInv, RestoreInv
  <1>4. ~raced => \A s \in Services \ missed : Fair(s, req'[c].snapshot[s])
    BY <1>2 DEF ProxyInv, RequestInv, Honest
  <1>5. QED
    BY <1>1, <1>2, <1>3, <1>4, QuietStep DEF SetList, Setting, Todo

LEMMA SetReadProxy == ASSUME ProxyInv, NEW c \in Clients, SetRead(c) PROVE ProxyInv'
  <1>1. /\ req' = [req EXCEPT ![c].pc = "exists", ![c].snapshot = saved]
        /\ req[c].pc = "read" /\ file # "cut"
    BY DEF SetRead
  <1>2. /\ req' \in [Clients -> Request] /\ Others(c) /\ req'[c].pc = "exists"
        /\ req'[c].snapshot = saved
    <2>1. req \in [Clients -> Request] /\ saved \in [Services -> {"no"} \cup Recordable]
      BY DEF ProxyInv, TypeOK
    <2> DEFINE r == [req[c] EXCEPT !.pc = "exists", !.snapshot = saved]
    <2>2. r \in Request /\ r.pc = "exists" /\ r.snapshot = saved
      <3>1. req[c] \in Request /\ "exists" \in {"idle"} \cup Setting \cup Restoring
        BY <2>1 DEF Setting
      <3>2. QED
        BY <2>1, <3>1 DEF Request
    <2>3. req' = [req EXCEPT ![c] = r]
      BY <1>1, <2>1
    <2>4. QED
      BY <2>1, <2>2, <2>3 DEF Others
  <1>3. SetInv(req'[c]) /\ RestoreInv(req'[c])
    BY <1>1, <1>2 DEF SetInv, RestoreInv
  <1>4. ~raced => \A s \in Services \ missed : Fair(s, req'[c].snapshot[s])
    BY <1>2 DEF ProxyInv, RequestInv, Honest
  <1>5. QED
    BY <1>1, <1>2, <1>3, <1>4, QuietStep DEF SetRead, Setting, Todo

LEMMA SetExistsProxy == ASSUME ProxyInv, NEW c \in Clients, SetExists(c) PROVE ProxyInv'
  <1> DEFINE todo == Unsaved(req[c])
             chg == file = "none" \/ Unsaved(req[c]) # {}
  <1>1. /\ req' = [req EXCEPT ![c].pc = "save", ![c].todo = todo, ![c].changed = chg]
        /\ req[c].pc = "exists"
    BY DEF SetExists
  <1>2. req \in [Clients -> Request] /\ todo \in SUBSET Services /\ chg \in BOOLEAN
    BY DEF ProxyInv, TypeOK, Request, Unsaved
  <1> HIDE DEF todo, chg
  <1>3. /\ req' \in [Clients -> Request] /\ Others(c) /\ req'[c].pc = "save"
        /\ req'[c].snapshot = req[c].snapshot /\ req'[c].services = req[c].services
        /\ req'[c].todo = todo /\ req'[c].changed = chg
    BY ZenonT(60), <1>1, <1>2 DEF Request, Setting, Others
  <1>4. ASSUME ~raced PROVE SetInv(req'[c])
    <2>1. file # "cut" /\ req[c].snapshot = saved
      BY <1>1, <1>4 DEF ProxyInv, RequestInv, SetInv
    <2>2. file \in {"none", "ok", "cut"}
      BY DEF ProxyInv, TypeOK
    <2>3. QED
      BY <1>3, <2>1, <2>2 DEF SetInv, Unsaved, todo, chg
  <1>5. RestoreInv(req'[c])
    BY <1>3 DEF RestoreInv
  <1>6. ~raced => \A s \in Services \ missed : Fair(s, req'[c].snapshot[s])
    BY <1>3 DEF ProxyInv, RequestInv, Honest
  <1>7. QED
    BY <1>1, <1>3, <1>4, <1>5, <1>6, QuietStep DEF SetExists, Setting, Todo

\* What is recorded is the user's: were it ours, the file would have it.
LEMMA SetSaveProxy == ASSUME ProxyInv, NEW c \in Clients, SetSave(c) PROVE ProxyInv'
  <1>1. PICK s \in req[c].todo \cap listed : \E v \in Readings(setting[s]) :
            /\ req' = [req EXCEPT ![c].snapshot[s] = v, ![c].todo = @ \ {s}]
            /\ unread' = IF v = "less" THEN unread \cup {s} ELSE unread
    BY DEF SetSave
  <1>2. PICK v \in Readings(setting[s]) :
            /\ req' = [req EXCEPT ![c].snapshot[s] = v, ![c].todo = @ \ {s}]
            /\ unread' = IF v = "less" THEN unread \cup {s} ELSE unread
    BY <1>1
  <1>3. /\ req \in [Clients -> Request] /\ s \in Services /\ unread \in SUBSET Services
        /\ setting[s] \in {"user", "worn", "less", "ours"}
    BY <1>1 DEF ProxyInv, TypeOK, Request
  <1>4. /\ v \in Recordable /\ v # "no" /\ (v = "ours" <=> setting[s] = "ours")
        /\ setting[s] = "less" => v = "less"
    BY <1>3 DEF Readings, Recordable
  <1> DEFINE snap == [req[c].snapshot EXCEPT ![s] = v]
  <1>5. snap \in [Services -> {"no"} \cup Recordable]
    BY <1>3, <1>4 DEF Request
  <1>6. req[c].pc = "save" /\ UNCHANGED <<listed, setting, file, saved, raced, missed, again>>
    BY DEF SetSave
  <1>7. /\ req' \in [Clients -> Request] /\ Others(c) /\ req'[c].pc = "save"
        /\ req'[c].snapshot = snap /\ req'[c].services = req[c].services
        /\ req'[c].todo = req[c].todo \ {s} /\ req'[c].changed = req[c].changed
    BY <1>2, <1>3, <1>5, <1>6 DEF Request, Others
  <1>8. unread \subseteq unread' /\ unread' \in SUBSET Services /\ (v = "less" => s \in unread')
    BY <1>2, <1>3
  <1>9. ASSUME ~raced
        PROVE  /\ SetInv(req'[c])
               /\ \A u \in Services \ missed : (Fair(u, req[c].snapshot[u]))'
    <2>1. SetInv(req[c]) /\ Honest /\ SettingsInv
      BY <1>9 DEF ProxyInv, RequestInv
    <2>2. req[c].snapshot[s] = "no" /\ file # "cut" /\ saved[s] = "no" /\ req[c].changed
      BY <1>1, <1>3, <1>6, <2>1 DEF SetInv, ProxyInv, TypeOK, Request
    <2>3. s \notin missed => v # "ours"
      BY <1>3, <1>4, <1>9, <2>1, <2>2 DEF SettingsInv, Had, Original
    <2>4. SetInv(req'[c])
      BY <1>3, <1>4, <1>6, <1>7, <2>1, <2>2 DEF SetInv, Request
    <2>5. ASSUME NEW u \in Services \ missed PROVE (Fair(u, req[c].snapshot[u]))'
      <3>1. CASE u = s
        <4>1. req'[c].snapshot[u] = v /\ v \in {"user", "less"}
          BY <1>3, <1>4, <1>7, <2>3, <2>5, <3>1 DEF Request, Recordable
        <4>2. QED
          BY <1>8, <3>1, <4>1 DEF Fair, Original
      <3>2. CASE u # s
        <4>1. req'[c].snapshot[u] = req[c].snapshot[u] /\ Fair(u, req[c].snapshot[u])
          BY <1>3, <1>7, <2>1, <3>2 DEF Honest, Request
        <4>2. QED
          BY <1>8, <4>1 DEF Fair, Original
      <3>3. QED
        BY <3>1, <3>2
    <2>6. QED
      BY <2>4, <2>5
  <1>10. RestoreInv(req'[c])
    BY <1>7 DEF RestoreInv
  <1>11. QED
    BY <1>6, <1>7, <1>8, <1>9, <1>10, LocalStep DEF Setting, Todo

LEMMA SetSavedProxy == ASSUME ProxyInv, NEW c \in Clients, SetSaved(c) PROVE ProxyInv'
  <1> DEFINE p == IF req[c].changed THEN "create" ELSE "configure"
             todo == IF req[c].changed THEN {} ELSE req[c].services
  <1>1. req' = [req EXCEPT ![c].pc = p, ![c].todo = todo] /\ req[c].pc = "save" /\ req[c].todo = {}
    BY DEF SetSaved
  <1>2. req \in [Clients -> Request] /\ todo \in SUBSET Services /\ p \in {"create", "configure"}
    BY DEF ProxyInv, TypeOK, Request
  <1> HIDE DEF p, todo
  <1>3. /\ req' \in [Clients -> Request] /\ Others(c) /\ req'[c].pc = p /\ req'[c].todo = todo
        /\ req'[c].snapshot = req[c].snapshot /\ req'[c].services = req[c].services
    BY ZenonT(60), <1>1, <1>2 DEF Request, Setting, Others
  <1>4. ASSUME ~raced PROVE SetInv(req'[c])
    <2>1. SetInv(req[c])
      BY <1>4 DEF ProxyInv, RequestInv
    <2>2. CASE req[c].changed
      BY <1>1, <1>3, <2>1, <2>2 DEF SetInv, p
    <2>3. CASE ~req[c].changed
      BY <1>1, <1>3, <2>1, <2>3 DEF SetInv, p, todo
    <2>4. QED
      BY <2>2, <2>3
  <1>5. RestoreInv(req'[c])
    BY <1>2, <1>3 DEF RestoreInv
  <1>6. ~raced => \A s \in Services \ missed : Fair(s, req'[c].snapshot[s])
    BY <1>3 DEF ProxyInv, RequestInv, Honest
  <1>7. QED
    BY <1>1, <1>2, <1>3, <1>4, <1>5, <1>6, QuietStep DEF SetSaved, Setting, Todo

\* While the file is empty, the request has what it held.
LEMMA SetCreateProxy == ASSUME ProxyInv, NEW c \in Clients, SetCreate(c) PROVE ProxyInv'
  <1>1. req' = [req EXCEPT ![c].pc = "write"] /\ req[c].pc = "create"
    BY DEF SetCreate, Goto
  <1>2. /\ req' \in [Clients -> Request] /\ Others(c) /\ req'[c].pc = "write"
        /\ req'[c].snapshot = req[c].snapshot /\ req'[c].services = req[c].services
    BY ZenonT(60), <1>1 DEF ProxyInv, TypeOK, Request, Setting, Others
  <1>3. /\ UNCHANGED <<listed, setting, raced, missed, unread>> /\ file' = "cut"
        /\ saved' = NoneSaved /\ again' = (file = "ok")
    BY DEF SetCreate
  <1>4. TypeOK'
    BY <1>2, <1>3 DEF ProxyInv, TypeOK, NoneSaved
  <1>5. ASSUME ~raced PROVE RequestInv' /\ SettingsInv'
    <2>1. Alone /\ Honest /\ SettingsInv /\ \A d \in Clients : SetInv(req[d]) /\ RestoreInv(req[d])
      BY <1>5 DEF ProxyInv, RequestInv
    <2>2. \A d \in Clients : d # c => req[d].pc = "idle"
      BY <1>1, <2>1 DEF Alone, Setting
    <2>3. \A s \in Services : Changed(s) => Original(s, req[c].snapshot[s])
      BY <1>1, <1>5, <2>1 DEF SetInv, SettingsInv, Had, Changed, Original
    <2>4. Alone'
      BY <1>2, <2>2 DEF Alone, Others, Setting
    <2>5. Honest'
      BY <1>2, <1>3, <2>1 DEF Honest, Fair, Original, Others, NoneSaved
    <2>6. \A d \in Clients : (SetInv(req[d]))' /\ (RestoreInv(req[d]))'
      BY <1>1, <1>2, <1>3, <2>1, <2>2, <2>3 DEF SetInv, RestoreInv, Changed, Original, Others
    <2>7. SettingsInv'
      <3> SUFFICES ASSUME NEW s \in Services \ missed, ~Original(s, setting[s])
                   PROVE  Had(s)'
        BY <1>3 DEF SettingsInv, Original
      <3>1. file = "ok"
        BY <1>1, <1>5, <2>1 DEF SetInv, SettingsInv, Had
      <3>2. \A d \in Clients : req'[d].pc = "write" => Original(s, req'[d].snapshot[s])
        BY <1>2, <2>2, <2>3 DEF Changed, Others
      <3>3. QED
        BY <1>3, <3>1, <3>2 DEF Had, Original
    <2>8. QED
      BY <2>4, <2>5, <2>6, <2>7 DEF RequestInv
  <1>6. QED
    BY <1>2, <1>3, <1>4, <1>5, TodoKept DEF ProxyInv, Todo

LEMMA SetWriteProxy == ASSUME ProxyInv, NEW c \in Clients, SetWrite(c) PROVE ProxyInv'
  <1>1. /\ req' = [req EXCEPT ![c].pc = "configure", ![c].todo = req[c].services]
        /\ req[c].pc = "write"
    BY DEF SetWrite
  <1>2. req \in [Clients -> Request]
    BY DEF ProxyInv, TypeOK
  <1>3. /\ req' \in [Clients -> Request] /\ Others(c) /\ req'[c].pc = "configure"
        /\ req'[c].snapshot = req[c].snapshot /\ req'[c].services = req[c].services
        /\ req'[c].todo = req[c].services
    BY <1>1, <1>2 DEF Request, Setting, Others
  <1>4. /\ UNCHANGED <<listed, setting, raced, missed, unread>>
        /\ file' \in {"none", "ok", "cut"}
        /\ saved' = IF file' = "ok" THEN req[c].snapshot ELSE NoneSaved
        /\ again' = (again /\ file' = "cut")
    BY DEF SetWrite
  <1>5. saved' \in [Services -> {"no"} \cup Recordable]
    BY <1>2, <1>4 DEF Request, NoneSaved
  <1>6. TypeOK'
    BY <1>3, <1>4, <1>5 DEF ProxyInv, TypeOK
  <1>7. ASSUME ~raced PROVE RequestInv' /\ SettingsInv'
    <2>1. Alone /\ Honest /\ \A d \in Clients : SetInv(req[d]) /\ RestoreInv(req[d])
      BY <1>7 DEF ProxyInv, RequestInv
    <2>2. \A d \in Clients : d # c => req[d].pc = "idle"
      BY <1>1, <2>1 DEF Alone, Setting
    <2>3. file' = "ok" /\ saved' = req[c].snapshot
      BY <1>1, <1>4, <2>1, <2>2 DEF SetInv, SetWrite
    <2>4. Alone'
      BY <1>3, <2>2 DEF Alone, Others, Setting
    <2>5. Honest'
      BY <1>3, <1>4, <2>1, <2>3 DEF Honest, Fair, Original, Others
    <2>6. \A d \in Clients : (SetInv(req[d]))' /\ (RestoreInv(req[d]))'
      <3>1. (SetInv(req[c]))' /\ (RestoreInv(req[c]))'
        BY <1>1, <1>3, <2>1, <2>3 DEF SetInv, RestoreInv
      <3>2. \A d \in Clients : d # c => req'[d].pc = "idle"
        BY <1>3, <2>2 DEF Others
      <3>3. QED
        BY <3>1, <3>2 DEF SetInv, RestoreInv
    <2>7. SettingsInv'
      BY <1>1, <1>4, <2>1, <2>3 DEF SettingsInv, Had, Changed, Original, SetInv
    <2>8. QED
      BY <2>4, <2>5, <2>6, <2>7 DEF RequestInv
  <1>8. QED
    BY <1>3, <1>4, <1>6, <1>7, TodoKept DEF ProxyInv, Todo

\* A service of the request may become ours: the file has its settings.
LEMMA SetConfigureProxy == ASSUME ProxyInv, NEW c \in Clients, SetConfigure(c) PROVE ProxyInv'
  <1>1. PICK s \in req[c].todo \cap listed :
            /\ req' = [req EXCEPT ![c].todo = @ \ {s}]
            /\ setting' = [setting EXCEPT ![s] = "ours"]
    BY DEF SetConfigure
  <1>2. req \in [Clients -> Request] /\ req[c].pc = "configure"
    BY DEF ProxyInv, TypeOK, SetConfigure
  <1>3. /\ req' \in [Clients -> Request] /\ Others(c) /\ req'[c].pc = "configure"
        /\ req'[c].todo \subseteq req[c].todo
        /\ req'[c].snapshot = req[c].snapshot /\ req'[c].services = req[c].services
    BY <1>1, <1>2 DEF Request, Others
  <1>4. UNCHANGED <<listed, file, saved, raced, missed, unread, again>>
    BY DEF SetConfigure, histVars
  <1>5. s \in Services /\ setting \in [Services -> {"user", "worn", "less", "ours"}]
    BY <1>1 DEF ProxyInv, TypeOK, Request
  <1>6. TypeOK'
    BY <1>1, <1>3, <1>4, <1>5 DEF ProxyInv, TypeOK
  <1>7. ASSUME ~raced PROVE RequestInv' /\ SettingsInv'
    <2>1. /\ Alone /\ Honest /\ SettingsInv
          /\ \A d \in Clients : SetInv(req[d]) /\ RestoreInv(req[d])
      BY <1>7 DEF ProxyInv, RequestInv
    <2>2. \A d \in Clients : d # c => req'[d].pc = "idle"
      BY <1>2, <1>3, <2>1 DEF Alone, Setting, Others
    <2>3. file = "ok" /\ (s \notin missed => Original(s, saved[s]))
      <3>1. file = "ok" /\ saved[s] # "no"
        BY <1>1, <1>2, <2>1 DEF SetInv
      <3>2. QED
        BY <1>5, <2>1, <3>1 DEF Honest, Fair
    <2>4. Alone'
      BY <2>2 DEF Alone, Setting
    <2>5. Honest'
      BY <1>3, <1>4, <2>1 DEF Honest, Fair, Original, Others
    <2>6. \A d \in Clients : (SetInv(req[d]))' /\ (RestoreInv(req[d]))'
      <3>1. (SetInv(req[c]))' /\ (RestoreInv(req[c]))'
        BY <1>2, <1>3, <1>4, <2>1, <2>3 DEF SetInv, RestoreInv
      <3>2. QED
        BY <2>2, <3>1 DEF SetInv, RestoreInv
    <2>7. SettingsInv'
      BY <1>1, <1>4, <1>5, <1>7, <2>1, <2>3 DEF SettingsInv, Had, Original
    <2>8. QED
      BY <2>4, <2>5, <2>6, <2>7 DEF RequestInv
  <1>8. QED
    BY <1>3, <1>4, <1>6, <1>7, TodoKept DEF ProxyInv, Todo

-----------------------------------------------------------------------------
(* restore_system_proxy.                                                   *)

LEMMA RestoreReadProxy == ASSUME ProxyInv, NEW c \in Clients, RestoreRead(c) PROVE ProxyInv'
  <1>1. /\ req' = [req EXCEPT ![c].pc = "existing", ![c].snapshot = saved]
        /\ req[c].pc = "open" /\ file = "ok"
    BY DEF RestoreRead
  <1>2. req \in [Clients -> Request] /\ saved \in [Services -> {"no"} \cup Recordable]
    BY DEF ProxyInv, TypeOK
  <1>3. /\ req' \in [Clients -> Request] /\ Others(c) /\ req'[c].pc = "existing"
        /\ req'[c].snapshot = saved
    <2> DEFINE r == [req[c] EXCEPT !.pc = "existing", !.snapshot = saved]
    <2>1. r \in Request /\ r.pc = "existing" /\ r.snapshot = saved
      <3>1. req[c] \in Request /\ "existing" \in {"idle"} \cup Setting \cup Restoring
        BY <1>2 DEF Restoring
      <3>2. QED
        BY <1>2, <3>1 DEF Request
    <2>2. req' = [req EXCEPT ![c] = r]
      BY <1>1, <1>2
    <2>3. QED
      BY <1>2, <2>1, <2>2 DEF Others
  <1>4. ~raced => SetInv(req'[c]) /\ RestoreInv(req'[c])
    BY <1>1, <1>3 DEF SetInv, RestoreInv, ProxyInv, SettingsInv, Had, Changed, Original
  <1>5. ~raced => \A s \in Services \ missed : Fair(s, req'[c].snapshot[s])
    BY <1>3 DEF ProxyInv, RequestInv, Honest
  <1>6. QED
    BY <1>1, <1>3, <1>4, <1>5, QuietStep DEF RestoreRead, Setting, Todo

LEMMA RestoreListProxy == ASSUME ProxyInv, NEW c \in Clients, RestoreList(c) PROVE ProxyInv'
  <1> DEFINE todo == Recorded(req[c]) \cap listed
  <1>1. /\ req' = [req EXCEPT ![c].pc = "restore", ![c].services = listed, ![c].todo = todo]
        /\ req[c].pc = "existing"
    BY DEF RestoreList
  <1>2. req \in [Clients -> Request] /\ listed \in SUBSET Services /\ todo \in SUBSET Services
    BY DEF ProxyInv, TypeOK
  <1> HIDE DEF todo
  <1>3. /\ req' \in [Clients -> Request] /\ Others(c) /\ req'[c].pc = "restore"
        /\ req'[c].snapshot = req[c].snapshot /\ req'[c].services = listed /\ req'[c].todo = todo
    BY ZenonT(60), <1>1, <1>2 DEF Request, Restoring, Others
  <1>4. ~raced => SetInv(req'[c]) /\ RestoreInv(req'[c])
    BY <1>1, <1>3 DEF SetInv, RestoreInv, ProxyInv, RequestInv, Recorded, todo
  <1>5. ~raced => \A s \in Services \ missed : Fair(s, req'[c].snapshot[s])
    BY <1>3 DEF ProxyInv, RequestInv, Honest
  <1>6. QED
    BY <1>1, <1>3, <1>4, <1>5, QuietStep DEF RestoreList, Setting, Todo, Recorded, todo

\* What is written back is the user's, if the record is.
LEMMA WrittenBackOriginal ==
    ASSUME NEW s, NEW w \in {"user", "worn", "less", "ours"}, NEW v \in Recordable,
           NEW u \in WrittenBack(w, v)
    PROVE  u \in {"user", "worn", "less", "ours"} /\ (Original(s, v) => Original(s, u))
  BY DEF WrittenBack, Recordable, Original

\* Services that restores put back are the user's again; one that was passed
\* over before may be ours for good.
LEMMA RestoreServiceProxy == ASSUME ProxyInv, NEW c \in Clients, RestoreService(c) PROVE ProxyInv'
  <1>1. PICK s \in req[c].todo \cap listed :
            /\ req' = [req EXCEPT ![c].todo = @ \ {s}]
            /\ \E v \in WrittenBack(setting[s], req[c].snapshot[s]) :
                  setting' = [setting EXCEPT ![s] = v]
    BY DEF RestoreService
  <1>2. PICK v \in WrittenBack(setting[s], req[c].snapshot[s]) :
            setting' = [setting EXCEPT ![s] = v]
    BY <1>1
  <1>3. req \in [Clients -> Request] /\ req[c].pc = "restore"
    BY DEF ProxyInv, TypeOK, RestoreService
  <1>4. /\ req' \in [Clients -> Request] /\ Others(c) /\ req'[c].pc = "restore"
        /\ req'[c].todo = req[c].todo \ {s}
        /\ req'[c].snapshot = req[c].snapshot /\ req'[c].services = req[c].services
    BY <1>1, <1>3 DEF Request, Others
  <1>5. UNCHANGED <<listed, file, saved, raced, missed, unread, again>>
    BY DEF RestoreService, histVars
  <1>6. /\ s \in Services /\ setting \in [Services -> {"user", "worn", "less", "ours"}]
        /\ req[c].snapshot[s] \in Recordable
    <2>1. /\ s \in Services /\ setting \in [Services -> {"user", "worn", "less", "ours"}]
          /\ req[c].snapshot[s] \in {"no"} \cup Recordable
      BY <1>1, <1>3 DEF ProxyInv, TypeOK, Request
    <2>2. req[c].snapshot[s] # "no"
      BY <1>1, <1>3 DEF ProxyInv, Todo
    <2>3. QED
      BY <2>1, <2>2
  <1>7. /\ v \in {"user", "worn", "less", "ours"}
        /\ Original(s, req[c].snapshot[s]) => Original(s, v)
    BY <1>6, WrittenBackOriginal
  <1>8. /\ setting' \in [Services -> {"user", "worn", "less", "ours"}] /\ setting'[s] = v
        /\ \A u \in Services : u # s => setting'[u] = setting[u]
    BY <1>2, <1>6, <1>7
  <1>9. TypeOK'
    BY <1>4, <1>5, <1>8 DEF ProxyInv, TypeOK
  <1>10. ASSUME ~raced PROVE RequestInv' /\ SettingsInv'
    <2>1. /\ Alone /\ Honest /\ SettingsInv
          /\ \A d \in Clients : SetInv(req[d]) /\ RestoreInv(req[d])
      BY <1>10 DEF ProxyInv, RequestInv
    <2>2. \A d \in Clients : req[d].pc \notin Setting
      BY <1>3, <2>1 DEF Alone, Setting
    <2>3. ~(Changed(s)')
      <3>1. s \notin missed => Original(s, v)
        BY <1>6, <1>7, <2>1 DEF Honest, Fair, Recordable
      <3>2. QED
        BY <1>5, <1>8, <3>1 DEF Changed, Original
    <2>4. \A u \in Services : Changed(u)' => Changed(u)
      BY <1>5, <1>8, <2>3 DEF Changed, Original
    <2>5. Alone'
      BY <1>4, <2>2 DEF Alone, Others, Setting
    <2>6. Honest'
      BY <1>4, <1>5, <2>1 DEF Honest, Fair, Original, Others
    <2>7. (SetInv(req[c]))' /\ (RestoreInv(req[c]))'
      BY <1>3, <1>4, <2>1, <2>3, <2>4 DEF SetInv, RestoreInv
    <2>8. ASSUME NEW d \in Clients, d # c PROVE (SetInv(req[d]))' /\ (RestoreInv(req[d]))'
      <3>1. req'[d] = req[d] /\ req[d].pc \notin Setting
        BY <1>4, <2>2, <2>8 DEF Others
      <3>2. QED
        BY <2>1, <2>4, <3>1 DEF SetInv, RestoreInv, Setting
    <2>9. SettingsInv'
      <3>1. \A d \in Clients : req'[d].pc # "write" /\ req[d].pc # "write"
        BY <1>4, <2>2 DEF Others, Setting
      <3>2. QED
        BY <1>5, <1>10, <2>1, <2>4, <3>1 DEF SettingsInv, Had, Changed, Original
    <2>10. QED
      BY <2>5, <2>6, <2>7, <2>8, <2>9 DEF RequestInv
  <1>11. QED
    <2>1. Todo(req[c])
      BY DEF ProxyInv
    <2>2. Todo(req'[c])
      BY <1>3, <1>4, <2>1 DEF Todo
    <2>3. QED
      BY <1>4, <1>5, <1>9, <1>10, <2>2, TodoKept DEF ProxyInv

\* Whatever is not the user's when the file goes was passed over.
LEMMA RestoreRemoveProxy == ASSUME ProxyInv, NEW c \in Clients, RestoreRemove(c) PROVE ProxyInv'
  <1>1. /\ req[c].pc = "restore" /\ req[c].todo = {} /\ file' = "none" /\ saved' = NoneSaved
        /\ missed' = missed \cup (Recorded(req[c]) \ req[c].services)
        /\ UNCHANGED <<listed, setting, raced, unread, again>>
    BY DEF RestoreRemove, MayRemove
  <1>2. req' \in [Clients -> Request] /\ Others(c) /\ req'[c] = Idle
    BY ReturnStep DEF RestoreRemove
  <1>3. TypeOK'
    BY <1>1, <1>2 DEF ProxyInv, TypeOK, NoneSaved, Recorded
  <1>4. ASSUME ~raced PROVE RequestInv' /\ SettingsInv'
    <2>1. Alone /\ Honest /\ \A d \in Clients : SetInv(req[d]) /\ RestoreInv(req[d])
      BY <1>4 DEF ProxyInv, RequestInv
    <2>2. \A d \in Clients : req'[d].pc \notin Setting
      BY <1>1, <1>2, <2>1, IdleRequest DEF Alone, Setting, Others
    <2>3. \A s \in Services : ~(Changed(s)')
      BY <1>1, <2>1 DEF RestoreInv, Changed, Original, Recorded
    <2>4. Alone'
      BY <2>2 DEF Alone
    <2>5. Honest'
      BY <1>1, <1>2, <2>1, IdleRequest DEF Honest, Fair, Original, Others, NoneSaved
    <2>6. \A d \in Clients : (SetInv(req[d]))' /\ (RestoreInv(req[d]))'
      BY <2>2, <2>3 DEF SetInv, RestoreInv, Setting
    <2>7. SettingsInv'
      BY <2>3 DEF SettingsInv, Changed
    <2>8. QED
      BY <2>4, <2>5, <2>6, <2>7 DEF RequestInv
  <1>5. Todo(req'[c])
    BY <1>2, IdleRequest DEF Todo
  <1>6. QED
    BY <1>1, <1>2, <1>3, <1>4, <1>5, TodoKept DEF ProxyInv

-----------------------------------------------------------------------------
(* Failures, crashes and the user.                                         *)

LEMMA FailsProxy == ASSUME ProxyInv, NEW c \in Clients, Fails(c) PROVE ProxyInv'
  BY ReturnProxy DEF Fails

LEMMA CrashProxy == ASSUME ProxyInv, Crash PROVE ProxyInv'
  <1>1. req' = [c \in Clients |-> Idle] /\ UNCHANGED <<listed, setting, file, saved, raced, missed, unread, again>>
    BY DEF Crash, histVars
  <1>2. \A c \in Clients : req'[c] = Idle /\ req'[c].pc = "idle" /\ req'[c].snapshot = NoneSaved
    BY <1>1, IdleRequest
  <1>3. TypeOK' /\ \A c \in Clients : Todo(req[c])'
    BY <1>1, <1>2, IdleRequest DEF ProxyInv, TypeOK, Todo
  <1>4. ASSUME ~raced PROVE RequestInv' /\ SettingsInv'
    <2>1. Honest /\ SettingsInv
      BY <1>4 DEF ProxyInv, RequestInv
    <2>2. Alone' /\ \A c \in Clients : (SetInv(req[c]))' /\ (RestoreInv(req[c]))'
      BY <1>2 DEF Alone, SetInv, RestoreInv
    <2>3. Honest'
      BY <1>1, <1>2, <2>1 DEF Honest, Fair, Original, NoneSaved
    <2>4. SettingsInv'
      BY <1>1, <1>2, <1>4, <2>1 DEF SettingsInv, Had, Original
    <2>5. QED
      BY <2>2, <2>3, <2>4 DEF RequestInv
  <1>5. QED
    BY <1>1, <1>3, <1>4 DEF ProxyInv

LEMMA UserProxy == ASSUME ProxyInv, Unlist \/ List PROVE ProxyInv'
  <1>1. UNCHANGED <<file, saved, req, raced, missed, unread, again>>
    BY DEF Unlist, List, histVars
  <1>2. listed' \in SUBSET Services
    BY DEF Unlist, List, ProxyInv, TypeOK
  <1>3. /\ setting' \in [Services -> {"user", "worn", "less", "ours"}]
        /\ \A s \in Services : setting'[s] \in {setting[s], "user"}
    BY DEF Unlist, List, ProxyInv, TypeOK
  <1>4. TypeOK' /\ \A c \in Clients : Todo(req[c])'
    BY <1>1, <1>2, <1>3 DEF ProxyInv, TypeOK, Todo
  <1>5. ASSUME ~raced PROVE RequestInv' /\ SettingsInv'
    <2>1. /\ Alone /\ Honest /\ SettingsInv
          /\ \A c \in Clients : SetInv(req[c]) /\ RestoreInv(req[c])
      BY <1>5 DEF ProxyInv, RequestInv
    <2>2. Alone' /\ Honest'
      BY <1>1, <2>1 DEF Alone, Honest, Fair, Original
    <2>3. \A c \in Clients : (SetInv(req[c]))' /\ (RestoreInv(req[c]))'
      BY <1>1, <1>3, <2>1 DEF SetInv, RestoreInv, Changed, Original
    <2>4. SettingsInv'
      BY <1>1, <1>3, <1>5, <2>1 DEF SettingsInv, Had, Original
    <2>5. QED
      BY <2>2, <2>3, <2>4 DEF RequestInv
  <1>6. QED
    BY <1>1, <1>4, <1>5 DEF ProxyInv

LEMMA NextProxy == ProxyInv /\ [Next]_vars => ProxyInv'
  <1> SUFFICES ASSUME ProxyInv, [Next]_vars PROVE ProxyInv'
    OBVIOUS
  <1>1. ASSUME NEW c \in Clients, Set(c) PROVE ProxyInv'
    <2>1. CASE SetDone(c)
      BY <2>1, ReturnProxy DEF SetDone
    <2>2. QED
      BY <1>1, <2>1, RequestProxy, SetListProxy, SetReadProxy, SetExistsProxy, SetSaveProxy,
         SetSavedProxy, SetCreateProxy, SetWriteProxy, SetConfigureProxy DEF Set
  <1>2. ASSUME NEW c \in Clients, Restore(c) PROVE ProxyInv'
    <2>1. CASE RestoreNothing(c)
      BY <2>1, ReturnProxy DEF RestoreNothing
    <2>2. QED
      BY <1>2, <2>1, RequestProxy, RestoreReadProxy, RestoreListProxy, RestoreServiceProxy,
         RestoreRemoveProxy DEF Restore
  <1>3. CASE UNCHANGED vars
    BY <1>3 DEF vars, ProxyInv, TypeOK, Todo, RequestInv, SettingsInv, Had, Original, Alone, Honest,
                Fair, SetInv, RestoreInv, Changed
  <1>4. QED
    BY <1>1, <1>2, <1>3, FailsProxy, CrashProxy, UserProxy DEF Next

LEMMA ProxyInvariant == Spec => []ProxyInv
  BY InitProxy, NextProxy, PTL DEF Spec

\* The variables keep their types, whichever requests overlap.
THEOREM TypeCorrect == Spec => []TypeOK
  <1>1. ProxyInv => TypeOK
    BY DEF ProxyInv
  <1>2. QED
    BY <1>1, ProxyInvariant, PTL

\* For any services and any number of clients: a service has the settings in
\* force that the user had, or they can be restored (without auto-discovery if
\* that could not be read), unless a set overlapped another request, the
\* service was not listed during a restore, or the file was spoiled while it
\* was written again.
THEOREM OriginalsAreKept == Spec => []OriginalsKept
  <1>1. ProxyInv => OriginalsKept
    BY DEF ProxyInv, SettingsInv, Had, OriginalsKept, Kept, Spoiled, Writes
  <1>2. QED
    BY <1>1, ProxyInvariant, PTL
=============================================================================
