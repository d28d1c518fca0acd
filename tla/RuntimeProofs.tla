----------------------------- MODULE RuntimeProofs -----------------------------
(***************************************************************************)
(* Proofs about the runtime's side of the project, for every value of the  *)
(* constants: RuntimeActions, whatever is defined, called and submitted;   *)
(* PermissionAccess, whatever is granted, imported and synchronised; and   *)
(* RuntimeSync, whatever crosses between the service and FXServer.         *)
(***************************************************************************)
EXTENDS PermissionAccess, RuntimeActions, RuntimeSync, DataTheorems, FiniteSetTheorems, SequenceTheorems, TLAPS

-----------------------------------------------------------------------------
(* How many entries of a log are of a kind and about something.             *)
At(log, kind, about) == {i \in DOMAIN log : log[i].kind = kind /\ log[i].about = about}
CountIn(log, kind, about) == Cardinality(At(log, kind, about))

(* A log is finite, and one more entry counts once where it belongs.        *)
LEMMA CountIsNatural ==
    ASSUME NEW E, NEW log \in Seq(E), NEW kind, NEW about
    PROVE  IsFiniteSet(At(log, kind, about)) /\ CountIn(log, kind, about) \in Nat
<1>1. DOMAIN log = 1 .. Len(log) /\ Len(log) \in Nat  OBVIOUS
<1>2. IsFiniteSet(DOMAIN log)  BY <1>1, FS_Interval
<1>3. At(log, kind, about) \in SUBSET (DOMAIN log)  BY DEF At
<1>4. IsFiniteSet(At(log, kind, about))  BY <1>2, <1>3, FS_Subset
<1> QED  BY <1>4, FS_CardinalityType DEF CountIn

LEMMA CountAppended ==
    ASSUME NEW E, NEW log \in Seq(E), NEW entry \in E, NEW kind, NEW about
    PROVE  CountIn(Append(log, entry), kind, about)
                = CountIn(log, kind, about)
                  + IF entry.kind = kind /\ entry.about = about THEN 1 ELSE 0
<1> DEFINE longer == Append(log, entry)
           n == Len(log) + 1
<1>1. /\ DOMAIN log = 1 .. Len(log) /\ Len(log) \in Nat
      /\ DOMAIN longer = 1 .. n /\ longer[n] = entry
      /\ \A i \in 1 .. Len(log) : longer[i] = log[i]
  BY AppendProperties
<1>2. n \notin At(log, kind, about)  BY <1>1 DEF At
<1>3. CASE entry.kind = kind /\ entry.about = about
  <2>1. At(longer, kind, about) = At(log, kind, about) \cup {n}  BY <1>1, <1>3 DEF At
  <2>2. IsFiniteSet(At(log, kind, about)) /\ CountIn(log, kind, about) \in Nat  BY CountIsNatural
  <2>3. Cardinality(At(log, kind, about) \cup {n}) = Cardinality(At(log, kind, about)) + 1
    BY <1>2, <2>2, FS_AddElement
  <2> QED  BY <2>1, <2>2, <2>3, <1>3 DEF CountIn
<1>4. CASE ~(entry.kind = kind /\ entry.about = about)
  <2>1. At(longer, kind, about) = At(log, kind, about)  BY <1>1, <1>4 DEF At
  <2> QED  BY <2>1, <1>4, CountIsNatural DEF CountIn
<1> QED  BY <1>3, <1>4

(* Of the entries of an action's hooks each counts once.                    *)
LEMMA CountAfterHooks ==
    ASSUME NEW E, NEW log \in Seq(E), NEW n \in Nat, NEW id, NEW kind, NEW about,
           \A i \in 1 .. n : Audit("after", id, i) \in E
    PROVE  LET hooks == [i \in 1 .. n |-> Audit("after", id, i)] IN
           /\ log \o hooks \in Seq(E)
           /\ CountIn(log \o hooks, kind, about)
                = CountIn(log, kind, about) + IF kind = "after" /\ id = about THEN n ELSE 0
<1> DEFINE hooks == [i \in 1 .. n |-> Audit("after", id, i)]
           longer == log \o hooks
           l == Len(log)
<1>1. hooks \in Seq(E) /\ Len(hooks) = n
  <2>1. hooks \in [1 .. n -> E]  OBVIOUS
  <2>2. hooks \in Seq(E)  BY <2>1, SeqDef
  <2> QED  BY <2>2, LenProperties
<1> HIDE DEF hooks
<1>2. /\ longer \in Seq(E) /\ Len(longer) = l + n
      /\ l \in Nat /\ DOMAIN log = 1 .. l /\ DOMAIN longer = 1 .. l + n
  <2>1. longer \in Seq(E) /\ Len(longer) = l + n  BY <1>1, ConcatProperties
  <2> QED  BY <2>1, LenProperties
<1>3. \A i \in 1 .. l : longer[i] = log[i]  BY <1>1, <1>2, ConcatProperties
<1>4. \A i \in l + 1 .. l + n : longer[i].kind = "after" /\ longer[i].about = id
  <2> SUFFICES ASSUME NEW i \in l + 1 .. l + n PROVE longer[i].kind = "after" /\ longer[i].about = id
    OBVIOUS
  <2>1. i > l /\ i <= l + n /\ i - l \in 1 .. n  BY <1>2
  <2>2. longer[i] = hooks[i - l]  BY <1>1, <1>2, <2>1, ConcatProperties
  <2>3. hooks[i - l] = Audit("after", id, i - l)  BY <2>1 DEF hooks
  <2> QED  BY <2>2, <2>3 DEF Audit
<1>5. CASE kind = "after" /\ id = about
  <2>1. At(longer, kind, about) = At(log, kind, about) \cup (l + 1 .. l + n)
    BY <1>2, <1>3, <1>4, <1>5 DEF At
  <2>2. At(log, kind, about) \cap (l + 1 .. l + n) = {}  BY <1>2 DEF At
  <2>3. IsFiniteSet(l + 1 .. l + n) /\ Cardinality(l + 1 .. l + n) = n
    <3>1. l + 1 \in Int /\ l + n \in Int  BY <1>2
    <3>2. Cardinality(l + 1 .. l + n) = IF l + 1 > l + n THEN 0 ELSE (l + n) - (l + 1) + 1  BY <3>1, FS_Interval
    <3> QED  BY <1>2, <3>1, <3>2, FS_Interval
  <2>4. Cardinality(At(longer, kind, about)) = Cardinality(At(log, kind, about)) + n - Cardinality({})
    <3>1. IsFiniteSet(At(log, kind, about))  BY CountIsNatural
    <3>2. Cardinality(At(log, kind, about) \cup (l + 1 .. l + n))
            = Cardinality(At(log, kind, about)) + Cardinality(l + 1 .. l + n)
                - Cardinality(At(log, kind, about) \cap (l + 1 .. l + n))
      BY <2>3, <3>1, FS_Union
    <3> QED  BY <2>1, <2>2, <2>3, <3>2
  <2> QED  BY <1>2, <1>5, <2>4, CountIsNatural, FS_EmptySet DEF CountIn, hooks
<1>6. CASE ~(kind = "after" /\ id = about)
  <2>1. At(longer, kind, about) = At(log, kind, about)  BY <1>2, <1>3, <1>4, <1>6 DEF At
  <2> QED  BY <1>2, <2>1, <1>6, CountIsNatural DEF CountIn, hooks
<1> QED  BY <1>5, <1>6

-----------------------------------------------------------------------------
(* The inductive invariant of the bus, the log and the calls.               *)
Statuses == {"submitted", "completed", "failed"}
Stages == {"checked", "malformed", "executing", "hooks", "done"}
Fresh == {"fresh"} \X Nat
Named == DOMAIN Definitions \cup {Commands[command].action : command \in DOMAIN Commands} \cup Asked

Envelopes == [id : Nat, actor : Principals, action : Named, key : Keys \cup Fresh,
              nonce : Nonces \cup Fresh, status : Statuses]
Requests == [principal : Principals, action : Named, command : DOMAIN Commands \cup {None}]
CallRecords == [request : Requests, stage : Stages, action : Nat, hooks : Nat, copies : BOOLEAN, ok : BOOLEAN]
Entries == [kind : {"action", "after", "permission", "request", "hook"}, about : Nat \cup Principals,
            status : {"denied", "completed", "failed", "succeeded"} \cup Nat]

TypeInv ==
    /\ calls \in Seq(CallRecords)
    /\ audits \in Seq(Entries)
    /\ run \in Runs \cup {None}

(* The drawn keys and nonces are those of the envelopes' places, and each   *)
(* envelope is what its key leads to.                                       *)
OwnDraws(envelope) ==
    /\ envelope.key \in Keys \/ envelope.key = <<"fresh", envelope.id>>
    /\ envelope.nonce \in Nonces \/ envelope.nonce = <<"fresh", envelope.id>>

BusInv ==
    /\ bus \in Seq(Envelopes)
    /\ \A id \in DOMAIN bus :
          /\ bus[id].id = id
          /\ OwnDraws(bus[id])
          /\ bus[id].key \in DOMAIN byKey /\ byKey[bus[id].key] = bus[id]
    /\ \A key \in DOMAIN byKey :
          byKey[key].id \in DOMAIN bus /\ byKey[key].key = key /\ byKey[key] = bus[byKey[key].id]
    /\ IsFiniteSet(DOMAIN byKey) /\ Cardinality(DOMAIN byKey) = Len(bus)
    /\ usedNonces = {bus[id].nonce : id \in DOMAIN bus}
    /\ IsFiniteSet(usedNonces) /\ Cardinality(usedNonces) = Len(bus)

(* The envelope a call has is its own, and tells where the call is.         *)
CallTold(call, envelopes) ==
    LET own == envelopes[call.action] IN
    /\ call.action # 0 =>
          /\ call.action \in DOMAIN envelopes
          /\ own.key \notin Keys
          /\ own.action = call.request.action
    /\ call.stage = "checked" => call.action = 0
    /\ call.stage \in {"malformed", "executing", "hooks"} => call.action # 0 /\ own.status = "submitted"
    /\ (call.stage = "done" /\ call.action # 0) =>
          own.status = IF call.ok \/ ~call.copies THEN "completed" ELSE "failed"
    /\ ~call.copies => call.action # 0 /\ call.stage \in {"hooks", "done"}
    /\ call.ok => call.stage = "done" /\ call.action # 0 /\ call.copies

CallsInv ==
    /\ \A c \in DOMAIN calls : CallTold(calls[c], bus)
    /\ \A c, d \in DOMAIN calls : calls[c].action # 0 /\ calls[c].action = calls[d].action => c = d

(* The actions whose result could not be copied, when their calls are over. *)
Loud(call) == call.stage # "done" \/ call.copies
Untold(records) == {records[c].action : c \in {d \in DOMAIN records : ~Loud(records[d])}}

(* What a log says of the envelopes, the silent ones apart.                 *)
HooksRun(envelope) ==
    IF envelope.status = "completed" /\ envelope.key \notin Keys THEN AfterHooks[envelope.action] ELSE 0

LogTells(log, envelopes, silent) ==
    /\ \A id \in DOMAIN envelopes :
          /\ CountIn(log, "action", id) = IF envelopes[id].status = "submitted" \/ id \in silent THEN 0 ELSE 1
          /\ \A i \in At(log, "action", id) : log[i].status = envelopes[id].status
          /\ CountIn(log, "after", id) = HooksRun(envelopes[id])
    /\ \A i \in DOMAIN log : log[i].kind \in {"action", "after"} => log[i].about \in DOMAIN envelopes

(* What it says of the hooks of a dispatch.                                 *)
HooksDone(log, next) ==
    \A i \in DOMAIN SandboxHooks : CountIn(log, "hook", i) = IF i < next THEN 1 ELSE 0
Next_ == IF run = None THEN 1 ELSE run.at

HookInv ==
    /\ HooksDone(audits, Next_)
    /\ run # None => run.at >= 1 /\ (run.call # 0 => run.stage = "acting" /\ run.actions # <<>>)

ControlInv ==
    /\ config \in Nat /\ ack \in Nat /\ ack <= config
    /\ beats \in Seq(Nonces)
    /\ beatNonces = {beats[i] : i \in DOMAIN beats}
    /\ IsFiniteSet(beatNonces) /\ Cardinality(beatNonces) = Len(beats)

SandboxInv ==
    /\ deployed \in Nat
    /\ DOMAIN deployment = Plugins /\ DOMAIN sandbox = Plugins
    /\ \A p \in Plugins : deployment[p] # None => deployment[p].id \in 0 .. deployed
    /\ \A p \in Plugins : sandbox[p] # None => sandbox[p] \in 0 .. deployed

CInv == TypeInv /\ BusInv /\ CallsInv /\ LogTells(audits, bus, Untold(calls)) /\ HookInv /\ ControlInv /\ SandboxInv

LEMMA InvariantImpliesRecorded == CInv => CallsAreRecorded
<1> SUFFICES ASSUME CInv PROVE CallsAreRecorded
  OBVIOUS
<1>1. ActionsTypeOK
  <2>1. \A id \in DOMAIN bus : bus[id].id = id /\ bus[id].status \in {"submitted", "completed", "failed"}
    <3> SUFFICES ASSUME NEW id \in DOMAIN bus PROVE bus[id].id = id /\ bus[id].status \in Statuses
      BY DEF Statuses
    <3>1. bus[id] \in Envelopes  BY ElementOfSeq DEF CInv, BusInv
    <3> QED  BY <3>1 DEF CInv, BusInv, Envelopes
  <2>2. \A c \in DOMAIN calls :
          /\ calls[c].stage \in {"checked", "malformed", "executing", "hooks", "done"}
          /\ calls[c].stage \in {"malformed", "executing", "hooks"} => calls[c].action \in DOMAIN bus
    <3> SUFFICES ASSUME NEW c \in DOMAIN calls
                 PROVE  /\ calls[c].stage \in Stages
                        /\ calls[c].stage \in {"malformed", "executing", "hooks"} => calls[c].action \in DOMAIN bus
      BY DEF Stages
    <3>1. calls[c] \in CallRecords  BY ElementOfSeq DEF CInv, TypeInv
    <3> QED  BY <3>1 DEF CInv, CallsInv, CallTold, CallRecords
  <2> QED  BY <2>1, <2>2 DEF ActionsTypeOK, CInv, ControlInv, SandboxInv
<1>2. BusAgrees
  <2>1. \A key \in DOMAIN byKey : byKey[key] = bus[byKey[key].id] /\ byKey[key].key = key
    BY DEF CInv, BusInv
  <2>2. DOMAIN byKey = {bus[id].key : id \in DOMAIN bus}
    <3>1. ASSUME NEW key \in DOMAIN byKey PROVE key \in {bus[id].key : id \in DOMAIN bus}
      <4>1. byKey[key].id \in DOMAIN bus /\ bus[byKey[key].id].key = key  BY DEF CInv, BusInv
      <4> QED  BY <4>1
    <3>2. \A id \in DOMAIN bus : bus[id].key \in DOMAIN byKey  BY DEF CInv, BusInv
    <3> QED  BY <3>1, <3>2
  <2> QED  BY <2>1, <2>2 DEF CInv, BusInv, BusAgrees
<1>3. AuditsTellTheEnd
  <2>0. Unlogged = Untold(calls)
    <3>1. \A d \in DOMAIN calls : (calls[d].stage = "done" /\ ~calls[d].copies) <=> ~Loud(calls[d])
      BY DEF Loud
    <3> QED  BY <3>1 DEF Unlogged, Untold
  <2>1. \A id \in DOMAIN bus :
          /\ Count("action", id) = IF bus[id].status = "submitted" \/ id \in Unlogged THEN 0 ELSE 1
          /\ \A i \in DOMAIN audits : (audits[i].kind = "action" /\ audits[i].about = id) => audits[i].status = bus[id].status
          /\ Count("after", id) = IF bus[id].status = "completed" /\ bus[id].key \notin Keys
                                  THEN AfterHooks[bus[id].action] ELSE 0
    BY <2>0 DEF CInv, LogTells, Count, CountIn, At, HooksRun
  <2>2. ASSUME NEW c \in DOMAIN calls
        PROVE  /\ calls[c].stage = "done" =>
                     /\ calls[c].ok => calls[c].action # 0 /\ calls[c].copies
                     /\ calls[c].action # 0 =>
                           bus[calls[c].action].status = IF calls[c].ok \/ ~calls[c].copies THEN "completed" ELSE "failed"
               /\ (calls[c].stage # "done" /\ calls[c].action # 0)
                     => bus[calls[c].action].status = "submitted" /\ ~calls[c].ok
    <3>1. CallTold(calls[c], bus)  BY DEF CInv, CallsInv
    <3>2. calls[c].stage \in Stages
      <4>1. calls[c] \in CallRecords  BY ElementOfSeq DEF CInv, TypeInv
      <4> QED  BY <4>1 DEF CallRecords
    <3> QED  BY <3>1, <3>2 DEF CallTold, Stages
  <2> QED  BY <2>1, <2>2 DEF AuditsTellTheEnd
<1>4. HooksAuditedOnce
  BY DEF CInv, HookInv, HooksDone, Next_, HooksAuditedOnce, Count, CountIn, At
<1>5. BeatsOnce
  BY DEF CInv, ControlInv, BeatsOnce
<1> QED  BY <1>1, <1>2, <1>3, <1>4, <1>5 DEF CallsAreRecorded

LEMMA SandboxHooksNumbered == DOMAIN SandboxHooks = 1 .. Len(SandboxHooks) /\ Len(SandboxHooks) \in Nat
BY ActionsAssumption, LenProperties

LEMMA ActionsStart == ActionsInit => CInv
<1> SUFFICES ASSUME ActionsInit PROVE CInv
  OBVIOUS
<1> USE DEF ActionsInit
<1>1. TypeInv  BY DEF TypeInv
<1>2. BusInv
  <2>1. DOMAIN byKey = {} /\ bus \in Seq(Envelopes) /\ DOMAIN bus = {} /\ Len(bus) = 0  OBVIOUS
  <2> QED  BY <2>1, FS_EmptySet DEF BusInv
<1>3. CallsInv  BY DEF CallsInv
<1>4. LogTells(audits, bus, Untold(calls))  BY DEF LogTells
<1>5. HookInv
  <2>1. \A i : CountIn(audits, "hook", i) = 0
    <3>1. \A i : At(audits, "hook", i) = {}  BY DEF At
    <3> QED  BY <3>1, FS_EmptySet DEF CountIn
  <2> QED  BY <2>1, SandboxHooksNumbered DEF HookInv, HooksDone, Next_
<1>6. ControlInv  BY FS_EmptySet DEF ControlInv
<1>7. SandboxInv  BY DEF SandboxInv
<1> QED  BY <1>1, <1>2, <1>3, <1>4, <1>5, <1>6, <1>7 DEF CInv

-----------------------------------------------------------------------------
(* The two ways in which the bus changes.                                   *)

(* An envelope under a new key with an unused nonce takes the next place.   *)
LEMMA StoreKeepsBus ==
    ASSUME BusInv, NEW envelope \in Envelopes, Store(envelope),
           envelope.id = Len(bus) + 1, OwnDraws(envelope),
           envelope.key \notin DOMAIN byKey, envelope.nonce \notin usedNonces
    PROVE  BusInv'
<1> DEFINE n == Len(bus) + 1
<1>1. /\ bus \in Seq(Envelopes) /\ DOMAIN bus = 1 .. Len(bus) /\ Len(bus) \in Nat
      /\ bus' \in Seq(Envelopes) /\ DOMAIN bus' = 1 .. n /\ Len(bus') = n
      /\ bus'[n] = envelope
      /\ \A id \in DOMAIN bus : bus'[id] = bus[id]
  BY AppendProperties DEF BusInv, Store
<1>2. /\ DOMAIN byKey' = DOMAIN byKey \cup {envelope.key}
      /\ byKey'[envelope.key] = envelope
      /\ \A key \in DOMAIN byKey : byKey'[key] = byKey[key]
  BY DEF Store, Put
<1>3. \A id \in DOMAIN bus' :
          /\ bus'[id].id = id
          /\ OwnDraws(bus'[id])
          /\ bus'[id].key \in DOMAIN byKey' /\ byKey'[bus'[id].key] = bus'[id]
  BY <1>1, <1>2 DEF BusInv
<1>4. \A key \in DOMAIN byKey' :
          byKey'[key].id \in DOMAIN bus' /\ byKey'[key].key = key /\ byKey'[key] = bus'[byKey'[key].id]
  BY <1>1, <1>2 DEF BusInv
<1>5. IsFiniteSet(DOMAIN byKey') /\ Cardinality(DOMAIN byKey') = Len(bus')
  <2>1. IsFiniteSet(DOMAIN byKey) /\ Cardinality(DOMAIN byKey) = Len(bus)  BY DEF BusInv
  <2>2. /\ IsFiniteSet(DOMAIN byKey \cup {envelope.key})
        /\ Cardinality(DOMAIN byKey \cup {envelope.key}) = Len(bus) + 1
    BY <2>1, FS_AddElement
  <2> QED  BY <1>1, <1>2, <2>2
<1>6. usedNonces' = {bus'[id].nonce : id \in DOMAIN bus'}
  <2>1. usedNonces' = {bus[id].nonce : id \in DOMAIN bus} \cup {envelope.nonce}  BY DEF BusInv, Store
  <2>2. DOMAIN bus' = DOMAIN bus \cup {n}  BY <1>1
  <2> QED  BY <1>1, <2>1, <2>2
<1>7. IsFiniteSet(usedNonces') /\ Cardinality(usedNonces') = Len(bus')
  <2>1. IsFiniteSet(usedNonces) /\ Cardinality(usedNonces) = Len(bus)  BY DEF BusInv
  <2>2. /\ IsFiniteSet(usedNonces \cup {envelope.nonce})
        /\ Cardinality(usedNonces \cup {envelope.nonce}) = Len(bus) + 1
    BY <2>1, FS_AddElement
  <2> QED  BY <1>1, <2>2 DEF Store
<1> QED  BY <1>1, <1>3, <1>4, <1>5, <1>6, <1>7 DEF BusInv, OwnDraws

(* An envelope, and the bus, when an action has ended.                      *)
Ended(envelope, status) == [envelope EXCEPT !.status = status]
EndedAt(envelopes, id, status) == [envelopes EXCEPT ![id] = Ended(envelopes[id], status)]

(* An envelope that is completed is so under its key too.                   *)
LEMMA CompletionKeepsBus ==
    ASSUME BusInv, NEW id \in DOMAIN bus, NEW status \in Statuses, completeAction(id, status)
    PROVE  /\ BusInv'
           /\ Len(bus') = Len(bus) /\ DOMAIN bus' = DOMAIN bus
           /\ bus' = EndedAt(bus, id, status)
           /\ bus[id].status = "submitted"
<1> DEFINE completed == [bus[id] EXCEPT !.status = status]
<1>1. bus[id] \in Envelopes /\ DOMAIN bus = 1 .. Len(bus) /\ Len(bus) \in Nat
  BY ElementOfSeq DEF BusInv
<1>2. /\ completed \in Envelopes /\ completed.id = id /\ completed.key = bus[id].key
      /\ completed.nonce = bus[id].nonce
  BY <1>1 DEF Envelopes, BusInv
<1> HIDE DEF completed
<1>3. /\ bus' = [bus EXCEPT ![id] = completed]
      /\ byKey' = Put(byKey, completed.key, completed)
      /\ usedNonces' = usedNonces
  BY DEF completeAction, completed
<1>4. /\ bus' \in Seq(Envelopes) /\ Len(bus') = Len(bus) /\ DOMAIN bus' = DOMAIN bus
      /\ bus'[id] = completed /\ \A other \in DOMAIN bus \ {id} : bus'[other] = bus[other]
  BY <1>1, <1>2, <1>3, ExceptSeq DEF BusInv
<1>5. /\ DOMAIN byKey' = DOMAIN byKey
      /\ byKey'[bus[id].key] = completed
      /\ \A key \in DOMAIN byKey \ {bus[id].key} : byKey'[key] = byKey[key]
  BY <1>2, <1>3 DEF BusInv, Put
<1>6. \A other \in DOMAIN bus \ {id} : bus[other].key # bus[id].key
  BY DEF BusInv
<1>7. \A other \in DOMAIN bus' :
          /\ bus'[other].id = other
          /\ OwnDraws(bus'[other])
          /\ bus'[other].key \in DOMAIN byKey' /\ byKey'[bus'[other].key] = bus'[other]
  BY <1>2, <1>4, <1>5, <1>6 DEF BusInv, OwnDraws
<1>8. \A key \in DOMAIN byKey' :
          byKey'[key].id \in DOMAIN bus' /\ byKey'[key].key = key /\ byKey'[key] = bus'[byKey'[key].id]
  BY <1>2, <1>4, <1>5 DEF BusInv
<1>9. usedNonces' = {bus'[other].nonce : other \in DOMAIN bus'}
  <2>1. \A other \in DOMAIN bus : bus'[other].nonce = bus[other].nonce  BY <1>2, <1>4
  <2> QED  BY <1>3, <1>4, <2>1 DEF BusInv
<1>10. BusInv'
  BY <1>3, <1>4, <1>5, <1>7, <1>8, <1>9 DEF BusInv, OwnDraws
<1>11. bus' = EndedAt(bus, id, status)  BY <1>3 DEF completed, EndedAt, Ended
<1> QED  BY <1>4, <1>10, <1>11 DEF completeAction

-----------------------------------------------------------------------------
(* What entries do to what the log tells.                                   *)
LEMMA OtherEntry ==
    ASSUME NEW envelopes, NEW silent, NEW log \in Seq(Entries), LogTells(log, envelopes, silent),
           NEW entry \in Entries, entry.kind \notin {"action", "after"}
    PROVE  LogTells(Append(log, entry), envelopes, silent)
<1> DEFINE longer == Append(log, entry)
<1>1. \A kind \in {"action", "after"} : \A about : CountIn(longer, kind, about) = CountIn(log, kind, about)
  <2> SUFFICES ASSUME NEW kind \in {"action", "after"}, NEW about
               PROVE  CountIn(longer, kind, about) = CountIn(log, kind, about)
    OBVIOUS
  <2>1. CountIn(longer, kind, about) = CountIn(log, kind, about)
                  + IF entry.kind = kind /\ entry.about = about THEN 1 ELSE 0
    BY CountAppended
  <2>2. CountIn(log, kind, about) \in Nat  BY CountIsNatural
  <2> QED  BY <2>1, <2>2
<1>2. /\ DOMAIN log = 1 .. Len(log) /\ Len(log) \in Nat
      /\ DOMAIN longer = 1 .. Len(log) + 1 /\ longer[Len(log) + 1] = entry
      /\ \A i \in DOMAIN log : longer[i] = log[i]
  BY AppendProperties
<1>3. \A i \in DOMAIN longer : longer[i].kind \in {"action", "after"} => i \in DOMAIN log /\ longer[i] = log[i]
  BY <1>2
<1> HIDE DEF longer
<1>4. \A id \in DOMAIN envelopes : \A i \in At(longer, "action", id) : log[i] = longer[i] /\ i \in At(log, "action", id)
  BY <1>3 DEF At
<1>5. LogTells(longer, envelopes, silent)
  <2>1. ASSUME NEW id \in DOMAIN envelopes
        PROVE  /\ CountIn(longer, "action", id) = IF envelopes[id].status = "submitted" \/ id \in silent THEN 0 ELSE 1
               /\ \A i \in At(longer, "action", id) : longer[i].status = envelopes[id].status
               /\ CountIn(longer, "after", id) = HooksRun(envelopes[id])
    <3>1. /\ CountIn(longer, "action", id) = CountIn(log, "action", id)
          /\ CountIn(longer, "after", id) = CountIn(log, "after", id)
      BY <1>1
    <3>2. \A i \in At(longer, "action", id) : longer[i].status = envelopes[id].status
      BY <1>4 DEF LogTells
    <3> QED  BY <3>1, <3>2 DEF LogTells
  <2>2. \A i \in DOMAIN longer : longer[i].kind \in {"action", "after"} => longer[i].about \in DOMAIN envelopes
    BY <1>3 DEF LogTells
  <2> QED  BY <2>1, <2>2 DEF LogTells
<1> QED  BY <1>5 DEF longer

(* Of a new envelope the log says nothing.                                  *)
LEMMA LogOfNew ==
    ASSUME NEW envelopes \in Seq(Envelopes), NEW silent, NEW log \in Seq(Entries), LogTells(log, envelopes, silent),
           NEW envelope \in Envelopes, envelope.status = "submitted"
    PROVE  LogTells(log, Append(envelopes, envelope), silent)
<1> DEFINE more == Append(envelopes, envelope)
           n == Len(envelopes) + 1
<1>1. /\ DOMAIN envelopes = 1 .. Len(envelopes) /\ Len(envelopes) \in Nat
      /\ DOMAIN more = 1 .. n /\ more[n] = envelope
      /\ \A id \in DOMAIN envelopes : more[id] = envelopes[id]
  BY AppendProperties
<1>2. \A kind \in {"action", "after"} : At(log, kind, n) = {}
  BY <1>1 DEF LogTells, At
<1>3. \A kind \in {"action", "after"} : CountIn(log, kind, n) = 0
  BY <1>2, FS_EmptySet DEF CountIn
<1> HIDE DEF more
<1>4. ASSUME NEW id \in DOMAIN more
      PROVE  /\ CountIn(log, "action", id) = IF more[id].status = "submitted" \/ id \in silent THEN 0 ELSE 1
             /\ \A i \in At(log, "action", id) : log[i].status = more[id].status
             /\ CountIn(log, "after", id) = HooksRun(more[id])
  <2>1. CASE id = n  BY <1>1, <1>2, <1>3, <2>1 DEF HooksRun
  <2>2. CASE id \in DOMAIN envelopes  BY <1>1, <2>2 DEF LogTells
  <2> QED  BY <1>1, <2>1, <2>2
<1>5. \A i \in DOMAIN log : log[i].kind \in {"action", "after"} => log[i].about \in DOMAIN more
  BY <1>1 DEF LogTells
<1>6. LogTells(log, more, silent)  BY <1>4, <1>5 DEF LogTells
<1> QED  BY <1>6 DEF more

(* A log that tells of the hooks of an action besides what another tells.   *)
AddsHooks(longer, log, id, n) ==
    /\ \A kind, about : CountIn(longer, kind, about)
                          = CountIn(log, kind, about) + IF kind = "after" /\ id = about THEN n ELSE 0
    /\ \A i \in DOMAIN longer : \/ i \in DOMAIN log /\ longer[i] = log[i]
                                \/ longer[i].kind = "after" /\ longer[i].about = id

(* The end of an action is told by one entry, after those of its hooks.     *)
LEMMA LogOfEnd ==
    ASSUME NEW envelopes \in Seq(Envelopes), NEW silent, NEW log \in Seq(Entries), LogTells(log, envelopes, silent),
           NEW id \in DOMAIN envelopes, envelopes[id].status = "submitted", id \notin silent,
           NEW status \in {"completed", "failed"},
           NEW longer \in Seq(Entries), NEW n \in Nat,
           n = HooksRun(Ended(envelopes[id], status)),
           AddsHooks(longer, log, id, n)
    PROVE  LogTells(Append(longer, Audit("action", id, status)), EndedAt(envelopes, id, status), silent)
<1> DEFINE entry == Audit("action", id, status)
           told == Append(longer, entry)
           ended == Ended(envelopes[id], status)
           after == EndedAt(envelopes, id, status)
<1>1. DOMAIN envelopes = 1 .. Len(envelopes) /\ Len(envelopes) \in Nat /\ envelopes[id] \in Envelopes
  BY ElementOfSeq
<1>2. ended.status = status /\ ended.key = envelopes[id].key /\ ended.action = envelopes[id].action
  BY <1>1 DEF Envelopes, Ended
<1>3. /\ DOMAIN after = DOMAIN envelopes
      /\ after[id] = ended
      /\ \A other \in DOMAIN envelopes \ {id} : after[other] = envelopes[other]
  BY <1>1 DEF EndedAt
<1>4. entry \in Entries /\ entry.kind = "action" /\ entry.about = id /\ entry.status = status
  BY <1>1 DEF Entries, Audit
<1> HIDE DEF entry
<1>5. /\ DOMAIN longer = 1 .. Len(longer) /\ Len(longer) \in Nat
      /\ DOMAIN told = 1 .. Len(longer) + 1 /\ told[Len(longer) + 1] = entry
      /\ \A i \in DOMAIN longer : told[i] = longer[i]
  BY <1>4, AppendProperties
<1>6. \A kind, about : CountIn(told, kind, about)
          = CountIn(longer, kind, about) + IF kind = "action" /\ about = id THEN 1 ELSE 0
  <2> SUFFICES ASSUME NEW kind, NEW about
               PROVE  CountIn(told, kind, about)
                        = CountIn(longer, kind, about) + IF kind = "action" /\ about = id THEN 1 ELSE 0
    OBVIOUS
  <2>1. CountIn(told, kind, about)
          = CountIn(longer, kind, about) + IF entry.kind = kind /\ entry.about = about THEN 1 ELSE 0
    BY <1>4, CountAppended
  <2> QED  BY <1>4, <2>1
<1>7. \A kind, about : CountIn(log, kind, about) \in Nat  BY CountIsNatural
<1>0. \A i \in DOMAIN longer :
          (i \in DOMAIN log /\ longer[i] = log[i]) \/ (longer[i].kind = "after" /\ longer[i].about = id)
  BY DEF AddsHooks
<1> HIDE DEF told, ended, after
<1>8. ASSUME NEW other \in DOMAIN after
      PROVE  /\ CountIn(told, "action", other) = IF after[other].status = "submitted" \/ other \in silent THEN 0 ELSE 1
             /\ \A i \in At(told, "action", other) : told[i].status = after[other].status
             /\ CountIn(told, "after", other) = HooksRun(after[other])
  <2>0. other \in DOMAIN envelopes  BY <1>3
  <2>1. /\ CountIn(told, "action", other) = CountIn(log, "action", other) + IF other = id THEN 1 ELSE 0
        /\ CountIn(told, "after", other) = CountIn(log, "after", other) + IF other = id THEN n ELSE 0
    <3>0. CountIn(longer, "after", other) = CountIn(log, "after", other) + IF other = id THEN n ELSE 0
      <4>1. CountIn(longer, "after", other)
              = CountIn(log, "after", other) + IF "after" = "after" /\ id = other THEN n ELSE 0
        BY DEF AddsHooks
      <4> QED  BY <4>1
    <3>1. CountIn(longer, "action", other) = CountIn(log, "action", other)
      <4>1. CountIn(longer, "action", other)
              = CountIn(log, "action", other) + IF "action" = "after" /\ id = other THEN n ELSE 0
        BY DEF AddsHooks
      <4> QED  BY <1>7, <4>1
    <3>2. CountIn(told, "action", other) = CountIn(longer, "action", other) + IF other = id THEN 1 ELSE 0
      BY <1>6
    <3>3. CountIn(told, "after", other) = CountIn(longer, "after", other) + 0
      BY <1>6
    <3> QED  BY <3>0, <3>1, <3>2, <3>3, <1>7
  <2>2. /\ CountIn(log, "action", other) = IF envelopes[other].status = "submitted" \/ other \in silent THEN 0 ELSE 1
        /\ CountIn(log, "after", other) = HooksRun(envelopes[other])
        /\ \A i \in At(log, "action", other) : log[i].status = envelopes[other].status
    BY <2>0 DEF LogTells
  <2>3. CASE other = id
    <3>1. HooksRun(envelopes[id]) = 0  BY DEF HooksRun
    <3>2. HooksRun(after[id]) = n  BY <1>3 DEF ended
    <3>3. ASSUME NEW i \in At(told, "action", id) PROVE told[i].status = status
      <4>1. CASE i = Len(longer) + 1  BY <4>1, <1>4, <1>5
      <4>2. CASE i \in DOMAIN longer
        <5>1. i \in At(log, "action", id)  BY <1>0, <1>5, <3>3, <4>2 DEF At
        <5>2. CountIn(log, "action", id) = 0  BY <2>2, <2>3
        <5>3. At(log, "action", id) = {}  BY <5>2, CountIsNatural, FS_EmptySet DEF CountIn
        <5> QED  BY <5>1, <5>3
      <4> QED  BY <1>5, <4>1, <4>2 DEF At
    <3> QED  BY <1>2, <1>3, <1>7, <2>1, <2>2, <2>3, <3>1, <3>2, <3>3
  <2>4. CASE other # id
    <3>1. ASSUME NEW i \in At(told, "action", other) PROVE told[i].status = envelopes[other].status
      <4>1. told[i].kind = "action" /\ told[i].about = other /\ i \in DOMAIN told  BY DEF At
      <4>2. i \in DOMAIN longer  BY <1>4, <1>5, <2>4, <4>1
      <4>3. i \in DOMAIN log /\ longer[i] = log[i] /\ told[i] = longer[i]  BY <1>0, <1>5, <4>1, <4>2
      <4>4. i \in At(log, "action", other)  BY <4>1, <4>3 DEF At
      <4> QED  BY <2>2, <4>3, <4>4
    <3> QED  BY <1>3, <1>7, <2>0, <2>1, <2>2, <2>4, <3>1
  <2> QED  BY <2>3, <2>4
<1>9. ASSUME NEW i \in DOMAIN told, told[i].kind \in {"action", "after"} PROVE told[i].about \in DOMAIN after
  <2>1. CASE i = Len(longer) + 1  BY <1>3, <1>4, <1>5, <2>1
  <2>2. CASE i \in DOMAIN longer  BY <1>0, <1>3, <1>5, <1>9, <2>2 DEF LogTells
  <2> QED  BY <1>5, <2>1, <2>2
<1>10. LogTells(told, after, silent)  BY <1>8, <1>9 DEF LogTells
<1> QED  BY <1>10 DEF told, after, entry

(* An action that ends in silence is told by the entries of its hooks only. *)
LEMMA LogOfSilentEnd ==
    ASSUME NEW envelopes \in Seq(Envelopes), NEW silent, NEW log \in Seq(Entries), LogTells(log, envelopes, silent),
           NEW id \in DOMAIN envelopes, envelopes[id].status = "submitted",
           NEW longer \in Seq(Entries), NEW n \in Nat,
           n = HooksRun(Ended(envelopes[id], "completed")),
           AddsHooks(longer, log, id, n)
    PROVE  LogTells(longer, EndedAt(envelopes, id, "completed"), silent \cup {id})
<1> DEFINE ended == Ended(envelopes[id], "completed")
           after == EndedAt(envelopes, id, "completed")
<1>1. DOMAIN envelopes = 1 .. Len(envelopes) /\ Len(envelopes) \in Nat /\ envelopes[id] \in Envelopes
  BY ElementOfSeq
<1>2. ended.status = "completed"
  BY <1>1 DEF Envelopes, Ended
<1>3. /\ DOMAIN after = DOMAIN envelopes
      /\ after[id] = ended
      /\ \A other \in DOMAIN envelopes \ {id} : after[other] = envelopes[other]
  BY <1>1 DEF EndedAt
<1>4. \A kind, about : CountIn(log, kind, about) \in Nat  BY CountIsNatural
<1>5. \A i \in DOMAIN longer :
          (i \in DOMAIN log /\ longer[i] = log[i]) \/ (longer[i].kind = "after" /\ longer[i].about = id)
  BY DEF AddsHooks
<1> HIDE DEF ended, after
<1>6. ASSUME NEW other \in DOMAIN after
      PROVE  /\ CountIn(longer, "action", other)
                   = IF after[other].status = "submitted" \/ other \in silent \cup {id} THEN 0 ELSE 1
             /\ \A i \in At(longer, "action", other) : longer[i].status = after[other].status
             /\ CountIn(longer, "after", other) = HooksRun(after[other])
  <2>0. other \in DOMAIN envelopes  BY <1>3
  <2>1. CountIn(longer, "after", other) = CountIn(log, "after", other) + IF other = id THEN n ELSE 0
    <3>1. CountIn(longer, "after", other)
            = CountIn(log, "after", other) + IF "after" = "after" /\ id = other THEN n ELSE 0
      BY DEF AddsHooks
    <3> QED  BY <3>1
  <2>2. CountIn(longer, "action", other) = CountIn(log, "action", other)
    <3>1. CountIn(longer, "action", other)
            = CountIn(log, "action", other) + IF "action" = "after" /\ id = other THEN n ELSE 0
      BY DEF AddsHooks
    <3> QED  BY <1>4, <3>1
  <2>3. /\ CountIn(log, "action", other) = IF envelopes[other].status = "submitted" \/ other \in silent THEN 0 ELSE 1
        /\ CountIn(log, "after", other) = HooksRun(envelopes[other])
        /\ \A i \in At(log, "action", other) : log[i].status = envelopes[other].status
    BY <2>0 DEF LogTells
  <2>4. ASSUME NEW i \in At(longer, "action", other)
        PROVE  i \in At(log, "action", other) /\ longer[i] = log[i]
    BY <1>5 DEF At
  <2>5. CASE other = id
    <3>1. HooksRun(envelopes[id]) = 0  BY DEF HooksRun
    <3>2. HooksRun(after[id]) = n  BY <1>3 DEF ended
    <3>3. CountIn(log, "action", id) = 0  BY <2>3, <2>5
    <3>4. At(log, "action", id) = {}  BY <3>3, CountIsNatural, FS_EmptySet DEF CountIn
    <3> QED  BY <1>4, <2>1, <2>2, <2>3, <2>4, <2>5, <3>1, <3>2, <3>3, <3>4
  <2>6. CASE other # id
    <3>1. after[other] = envelopes[other]  BY <1>3, <2>0, <2>6
    <3> QED  BY <1>4, <2>1, <2>2, <2>3, <2>4, <2>6, <3>1
  <2> QED  BY <2>5, <2>6
<1>7. ASSUME NEW i \in DOMAIN longer, longer[i].kind \in {"action", "after"} PROVE longer[i].about \in DOMAIN after
  BY <1>3, <1>5, <1>7 DEF LogTells
<1>8. LogTells(longer, after, silent \cup {id})  BY <1>6, <1>7 DEF LogTells
<1> QED  BY <1>8 DEF after

(* Calls that speak of their end add nothing to the silent ones.            *)
LEMMA UntoldAppended ==
    ASSUME NEW records \in Seq(CallRecords), NEW call \in CallRecords, Loud(call)
    PROVE  Untold(Append(records, call)) = Untold(records)
<1>1. /\ DOMAIN records = 1 .. Len(records) /\ Len(records) \in Nat
      /\ DOMAIN Append(records, call) = 1 .. Len(records) + 1
      /\ Append(records, call)[Len(records) + 1] = call
      /\ \A c \in DOMAIN records : Append(records, call)[c] = records[c]
  BY AppendProperties
<1>2. {d \in DOMAIN Append(records, call) : ~Loud(Append(records, call)[d])} = {d \in DOMAIN records : ~Loud(records[d])}
  BY <1>1
<1>3. \A c \in {d \in DOMAIN records : ~Loud(records[d])} : Append(records, call)[c].action = records[c].action
  BY <1>1
<1> QED  BY <1>2, <1>3 DEF Untold

LEMMA UntoldKept ==
    ASSUME NEW records, NEW after, NEW c \in DOMAIN records, Loud(records[c]),
           DOMAIN after = DOMAIN records, \A d \in DOMAIN records \ {c} : after[d] = records[d]
    PROVE  Untold(after) = IF Loud(after[c]) THEN Untold(records) ELSE Untold(records) \cup {after[c].action}
<1> DEFINE Unspoken(all) == {d \in DOMAIN all : ~Loud(all[d])}
           call == after[c]
<1>1. /\ DOMAIN after = DOMAIN records /\ after[c] = call
      /\ \A d \in DOMAIN records \ {c} : after[d] = records[d]
  OBVIOUS
<1> HIDE DEF call
<1>2. CASE Loud(call)
  <2>1. Unspoken(after) = Unspoken(records)  BY <1>1, <1>2
  <2>2. \A d \in Unspoken(records) : after[d].action = records[d].action  BY <1>1
  <2>3. Untold(after) = Untold(records)  BY <2>1, <2>2 DEF Untold
  <2> QED  BY <1>2, <2>3 DEF call
<1>3. CASE ~Loud(call)
  <2>1. Unspoken(after) = Unspoken(records) \cup {c}  BY <1>1, <1>3
  <2>2. \A d \in Unspoken(records) : after[d].action = records[d].action  BY <1>1
  <2> HIDE DEF Unspoken
  <2>3. {after[d].action : d \in Unspoken(records) \cup {c}} = {records[d].action : d \in Unspoken(records)} \cup {call.action}
    BY <1>1, <2>2
  <2>4. Untold(after) = Untold(records) \cup {call.action}  BY <2>1, <2>3 DEF Untold, Unspoken
  <2> QED  BY <1>3, <2>4 DEF call
<1> QED  BY <1>2, <1>3 DEF call

(* Only an entry of a hook counts for the hooks of a dispatch.              *)
LEMMA NoHookEntry ==
    ASSUME NEW log \in Seq(Entries), NEW entry \in Entries, entry.kind # "hook",
           NEW next, HooksDone(log, next)
    PROVE  HooksDone(Append(log, entry), next)
<1>1. ASSUME NEW i \in DOMAIN SandboxHooks
      PROVE  CountIn(Append(log, entry), "hook", i) = CountIn(log, "hook", i)
  <2>1. CountIn(Append(log, entry), "hook", i)
          = CountIn(log, "hook", i) + IF entry.kind = "hook" /\ entry.about = i THEN 1 ELSE 0
    BY CountAppended
  <2> QED  BY <2>1, CountIsNatural
<1> QED  BY <1>1 DEF HooksDone

LEMMA HookEntry ==
    ASSUME NEW log \in Seq(Entries), NEW next \in DOMAIN SandboxHooks, HooksDone(log, next),
           NEW status, Audit("hook", next, status) \in Entries
    PROVE  HooksDone(Append(log, Audit("hook", next, status)), next + 1)
<1> DEFINE entry == Audit("hook", next, status)
<1>1. entry.kind = "hook" /\ entry.about = next  BY DEF Audit
<1> HIDE DEF entry
<1>2. DOMAIN SandboxHooks \subseteq Nat  BY SandboxHooksNumbered
<1>3. ASSUME NEW i \in DOMAIN SandboxHooks
      PROVE  CountIn(Append(log, entry), "hook", i) = IF i < next + 1 THEN 1 ELSE 0
  <2>1. CountIn(Append(log, entry), "hook", i)
          = CountIn(log, "hook", i) + IF entry.kind = "hook" /\ entry.about = i THEN 1 ELSE 0
    BY CountAppended DEF entry
  <2>2. CountIn(log, "hook", i) = IF i < next THEN 1 ELSE 0  BY DEF HooksDone
  <2> QED  BY <1>1, <1>2, <2>1, <2>2
<1> QED  BY <1>3 DEF HooksDone, entry

-----------------------------------------------------------------------------
(* Calls whose envelopes stay as they are.                                  *)
LEMMA OtherCallTold ==
    ASSUME NEW call, NEW envelopes, NEW others, CallTold(call, envelopes),
           call.action # 0 => call.action \in DOMAIN others /\ others[call.action] = envelopes[call.action]
    PROVE  CallTold(call, others)
BY DEF CallTold

(* A call that is checked adds a call without an envelope.                  *)
LEMMA CheckedKeeps ==
    ASSUME CInv, NEW request \in Requests, Checked(request)
    PROVE  /\ calls' \in Seq(CallRecords)
           /\ \A c \in DOMAIN calls' : CallTold(calls'[c], bus)
           /\ \A c, d \in DOMAIN calls' : calls'[c].action # 0 /\ calls'[c].action = calls'[d].action => c = d
           /\ audits' \in Seq(Entries)
           /\ LogTells(audits', bus, Untold(calls'))
           /\ HooksDone(audits', Next_)
           /\ Len(calls') = Len(calls) + 1 /\ calls'[Len(calls) + 1].request = request
<1>1. \E call \in CallRecords :
          /\ calls' = Append(calls, call)
          /\ call.action = 0 /\ ~call.ok /\ call.copies /\ call.stage \in {"checked", "done"}
          /\ call.request = request
  <2>1. NewCall(request) \in CallRecords /\ Refusal(request) \in CallRecords
    BY DEF NewCall, Refusal, CallRecords, Stages
  <2>2. /\ Refusal(request).action = 0 /\ ~Refusal(request).ok /\ Refusal(request).stage = "done"
        /\ Refusal(request).request = request /\ Refusal(request).copies
        /\ NewCall(request).action = 0 /\ ~NewCall(request).ok /\ NewCall(request).stage = "checked"
        /\ NewCall(request).copies
        /\ NewCall(request).request = request
    BY DEF NewCall, Refusal
  <2>3. calls' = Append(calls, NewCall(request)) \/ calls' = Append(calls, Refusal(request))
    BY DEF Checked, RefusesCall
  <2> QED  BY <2>1, <2>2, <2>3
<1>2. PICK call \in CallRecords :
          /\ calls' = Append(calls, call)
          /\ call.action = 0 /\ ~call.ok /\ call.copies /\ call.stage \in {"checked", "done"}
          /\ call.request = request
  BY <1>1
<1>3. /\ calls \in Seq(CallRecords) /\ DOMAIN calls = 1 .. Len(calls) /\ Len(calls) \in Nat
      /\ calls' \in Seq(CallRecords) /\ DOMAIN calls' = 1 .. Len(calls) + 1
      /\ Len(calls') = Len(calls) + 1
      /\ calls'[Len(calls) + 1] = call
      /\ \A c \in DOMAIN calls : calls'[c] = calls[c]
  BY <1>2, AppendProperties DEF CInv, TypeInv
<1>4. CallTold(call, bus)  BY <1>2 DEF CallTold
<1>5. \A c \in DOMAIN calls' : CallTold(calls'[c], bus)  BY <1>3, <1>4 DEF CInv, CallsInv
<1>6. \A c, d \in DOMAIN calls' : calls'[c].action # 0 /\ calls'[c].action = calls'[d].action => c = d
  BY <1>2, <1>3 DEF CInv, CallsInv
<1>7. audits \in Seq(Entries) /\ LogTells(audits, bus, Untold(calls)) /\ HooksDone(audits, Next_)
  BY DEF CInv, TypeInv, HookInv
<1>0. Untold(calls') = Untold(calls)  BY <1>2, <1>3, UntoldAppended DEF Loud
<1>8. audits' \in Seq(Entries) /\ LogTells(audits', bus, Untold(calls')) /\ HooksDone(audits', Next_)
  <2>1. CASE audits' = audits  BY <1>0, <1>7, <2>1
  <2>2. CASE audits' = Append(audits, Audit("permission", request.principal, "denied"))
    <3>1. request.principal \in Principals  BY DEF Requests
    <3>2. Audit("permission", request.principal, "denied") \in Entries
          /\ Audit("permission", request.principal, "denied").kind = "permission"
      BY <3>1 DEF Audit, Entries
    <3> HIDE DEF Audit
    <3> QED  BY <1>0, <1>7, <2>2, <3>2, AppendProperties, OtherEntry, NoHookEntry
  <2> QED  BY <2>1, <2>2 DEF Checked, RefusesCall
<1> QED  BY <1>2, <1>3, <1>5, <1>6, <1>8

(* A call that goes on without touching the bus or the log.                 *)
LEMMA CallGoesOn ==
    ASSUME CInv, NEW c \in DOMAIN calls, NEW call \in CallRecords,
           calls' = [calls EXCEPT ![c] = call],
           call.action = calls[c].action, CallTold(call, bus), Loud(calls[c]), Loud(call)
    PROVE  /\ calls' \in Seq(CallRecords)
           /\ Untold(calls') = Untold(calls)
           /\ \A d \in DOMAIN calls' : CallTold(calls'[d], bus)
           /\ \A d, e \in DOMAIN calls' : calls'[d].action # 0 /\ calls'[d].action = calls'[e].action => d = e
<1>1. /\ calls \in Seq(CallRecords) /\ calls' \in Seq(CallRecords) /\ DOMAIN calls' = DOMAIN calls
      /\ calls'[c] = call /\ \A d \in DOMAIN calls \ {c} : calls'[d] = calls[d]
  BY ExceptSeq, LenProperties DEF CInv, TypeInv
<1>2. \A d \in DOMAIN calls' : CallTold(calls'[d], bus) /\ calls'[d].action = calls[d].action
  BY <1>1 DEF CInv, CallsInv
<1>3. Untold(calls') = Untold(calls)  BY <1>1, UntoldKept
<1> QED  BY <1>1, <1>2, <1>3 DEF CInv, CallsInv

(* A call that ends with its action: the other calls' envelopes stay.       *)
LEMMA CallEnds ==
    ASSUME CInv, NEW c \in DOMAIN calls, NEW call \in CallRecords,
           calls' = [calls EXCEPT ![c] = call],
           call.action = calls[c].action, calls[c].action # 0,
           NEW envelopes, DOMAIN envelopes = DOMAIN bus,
           \A id \in DOMAIN bus \ {calls[c].action} : envelopes[id] = bus[id],
           CallTold(call, envelopes)
    PROVE  /\ calls' \in Seq(CallRecords)
           /\ \A d \in DOMAIN calls' : CallTold(calls'[d], envelopes)
           /\ \A d, e \in DOMAIN calls' : calls'[d].action # 0 /\ calls'[d].action = calls'[e].action => d = e
<1>1. /\ calls \in Seq(CallRecords) /\ calls' \in Seq(CallRecords) /\ DOMAIN calls' = DOMAIN calls
      /\ calls'[c] = call /\ \A d \in DOMAIN calls \ {c} : calls'[d] = calls[d]
  BY ExceptSeq, LenProperties DEF CInv, TypeInv
<1>2. ASSUME NEW d \in DOMAIN calls \ {c} PROVE CallTold(calls'[d], envelopes)
  <2>1. CallTold(calls[d], bus)  BY DEF CInv, CallsInv
  <2>2. calls[d].action # calls[c].action  BY DEF CInv, CallsInv
  <2>3. calls[d].action # 0 => calls[d].action \in DOMAIN bus  BY <2>1 DEF CallTold
  <2> QED  BY <1>1, <2>1, <2>2, <2>3, OtherCallTold
<1>3. \A d \in DOMAIN calls : calls'[d].action = calls[d].action  BY <1>1
<1> QED  BY <1>1, <1>2, <1>3 DEF CInv, CallsInv

-----------------------------------------------------------------------------
(* The steps.                                                               *)
LEMMA PermissionStep ==
    ASSUME CInv, UNCHANGED <<calls, busVars, controlVars, sandboxVars, run>>
    PROVE  CInv'
<1> USE DEF busVars, controlVars, sandboxVars
<1>1. TypeInv'  BY DEF CInv, TypeInv
<1>2. BusInv'  BY DEF CInv, BusInv, OwnDraws
<1>3. CallsInv'  BY DEF CInv, CallsInv
<1>4. LogTells(audits, bus, Untold(calls))'  BY DEF CInv
<1>5. HookInv'  BY DEF CInv, HookInv, Next_
<1>6. ControlInv'  BY DEF CInv, ControlInv
<1>7. SandboxInv'  BY DEF CInv, SandboxInv
<1> QED  BY <1>1, <1>2, <1>3, <1>4, <1>5, <1>6, <1>7 DEF CInv

(* Settings and heartbeats.                                                 *)
LEMMA ControlStep == ASSUME CInv, ControlNext PROVE CInv'
<1>1. UNCHANGED <<calls, busVars, sandboxVars, run>>
  BY DEF ControlNext, setRuntimeConfig, ackConfigVersion, heartbeat
<1>2. TypeInv' /\ BusInv' /\ CallsInv' /\ LogTells(audits, bus, Untold(calls))' /\ HookInv' /\ SandboxInv'
  <2> USE DEF busVars, sandboxVars
  <2>1. TypeInv'  BY <1>1 DEF CInv, TypeInv
  <2>2. BusInv'  BY <1>1 DEF CInv, BusInv, OwnDraws
  <2>3. CallsInv'  BY <1>1 DEF CInv, CallsInv
  <2>4. LogTells(audits, bus, Untold(calls))'  BY <1>1 DEF CInv
  <2>5. HookInv'  BY <1>1 DEF CInv, HookInv, Next_
  <2>6. SandboxInv'  BY <1>1 DEF CInv, SandboxInv
  <2> QED  BY <2>1, <2>2, <2>3, <2>4, <2>5, <2>6
<1>3. ControlInv'
  <2>1. CASE setRuntimeConfig
    BY <2>1 DEF setRuntimeConfig, CInv, ControlInv
  <2>2. CASE \E version \in 1 .. MaxVersion : ackConfigVersion(version)
    BY <2>2 DEF ackConfigVersion, CInv, ControlInv
  <2>3. ASSUME NEW nonce \in Nonces, NEW signed \in BOOLEAN, heartbeat(nonce, signed) PROVE ControlInv'
    <3> USE <2>3 DEF heartbeat
    <3>1. /\ beats \in Seq(Nonces) /\ beats' \in Seq(Nonces) /\ Len(beats') = Len(beats) + 1
          /\ DOMAIN beats = 1 .. Len(beats) /\ Len(beats) \in Nat
          /\ DOMAIN beats' = 1 .. Len(beats) + 1
          /\ beats'[Len(beats) + 1] = nonce /\ \A i \in DOMAIN beats : beats'[i] = beats[i]
      BY AppendProperties DEF CInv, ControlInv
    <3>2. beatNonces' = {beats'[i] : i \in DOMAIN beats'}
      <4>1. beatNonces' = {beats[i] : i \in DOMAIN beats} \cup {nonce}  BY DEF CInv, ControlInv
      <4>2. DOMAIN beats' = DOMAIN beats \cup {Len(beats) + 1}  BY <3>1
      <4> QED  BY <3>1, <4>1, <4>2
    <3>3. IsFiniteSet(beatNonces') /\ Cardinality(beatNonces') = Len(beats')
      <4>1. IsFiniteSet(beatNonces) /\ Cardinality(beatNonces) = Len(beats)  BY DEF CInv, ControlInv
      <4>2. IsFiniteSet(beatNonces \cup {nonce}) /\ Cardinality(beatNonces \cup {nonce}) = Len(beats) + 1
        BY <4>1, FS_AddElement
      <4> QED  BY <3>1, <4>2
    <3>4. config' = config /\ ack' = ack /\ config \in Nat /\ ack \in Nat /\ ack <= config
      BY DEF CInv, ControlInv
    <3> HIDE <2>3 DEF heartbeat
    <3> QED  BY <3>1, <3>2, <3>3, <3>4 DEF ControlInv
  <2> QED  BY <2>1, <2>2, <2>3 DEF ControlNext
<1> QED  BY <1>2, <1>3 DEF CInv

(* Deployments and their sandboxes.                                         *)
LEMMA DeploymentStep ==
    ASSUME CInv, NEW plugin \in Plugins, Deploy(plugin) \/ Kill(plugin) \/ Reconcile(plugin)
    PROVE  CInv'
<1>1. UNCHANGED <<calls, busVars, controlVars, run>>
  BY DEF Deploy, Kill, Reconcile
<1>2. TypeInv' /\ BusInv' /\ CallsInv' /\ LogTells(audits, bus, Untold(calls))' /\ HookInv' /\ ControlInv'
  <2> USE DEF busVars, controlVars
  <2>1. TypeInv'  BY <1>1 DEF CInv, TypeInv
  <2>2. BusInv'  BY <1>1 DEF CInv, BusInv, OwnDraws
  <2>3. CallsInv'  BY <1>1 DEF CInv, CallsInv
  <2>4. LogTells(audits, bus, Untold(calls))'  BY <1>1 DEF CInv
  <2>5. HookInv'  BY <1>1 DEF CInv, HookInv, Next_
  <2>6. ControlInv'  BY <1>1 DEF CInv, ControlInv
  <2> QED  BY <2>1, <2>2, <2>3, <2>4, <2>5, <2>6
<1>3. SandboxInv'
  <2> USE DEF CInv, SandboxInv
  <2>1. CASE Deploy(plugin)
    <3>1. PICK capabilities \in CapabilitySets :
            deployment' = [deployment EXCEPT ![plugin] = [id |-> deployed + 1, capabilities |-> capabilities]]
      BY <2>1 DEF Deploy
    <3>2. deployed' = deployed + 1 /\ sandbox' = sandbox  BY <2>1 DEF Deploy
    <3>3. /\ deployment'[plugin].id = deployed + 1
          /\ \A p \in Plugins \ {plugin} : deployment'[p] = deployment[p]
      BY <3>1
    <3>4. \A p \in Plugins : deployment'[p] # None => deployment'[p].id \in 0 .. deployed + 1
      BY <3>3
    <3> QED  BY <3>1, <3>2, <3>4
  <2>2. CASE Kill(plugin)  BY <2>2 DEF Kill
  <2>3. CASE Reconcile(plugin)  BY <2>3 DEF Reconcile
  <2> QED  BY <2>1, <2>2, <2>3
<1> QED  BY <1>2, <1>3 DEF CInv

(* The bus takes an envelope from outside.                                  *)
LEMMA SubmitStep ==
    ASSUME CInv, NEW actor \in Principals, NEW action \in DOMAIN Definitions, NEW key \in Keys,
           NEW nonce \in Nonces, NEW signed, submitAction(actor, action, key, nonce, signed)
    PROVE  CInv'
<1> DEFINE envelope == Envelope(Len(bus) + 1, actor, action, key, nonce)
<1>1. /\ key \notin DOMAIN byKey /\ nonce \notin usedNonces
      /\ Store(envelope)
      /\ UNCHANGED <<permissionVars, calls, audits, controlVars, sandboxVars, run>>
  BY DEF submitAction
<1>2. bus \in Seq(Envelopes) /\ Len(bus) \in Nat  BY LenProperties DEF CInv, BusInv
<1>3. /\ envelope \in Envelopes /\ envelope.id = Len(bus) + 1 /\ OwnDraws(envelope)
      /\ envelope.key = key /\ envelope.nonce = nonce /\ envelope.status = "submitted"
  BY <1>2 DEF Envelope, Envelopes, Statuses, Named, OwnDraws
<1> HIDE DEF envelope
<1>4. BusInv'  BY <1>1, <1>3, StoreKeepsBus DEF CInv
<1>5. bus' = Append(bus, envelope)  BY <1>1 DEF Store
<1>6. LogTells(audits, bus, Untold(calls))'
  BY <1>1, <1>2, <1>3, <1>5, LogOfNew DEF CInv, TypeInv
<1>7. CallsInv'
  <2>1. \A id \in DOMAIN bus : id \in DOMAIN bus' /\ bus'[id] = bus[id]
    BY <1>2, <1>3, <1>5, AppendProperties
  <2>2. ASSUME NEW c \in DOMAIN calls PROVE CallTold(calls[c], bus')
    <3>1. CallTold(calls[c], bus)  BY DEF CInv, CallsInv
    <3>2. calls[c].action # 0 => calls[c].action \in DOMAIN bus  BY <3>1 DEF CallTold
    <3> QED  BY <2>1, <3>1, <3>2, OtherCallTold
  <2> QED  BY <1>1, <2>2 DEF CInv, CallsInv
<1>8. TypeInv' /\ HookInv' /\ ControlInv' /\ SandboxInv'
  <2> USE <1>1 DEF permissionVars, controlVars, sandboxVars
  <2>1. TypeInv'  BY DEF CInv, TypeInv
  <2>2. HookInv'  BY DEF CInv, HookInv, Next_
  <2>3. ControlInv'  BY DEF CInv, ControlInv
  <2>4. SandboxInv'  BY DEF CInv, SandboxInv
  <2> QED  BY <2>1, <2>2, <2>3, <2>4
<1> QED  BY <1>4, <1>6, <1>7, <1>8 DEF CInv

(* One who handles an envelope from outside completes it.                   *)
LEMMA DirectStep ==
    ASSUME CInv, NEW id \in DOMAIN bus, NEW status \in {"completed", "failed"}, CompleteDirectly(id, status)
    PROVE  CInv'
<1> DEFINE after == EndedAt(bus, id, status)
           entry == Audit("action", id, status)
<1>1. /\ bus[id].key \in Keys /\ completeAction(id, status)
      /\ audits' = Append(audits, entry)
      /\ UNCHANGED <<permissionVars, calls, controlVars, sandboxVars, run>>
  BY DEF CompleteDirectly
<1>2. BusInv' /\ DOMAIN bus' = DOMAIN bus /\ bus' = after /\ bus[id].status = "submitted"
  BY <1>1, CompletionKeepsBus DEF CInv, Statuses
<1>3. bus \in Seq(Envelopes) /\ bus[id] \in Envelopes /\ id \in Nat
  <2>1. bus \in Seq(Envelopes)  BY DEF CInv, BusInv
  <2> QED  BY <2>1, ElementOfSeq, LenProperties
<1>4. audits \in Seq(Entries) /\ entry \in Entries /\ entry.kind = "action"
  BY <1>3 DEF CInv, TypeInv, Entries, Audit
<1>5. LogTells(Append(audits, entry), after, Untold(calls))
  <2>1. HooksRun(Ended(bus[id], status)) = 0
    BY <1>1, <1>3 DEF HooksRun, Envelopes, Ended
  <2>2. \A kind, about : CountIn(audits, kind, about)
            = CountIn(audits, kind, about) + IF kind = "after" /\ id = about THEN 0 ELSE 0
    BY <1>4, CountIsNatural
  <2>3. LogTells(audits, bus, Untold(calls))  BY DEF CInv
  <2>5. id \notin Untold(calls)
    <3> SUFFICES ASSUME NEW c \in DOMAIN calls, ~Loud(calls[c]) PROVE calls[c].action # id
      BY DEF Untold
    <3>1. CallTold(calls[c], bus)  BY DEF CInv, CallsInv
    <3> QED  BY <1>1, <3>1 DEF CallTold, Loud
  <2> HIDE DEF entry, after
  <2>4. LogTells(Append(audits, Audit("action", id, status)), EndedAt(bus, id, status), Untold(calls))
    <3>1. \A i \in DOMAIN audits : \/ i \in DOMAIN audits /\ audits[i] = audits[i]
                                   \/ audits[i].kind = "after" /\ audits[i].about = id
      OBVIOUS
    <3>2. 0 = HooksRun(Ended(bus[id], status)) /\ 0 \in Nat  BY <2>1
    <3>3. AddsHooks(audits, audits, id, 0)  BY <2>2, <3>1 DEF AddsHooks
    <3> QED  BY <1>2, <1>3, <1>4, <2>3, <2>5, <3>2, <3>3, LogOfEnd
  <2> QED  BY <2>4 DEF entry, after
<1>6. LogTells(audits, bus, Untold(calls))'  BY <1>1, <1>2, <1>5
<1>7. CallsInv'
  <2>1. ASSUME NEW c \in DOMAIN calls PROVE CallTold(calls[c], bus')
    <3>1. CallTold(calls[c], bus)  BY DEF CInv, CallsInv
    <3>2. calls[c].action # 0 => calls[c].action \in DOMAIN bus /\ calls[c].action # id
      BY <1>1, <3>1 DEF CallTold
    <3>3. \A other \in DOMAIN bus \ {id} : bus'[other] = bus[other]  BY <1>2, <1>3 DEF EndedAt
    <3> QED  BY <1>2, <3>1, <3>2, <3>3, OtherCallTold
  <2> QED  BY <1>1, <2>1 DEF CInv, CallsInv
<1>8. TypeInv' /\ HookInv' /\ ControlInv' /\ SandboxInv'
  <2> HIDE DEF entry
  <2>1. audits' \in Seq(Entries)  BY <1>1, <1>4, AppendProperties
  <2>2. HooksDone(audits', Next_)  BY <1>1, <1>4, NoHookEntry DEF CInv, HookInv
  <2> USE <1>1 DEF permissionVars, controlVars, sandboxVars
  <2>3. TypeInv'  BY <2>1 DEF CInv, TypeInv
  <2>4. HookInv'  BY <2>2 DEF CInv, HookInv, Next_
  <2>5. ControlInv'  BY DEF CInv, ControlInv
  <2>6. SandboxInv'  BY DEF CInv, SandboxInv
  <2> QED  BY <2>3, <2>4, <2>5, <2>6
<1> QED  BY <1>2, <1>6, <1>7, <1>8 DEF CInv

(* A call that has submitted its action.                                    *)
IsStarted(call, request) ==
    /\ call \in CallRecords
    /\ call.stage \in {"malformed", "executing"} /\ call.action = Len(bus) + 1
    /\ call.request = request /\ ~call.ok /\ call.copies

(* A call submits its action: one that was checked before, or a new one.    *)
LEMMA SubmittedStep ==
    ASSUME CInv, NEW request \in Requests, NEW malformed \in BOOLEAN, Starts(request, malformed),
           NEW c, NEW call, IsStarted(call, request),
           calls' \in Seq(CallRecords), DOMAIN calls' = DOMAIN calls \cup {c}, calls'[c] = call,
           \A d \in DOMAIN calls \ {c} : calls'[d] = calls[d],
           Untold(calls') = Untold(calls),
           UNCHANGED <<audits, ack, beats, beatNonces, deployment, sandbox, deployed, run>>
    PROVE  CInv'
<1> DEFINE id == Len(bus) + 1
           envelope == Envelope(id, request.principal, request.action, <<"fresh", id>>, <<"fresh", id>>)
<1>1. /\ Store(envelope)
      /\ config' \in {config, config + 1}
  BY DEF Starts
<1>2. bus \in Seq(Envelopes) /\ Len(bus) \in Nat /\ DOMAIN bus = 1 .. Len(bus)
  BY LenProperties DEF CInv, BusInv
<1>3. <<"fresh", id>> \in Fresh /\ <<"fresh", id>> \notin Keys \cup Nonces
  BY <1>2, FreshAssumption DEF Fresh
<1>4. /\ envelope \in Envelopes /\ envelope.id = id /\ OwnDraws(envelope)
      /\ envelope.key = <<"fresh", id>> /\ envelope.nonce = <<"fresh", id>>
      /\ envelope.status = "submitted" /\ envelope.action = request.action
  BY <1>2, <1>3 DEF Envelope, Envelopes, Requests, Statuses, OwnDraws
<1>5. <<"fresh", id>> \notin DOMAIN byKey /\ <<"fresh", id>> \notin usedNonces
  <2>1. ASSUME NEW place \in DOMAIN bus PROVE bus[place].key # <<"fresh", id>> /\ bus[place].nonce # <<"fresh", id>>
    <3>1. OwnDraws(bus[place]) /\ bus[place].id = place  BY DEF CInv, BusInv
    <3>2. <<"fresh", place>> # <<"fresh", id>>  BY <1>2
    <3> QED  BY <1>3, <3>1, <3>2 DEF OwnDraws
  <2>2. \A key \in DOMAIN byKey : \E place \in DOMAIN bus : bus[place].key = key  BY DEF CInv, BusInv
  <2>3. usedNonces = {bus[place].nonce : place \in DOMAIN bus}  BY DEF CInv, BusInv
  <2> QED  BY <2>1, <2>2, <2>3
<1> HIDE DEF envelope
<1>6. BusInv'  BY <1>1, <1>4, <1>5, StoreKeepsBus DEF CInv
<1>7. bus' = Append(bus, envelope)  BY <1>1 DEF Store
<1>8. LogTells(audits, bus, Untold(calls))'
  <2>1. LogTells(audits, bus, Untold(calls)) /\ audits \in Seq(Entries)  BY DEF CInv, TypeInv
  <2>2. LogTells(audits, Append(bus, envelope), Untold(calls))  BY <1>2, <1>4, <2>1, LogOfNew
  <2> QED  BY <1>7, <2>2
<1>9. /\ DOMAIN bus' = 1 .. id /\ bus'[id] = envelope
      /\ \A place \in DOMAIN bus : bus'[place] = bus[place]
  BY <1>2, <1>4, <1>7, AppendProperties
<1>10. /\ call.stage \in {"malformed", "executing"} /\ call.action = id
       /\ call.request = request /\ ~call.ok /\ call.copies
  BY DEF IsStarted
<1>11. CallsInv'
  <2>1. \A d \in DOMAIN calls : CallTold(calls[d], bus)  BY DEF CInv, CallsInv
  <2>2. CallTold(call, bus')
    <3>1. /\ id \in DOMAIN bus' /\ bus'[id].key \notin Keys
          /\ bus'[id].action = request.action /\ bus'[id].status = "submitted"
      <4>1. id \in DOMAIN bus'  BY <1>2, <1>9
      <4>2. bus'[id] = envelope  BY <1>9
      <4> HIDE DEF id
      <4> QED  BY <1>3, <1>4, <4>1, <4>2
    <3>2. id # 0  BY <1>2
    <3> HIDE DEF id
    <3> QED  BY <1>10, <3>1, <3>2 DEF CallTold
  <2>3. ASSUME NEW d \in DOMAIN calls \ {c} PROVE CallTold(calls'[d], bus') /\ calls'[d].action # id
    <3>1. calls[d].action # 0 => calls[d].action \in DOMAIN bus  BY <2>1 DEF CallTold
    <3>2. CallTold(calls'[d], bus')  BY <1>2, <1>9, <2>1, <3>1, OtherCallTold
    <3>3. calls'[d] = calls[d]  OBVIOUS
    <3> QED  BY <1>2, <3>1, <3>2, <3>3
  <2>4. \A d \in DOMAIN calls' : CallTold(calls'[d], bus')  BY <2>2, <2>3
  <2>5. \A d, e \in DOMAIN calls' : calls'[d].action # 0 /\ calls'[d].action = calls'[e].action => d = e
    <3>1. \A d \in DOMAIN calls \ {c} : calls'[d] = calls[d] /\ calls'[d].action # id  BY <2>3
    <3>2. \A d, e \in DOMAIN calls : calls[d].action # 0 /\ calls[d].action = calls[e].action => d = e
      BY DEF CInv, CallsInv
    <3> HIDE DEF id
    <3> QED  BY <1>10, <3>1, <3>2
  <2> QED  BY <2>4, <2>5 DEF CallsInv
<1>12. TypeInv' /\ HookInv' /\ ControlInv' /\ SandboxInv'
  <2>1. TypeInv'  BY DEF CInv, TypeInv
  <2>2. HookInv'  BY DEF CInv, HookInv, Next_
  <2>3. ControlInv'  BY <1>1 DEF CInv, ControlInv
  <2>4. SandboxInv'  BY DEF CInv, SandboxInv
  <2> QED  BY <2>1, <2>2, <2>3, <2>4
<1> QED  BY <1>6, <1>8, <1>11, <1>12 DEF CInv

LEMMA StartedCall ==
    ASSUME NEW call \in CallRecords, NEW malformed \in BOOLEAN, Len(bus) \in Nat,
           call.copies, call.action = 0, ~call.ok
    PROVE  IsStarted(Started(call, malformed), call.request)
<1> DEFINE stage == IF malformed THEN "malformed" ELSE "executing"
           id == Len(bus) + 1
           started == [call EXCEPT !.stage = stage, !.action = id]
<1>1. stage \in {"malformed", "executing"} /\ id \in Nat  OBVIOUS
<1>2. Started(call, malformed) = started  BY DEF Started
<1> HIDE DEF stage
<1>3. started \in CallRecords  BY <1>1 DEF CallRecords, Stages
<1>4. /\ started.stage = stage /\ started.action = id
      /\ started.request = call.request /\ started.ok = call.ok /\ started.copies = call.copies
  BY DEF CallRecords
<1> QED  BY <1>1, <1>2, <1>3, <1>4 DEF IsStarted

(* One that was checked before.                                             *)
LEMMA DispatchStep ==
    ASSUME CInv, NEW c \in DOMAIN calls, dispatchAuthorizedAction(c)
    PROVE  CInv'
<1>1. /\ calls[c].stage = "checked"
      /\ UNCHANGED <<audits, ack, beats, beatNonces, deployment, sandbox, deployed, run>>
  BY DEF dispatchAuthorizedAction
<1>2. PICK malformed \in BOOLEAN :
        Starts(calls[c].request, malformed) /\ calls' = [calls EXCEPT ![c] = Started(calls[c], malformed)]
  BY DEF dispatchAuthorizedAction
<1>3. /\ calls \in Seq(CallRecords) /\ calls[c] \in CallRecords /\ CallTold(calls[c], bus)
      /\ Len(bus) \in Nat
  BY ElementOfSeq, LenProperties DEF CInv, TypeInv, CallsInv, BusInv
<1>4. /\ calls[c].action = 0 /\ ~calls[c].ok /\ calls[c].copies /\ Loud(calls[c])
      /\ calls[c].request \in Requests
  BY <1>1, <1>3 DEF CallTold, CallRecords, Loud
<1> DEFINE call == Started(calls[c], malformed)
<1>0. IsStarted(call, calls[c].request)  BY <1>3, <1>4, StartedCall
<1>5. call \in CallRecords /\ Loud(call)  BY <1>0 DEF IsStarted, Loud
<1>6. calls' = [calls EXCEPT ![c] = call]  BY <1>2
<1> HIDE DEF call
<1>7. /\ calls' \in Seq(CallRecords) /\ DOMAIN calls' = DOMAIN calls \cup {c} /\ calls'[c] = call
      /\ \A d \in DOMAIN calls \ {c} : calls'[d] = calls[d]
  <2>1. /\ calls' \in Seq(CallRecords) /\ DOMAIN calls' = DOMAIN calls /\ calls'[c] = call
        /\ \A d \in DOMAIN calls \ {c} : calls'[d] = calls[d]
    BY <1>3, <1>5, <1>6, ExceptSeq
  <2> QED  BY <2>1
<1>8. Untold(calls') = Untold(calls)
  <2>1. DOMAIN calls' = DOMAIN calls  BY <1>7
  <2> QED  BY <1>4, <1>5, <1>7, <2>1, UntoldKept
<1>9. Starts(calls[c].request, malformed)  BY <1>2
<1> QED  BY <1>0, <1>1, <1>4, <1>5, <1>7, <1>8, <1>9, SubmittedStep

(* A call that is refused, settles or has run one more hook.                *)
LEMMA WaitingStep ==
    ASSUME CInv, NEW c \in DOMAIN calls, Unsubmitted(c) \/ Settles(c) \/ HookSettles(c)
    PROVE  CInv'
<1>1. UNCHANGED <<busVars, controlVars, sandboxVars, run>>
  BY DEF Unsubmitted, Settles, HookSettles
<1>2. calls \in Seq(CallRecords) /\ calls[c] \in CallRecords /\ CallTold(calls[c], bus)
  BY ElementOfSeq DEF CInv, TypeInv, CallsInv
<1>3. \E call \in CallRecords :
        /\ calls' = [calls EXCEPT ![c] = call] /\ call.action = calls[c].action
        /\ CallTold(call, bus) /\ Loud(calls[c]) /\ Loud(call)
  <2>1. CASE Unsubmitted(c)
    <3> DEFINE call == [calls[c] EXCEPT !.stage = "done"]
    <3>1. calls' = [calls EXCEPT ![c] = call] /\ calls[c].stage = "checked"
      BY <2>1 DEF Unsubmitted
    <3>2. call \in CallRecords /\ call.action = calls[c].action
      BY <1>2 DEF CallRecords, Stages
    <3>3. CallTold(call, bus) /\ Loud(calls[c]) /\ Loud(call)
      BY <1>2, <3>1 DEF CallRecords, CallTold, Loud
    <3> QED  BY <3>1, <3>2, <3>3
  <2>2. CASE Settles(c)
    <3>1. PICK copies \in BOOLEAN : calls' = [calls EXCEPT ![c].stage = "hooks", ![c].copies = copies]
      BY <2>2 DEF Settles
    <3> DEFINE call == [calls[c] EXCEPT !.stage = "hooks", !.copies = copies]
    <3>2. calls' = [calls EXCEPT ![c] = call] /\ calls[c].stage = "executing"
      BY <1>2, <2>2, <3>1 DEF Settles
    <3>3. call \in CallRecords /\ call.action = calls[c].action
      BY <1>2 DEF CallRecords, Stages
    <3>4. CallTold(call, bus) /\ Loud(calls[c]) /\ Loud(call)
      BY <1>2, <3>2 DEF CallRecords, CallTold, Loud
    <3> QED  BY <3>2, <3>3, <3>4
  <2>3. CASE HookSettles(c)
    <3> DEFINE call == [calls[c] EXCEPT !.hooks = @ + 1]
    <3>1. calls' = [calls EXCEPT ![c] = call] /\ calls[c].stage = "hooks"
      BY <2>3 DEF HookSettles
    <3>2. call \in CallRecords /\ call.action = calls[c].action
      <4>1. calls[c].hooks + 1 \in Nat  BY <1>2 DEF CallRecords
      <4> QED  BY <1>2, <4>1 DEF CallRecords
    <3>3. CallTold(call, bus) /\ Loud(calls[c]) /\ Loud(call)
      BY <1>2, <3>1 DEF CallRecords, CallTold, Loud
    <3> QED  BY <3>1, <3>2, <3>3
  <2> QED  BY <2>1, <2>2, <2>3
<1>4. /\ calls' \in Seq(CallRecords)
      /\ Untold(calls') = Untold(calls)
      /\ \A d \in DOMAIN calls' : CallTold(calls'[d], bus)
      /\ \A d, e \in DOMAIN calls' : calls'[d].action # 0 /\ calls'[d].action = calls'[e].action => d = e
  BY <1>3, CallGoesOn
<1> USE <1>1 DEF busVars, controlVars, sandboxVars
<1>5. TypeInv'  BY <1>4 DEF CInv, TypeInv
<1>6. BusInv'  BY DEF CInv, BusInv, OwnDraws
<1>7. CallsInv'  BY <1>4 DEF CallsInv
<1>8. LogTells(audits, bus, Untold(calls))'  BY <1>4 DEF CInv
<1>9. HookInv'  BY DEF CInv, HookInv, Next_
<1>10. ControlInv'  BY DEF CInv, ControlInv
<1>11. SandboxInv'  BY DEF CInv, SandboxInv
<1> QED  BY <1>5, <1>6, <1>7, <1>8, <1>9, <1>10, <1>11 DEF CInv

(* How a call ends: with which log before the entry of its end, after how   *)
(* many hooks, and how it is recorded.                                      *)
EndsSo(c, status, longer, n, call) ==
    LET id == calls[c].action IN
    /\ completeAction(id, status)
    /\ audits' = IF call.copies THEN Append(longer, Audit("action", id, status)) ELSE longer
    /\ n = HooksRun(Ended(bus[id], status))
    /\ AddsHooks(longer, audits, id, n)
    /\ calls' = [calls EXCEPT ![c] = call]
    /\ call.action = id /\ call.request = calls[c].request /\ call.stage = "done"
    /\ call.ok = (status = "completed" /\ call.copies)
    /\ call.copies \/ status = "completed"

(* A call ends, and its action with it: the log gets the entries of its     *)
(* hooks, if they ran, and the one of its end, if its result can be copied. *)
LEMMA EndingStep ==
    ASSUME CInv, NEW c \in DOMAIN calls, Throws(c) \/ Completes(c)
    PROVE  CInv'
<1> DEFINE id == calls[c].action
           ended(status) == Audit("action", id, status)
<1>1. /\ UNCHANGED <<permissionVars, controlVars, sandboxVars, run>>
      /\ calls[c].stage \in {"malformed", "executing", "hooks"}
  BY DEF Throws, MayThrow, Completes
<1>2. calls \in Seq(CallRecords) /\ calls[c] \in CallRecords /\ CallTold(calls[c], bus)
  BY ElementOfSeq DEF CInv, TypeInv, CallsInv
<1>3. /\ id # 0 /\ id \in DOMAIN bus /\ bus[id].status = "submitted"
      /\ bus[id].key \notin Keys /\ bus[id].action = calls[c].request.action
  BY <1>1, <1>2 DEF CallTold
<1>4. bus \in Seq(Envelopes) /\ bus[id] \in Envelopes /\ id \in Nat
  <2>1. bus \in Seq(Envelopes)  BY DEF CInv, BusInv
  <2> QED  BY <1>3, <2>1, ElementOfSeq, LenProperties
<1>5. audits \in Seq(Entries) /\ LogTells(audits, bus, Untold(calls)) /\ HooksDone(audits, Next_)
  BY DEF CInv, TypeInv, HookInv
<1>6. \A status \in {"completed", "failed"} : ended(status) \in Entries /\ ended(status).kind = "action"
  BY <1>4 DEF Entries, Audit
<1>7. \E status \in {"completed", "failed"}, longer \in Seq(Entries), n \in Nat, call \in CallRecords :
        EndsSo(c, status, longer, n, call)
  <2>1. CASE Throws(c)
    <3>1. /\ completeAction(id, "failed")
          /\ audits' = Append(audits, Audit("action", id, "failed"))
          /\ calls' = [calls EXCEPT ![c] = [calls[c] EXCEPT !.stage = "done"]]
          /\ calls[c].stage \in {"malformed", "executing"}
      BY <2>1 DEF Throws, MayThrow
    <3>2. HooksRun(Ended(bus[id], "failed")) = 0
      BY <1>4 DEF HooksRun, Ended, Envelopes
    <3>3. \A kind, about : CountIn(audits, kind, about)
                             = CountIn(audits, kind, about) + IF kind = "after" /\ id = about THEN 0 ELSE 0
      BY <1>5, CountIsNatural
    <3>4. [calls[c] EXCEPT !.stage = "done"] \in CallRecords
      BY <1>2 DEF CallRecords, Stages
    <3>5. /\ [calls[c] EXCEPT !.stage = "done"].action = id
          /\ [calls[c] EXCEPT !.stage = "done"].request = calls[c].request
          /\ [calls[c] EXCEPT !.stage = "done"].stage = "done"
          /\ ~[calls[c] EXCEPT !.stage = "done"].ok
          /\ [calls[c] EXCEPT !.stage = "done"].copies
      BY <1>2, <1>3, <3>1 DEF CallRecords, CallTold
    <3>6. \A i \in DOMAIN audits : \/ i \in DOMAIN audits /\ audits[i] = audits[i]
                                   \/ audits[i].kind = "after" /\ audits[i].about = id
      OBVIOUS
    <3>7. EndsSo(c, "failed", audits, 0, [calls[c] EXCEPT !.stage = "done"])
      <4>1. AddsHooks(audits, audits, id, 0)  BY <3>3, <3>6 DEF AddsHooks
      <4>2. [calls[c] EXCEPT !.stage = "done"].ok = ("failed" = "completed" /\ [calls[c] EXCEPT !.stage = "done"].copies)
        BY <3>4, <3>5 DEF CallRecords
      <4> QED  BY <3>1, <3>2, <3>5, <4>1, <4>2 DEF EndsSo
    <3> QED  BY <1>5, <3>4, <3>7
  <2>2. CASE Completes(c)
    <3> DEFINE n == AfterHooks[calls[c].request.action]
               entries == [i \in 1 .. n |-> Audit("after", id, i)]
               longer == audits \o entries
               copies == calls[c].copies
               call == [calls[c] EXCEPT !.stage = "done", !.ok = copies]
    <3>1. /\ completeAction(id, "completed")
          /\ audits' = audits \o entries \o (IF copies THEN <<Audit("action", id, "completed")>> ELSE <<>>)
          /\ calls' = [calls EXCEPT ![c].stage = "done", ![c].ok = copies]
          /\ calls[c].hooks = n
      BY <2>2 DEF Completes
    <3>2. n \in Nat  BY <1>2, <3>1 DEF CallRecords
    <3>3. \A i \in 1 .. n : Audit("after", id, i) \in Entries
      BY <1>4, <3>2 DEF Entries, Audit
    <3> HIDE DEF n
    <3>4. /\ longer \in Seq(Entries)
          /\ \A kind, about : CountIn(longer, kind, about)
                                = CountIn(audits, kind, about) + IF kind = "after" /\ id = about THEN n ELSE 0
      BY <1>5, <3>2, <3>3, CountAfterHooks
    <3>5. entries \in Seq(Entries) /\ Len(entries) = n
      <4>1. entries \in [1 .. n -> Entries]  BY <3>3
      <4>2. entries \in Seq(Entries)  BY <3>2, <4>1, SeqDef
      <4> QED  BY <3>2, <4>2, LenProperties
    <3>6. \A i \in 1 .. n : entries[i] = Audit("after", id, i)  OBVIOUS
    <3> HIDE DEF entries
    <3>7. \A i \in DOMAIN longer : \/ i \in DOMAIN audits /\ longer[i] = audits[i]
                                   \/ longer[i].kind = "after" /\ longer[i].about = id
      <4> SUFFICES ASSUME NEW i \in DOMAIN longer
                   PROVE  \/ i \in DOMAIN audits /\ longer[i] = audits[i]
                          \/ longer[i].kind = "after" /\ longer[i].about = id
        OBVIOUS
      <4>1. /\ Len(longer) = Len(audits) + n /\ Len(audits) \in Nat /\ i \in 1 .. Len(longer)
            /\ DOMAIN audits = 1 .. Len(audits)
        BY <1>5, <3>4, <3>5, ConcatProperties, LenProperties
      <4>2. longer[i] = IF i <= Len(audits) THEN audits[i] ELSE entries[i - Len(audits)]
        BY <1>5, <3>5, <4>1, ConcatProperties
      <4>3. CASE i <= Len(audits)  BY <3>2, <4>1, <4>2, <4>3
      <4>4. CASE ~(i <= Len(audits))
        <5>1. i - Len(audits) \in 1 .. n  BY <3>2, <4>1, <4>4
        <5>2. longer[i] = Audit("after", id, i - Len(audits))  BY <3>6, <4>2, <4>4, <5>1
        <5> QED  BY <5>2 DEF Audit
      <4> QED  BY <4>3, <4>4
    <3>8. audits' = IF copies THEN Append(longer, Audit("action", id, "completed")) ELSE longer
      <4>1. CASE copies
        <5>1. audits' = longer \o <<Audit("action", id, "completed")>>  BY <3>1, <4>1
        <5> QED  BY <1>6, <3>4, <4>1, <5>1, AppendIsConcat
      <4>2. CASE ~copies
        <5>1. audits' = longer \o <<>>  BY <3>1, <4>2
        <5> QED  BY <3>4, <4>2, <5>1, ConcatEmptySeq
      <4> QED  BY <4>1, <4>2
    <3>9. n = HooksRun(Ended(bus[id], "completed"))
      BY <1>3, <1>4 DEF HooksRun, Ended, Envelopes, n
    <3>10. /\ call \in CallRecords
           /\ call.action = id /\ call.request = calls[c].request /\ call.stage = "done"
           /\ call.copies = copies /\ call.ok = ("completed" = "completed" /\ call.copies)
      BY <1>2 DEF CallRecords, Stages
    <3>11. calls' = [calls EXCEPT ![c] = call]  BY <1>2, <3>1
    <3> HIDE DEF longer, call
    <3>12. EndsSo(c, "completed", longer, n, call)
      <4>1. AddsHooks(longer, audits, id, n)  BY <3>4, <3>7 DEF AddsHooks
      <4> QED  BY <3>1, <3>8, <3>9, <3>10, <3>11, <4>1 DEF EndsSo
    <3> QED  BY <3>2, <3>4, <3>10, <3>12
  <2> QED  BY <2>1, <2>2
<1>8. PICK status \in {"completed", "failed"}, longer \in Seq(Entries), n \in Nat, call \in CallRecords :
        EndsSo(c, status, longer, n, call)
  BY <1>7
<1>a. /\ completeAction(id, status)
      /\ audits' = IF call.copies THEN Append(longer, Audit("action", id, status)) ELSE longer
      /\ n = HooksRun(Ended(bus[id], status))
      /\ calls' = [calls EXCEPT ![c] = call]
      /\ call.action = id /\ call.request = calls[c].request /\ call.stage = "done"
      /\ call.ok = (status = "completed" /\ call.copies)
      /\ call.copies \/ status = "completed"
  BY <1>8 DEF EndsSo
<1>b. AddsHooks(longer, audits, id, n)
  BY <1>8 DEF EndsSo
<1> DEFINE entry == Audit("action", id, status)
<1>9. entry \in Entries /\ entry.kind = "action"  BY <1>6
<1>10. BusInv' /\ DOMAIN bus' = DOMAIN bus /\ bus' = EndedAt(bus, id, status)
  BY <1>3, <1>a, CompletionKeepsBus DEF CInv, Statuses
<1>c. Loud(calls[c]) /\ (Loud(call) <=> call.copies)  BY <1>1, <1>a DEF Loud
<1>d. Untold(calls') = IF call.copies THEN Untold(calls) ELSE Untold(calls) \cup {id}
  <2>1. DOMAIN calls' = DOMAIN calls /\ calls'[c] = call /\ \A d \in DOMAIN calls \ {c} : calls'[d] = calls[d]
    BY <1>2, <1>a, ExceptSeq
  <2>2. Untold(calls') = IF Loud(calls'[c]) THEN Untold(calls) ELSE Untold(calls) \cup {calls'[c].action}
    BY <1>c, <2>1, UntoldKept
  <2>3. CASE call.copies
    <3>1. Loud(call)  BY <1>c, <2>3
    <3> QED  BY <2>1, <2>2, <2>3, <3>1
  <2>4. CASE ~call.copies
    <3>1. ~Loud(call)  BY <1>c, <2>4
    <3> QED  BY <1>a, <2>1, <2>2, <2>4, <3>1
  <2> QED  BY <2>3, <2>4
<1>e. id \notin Untold(calls)
  <2> SUFFICES ASSUME NEW d \in DOMAIN calls, ~Loud(calls[d]) PROVE calls[d].action # id
    BY DEF Untold
  <2> QED  BY <1>3, <1>c DEF CInv, CallsInv
<1> HIDE DEF id, entry
<1>11. LogTells(audits, bus, Untold(calls))'
  <2>1. CASE call.copies
    <3>1. LogTells(Append(longer, Audit("action", id, status)), EndedAt(bus, id, status), Untold(calls))
      BY <1>3, <1>4, <1>5, <1>a, <1>b, <1>e, LogOfEnd
    <3> QED  BY <1>a, <1>d, <1>10, <2>1, <3>1
  <2>2. CASE ~call.copies
    <3>1. status = "completed" /\ n = HooksRun(Ended(bus[id], "completed"))  BY <1>a, <2>2
    <3>2. LogTells(longer, EndedAt(bus, id, "completed"), Untold(calls) \cup {id})
      BY <1>3, <1>4, <1>5, <1>b, <3>1, LogOfSilentEnd
    <3> QED  BY <1>a, <1>d, <1>10, <2>2, <3>1, <3>2
  <2> QED  BY <2>1, <2>2
<1>12. /\ bus'[id] = Ended(bus[id], status)
       /\ \A other \in DOMAIN bus \ {id} : bus'[other] = bus[other]
  BY <1>3, <1>4, <1>10 DEF EndedAt
<1>13. /\ bus'[id].status = status /\ bus'[id].key = bus[id].key /\ bus'[id].action = bus[id].action
  BY <1>4, <1>12 DEF Ended, Envelopes
<1>14. CallTold(call, bus')
  BY <1>3, <1>a, <1>10, <1>13 DEF CallTold
<1>15. /\ calls' \in Seq(CallRecords)
       /\ \A d \in DOMAIN calls' : CallTold(calls'[d], bus')
       /\ \A d, e \in DOMAIN calls' : calls'[d].action # 0 /\ calls'[d].action = calls'[e].action => d = e
  <2>1. /\ calls[c].action # 0 /\ call.action = calls[c].action
        /\ \A other \in DOMAIN bus \ {calls[c].action} : bus'[other] = bus[other]
    BY <1>3, <1>a, <1>12 DEF id
  <2>2. calls' = [calls EXCEPT ![c] = call] /\ DOMAIN bus' = DOMAIN bus  BY <1>a, <1>10
  <2> QED  BY <1>14, <2>1, <2>2, CallEnds
<1>16. CallsInv'  BY <1>15 DEF CallsInv
<1>17. audits' \in Seq(Entries)
  <2>1. CASE call.copies  BY <1>a, <1>9, <2>1, AppendProperties DEF entry
  <2>2. CASE ~call.copies  BY <1>a, <2>2
  <2> QED  BY <2>1, <2>2
<1>18. HooksDone(audits', Next_)
  <2>1. \A i \in DOMAIN SandboxHooks : CountIn(longer, "hook", i) = CountIn(audits, "hook", i)
    <3> SUFFICES ASSUME NEW i \in DOMAIN SandboxHooks
                 PROVE  CountIn(longer, "hook", i) = CountIn(audits, "hook", i)
      OBVIOUS
    <3>1. CountIn(longer, "hook", i) = CountIn(audits, "hook", i) + IF "hook" = "after" /\ id = i THEN n ELSE 0
      BY <1>b DEF AddsHooks
    <3> QED  BY <1>5, <3>1, CountIsNatural
  <2>2. HooksDone(longer, Next_)  BY <1>5, <2>1 DEF HooksDone
  <2>3. CASE call.copies  BY <1>a, <1>9, <2>2, <2>3, NoHookEntry DEF entry
  <2>4. CASE ~call.copies  BY <1>a, <2>2, <2>4
  <2> QED  BY <2>3, <2>4
<1>19. TypeInv' /\ HookInv' /\ ControlInv' /\ SandboxInv'
  <2> USE <1>1 DEF permissionVars, controlVars, sandboxVars
  <2>1. TypeInv'  BY <1>15, <1>17 DEF CInv, TypeInv
  <2>2. HookInv'  BY <1>18 DEF CInv, HookInv, Next_
  <2>3. ControlInv'  BY DEF CInv, ControlInv
  <2>4. SandboxInv'  BY DEF CInv, SandboxInv
  <2> QED  BY <2>1, <2>2, <2>3, <2>4
<1> QED  BY <1>10, <1>11, <1>16, <1>19 DEF CInv

(* What the steps of a dispatch make of it: the hook being handled stays    *)
(* the same, or the next one is turned to.                                  *)
LEMMA RunIsRecord ==
    ASSUME CInv, run # None
    PROVE  run \in Runs /\ run.at >= 1 /\ run.at \in Nat /\ (run.call # 0 => run.stage = "acting" /\ run.actions # <<>>)
BY DEF CInv, TypeInv, HookInv, Runs

LEMMA NextHookIsRecord ==
    ASSUME CInv, run # None
    PROVE  NextHook \in Runs /\ NextHook.at = run.at + 1 /\ NextHook.call = 0
<1>1. run \in Runs  BY RunIsRecord
<1>2. <<>> \in Seq(Asked)  OBVIOUS
<1> QED  BY <1>1, <1>2 DEF NextHook, Runs

(* A step that changes nothing but the dispatch.                            *)
LEMMA RunOnly ==
    ASSUME CInv, run' \in Runs,
           UNCHANGED <<calls, busVars, controlVars, sandboxVars>>,
           run'.at = Next_, run'.call # 0 => run'.stage = "acting" /\ run'.actions # <<>>
    PROVE  CInv'
<1> USE DEF busVars, controlVars, sandboxVars
<1>1. run' # None  BY NoneAssumption
<1>2. Next_ >= 1 /\ HooksDone(audits, Next_)
  BY RunIsRecord DEF CInv, HookInv, Next_
<1>3. HookInv'  BY <1>1, <1>2 DEF HookInv, Next_
<1>4. TypeInv'  BY DEF CInv, TypeInv
<1>5. BusInv'  BY DEF CInv, BusInv, OwnDraws
<1>6. CallsInv'  BY DEF CInv, CallsInv
<1>7. LogTells(audits, bus, Untold(calls))'  BY DEF CInv
<1>8. ControlInv'  BY DEF CInv, ControlInv
<1>9. SandboxInv'  BY DEF CInv, SandboxInv
<1> QED  BY <1>3, <1>4, <1>5, <1>6, <1>7, <1>8, <1>9 DEF CInv

LEMMA DispatchHookStep ==
    ASSUME CInv, NEW principal \in Principals, dispatch(principal)
    PROVE  CInv'
<1>1. /\ run = None
      /\ run' = [actor |-> principal, at |-> 1, stage |-> "next", actions |-> <<>>, call |-> 0]
      /\ UNCHANGED <<calls, busVars, controlVars, sandboxVars>>
  BY DEF dispatch
<1>2. <<>> \in Seq(Asked)  OBVIOUS
<1>3. run' \in Runs /\ run'.at = 1 /\ run'.call = 0  BY <1>1, <1>2 DEF Runs
<1> QED  BY <1>1, <1>3, RunOnly DEF Next_

LEMMA AskStep == ASSUME CInv, AskSandbox PROVE CInv'
<1>1. /\ run # None /\ run' = [run EXCEPT !.stage = "asked"]
      /\ UNCHANGED <<calls, busVars, controlVars, sandboxVars>>
  BY DEF AskSandbox, Dispatching
<1>2. run \in Runs /\ (run.call # 0 => run.stage = "acting" /\ run.actions # <<>>)  BY <1>1, RunIsRecord
<1>3. run.stage = "next"  BY DEF AskSandbox
<1>4. run' \in Runs /\ run'.at = run.at /\ run'.call = run.call
  BY <1>1, <1>2 DEF Runs
<1> QED  BY <1>1, <1>2, <1>3, <1>4, RunOnly DEF Next_

LEMMA AnswerStep == ASSUME CInv, NEW actions \in Answers, SandboxAnswers(actions) PROVE CInv'
<1>1. /\ run # None /\ run' = [run EXCEPT !.stage = "acting", !.actions = actions]
      /\ run.stage = "asked"
      /\ UNCHANGED <<calls, busVars, controlVars, sandboxVars>>
  BY DEF SandboxAnswers, Dispatching
<1>2. run \in Runs /\ run.stage = "asked"  BY <1>1, RunIsRecord
<1>3. actions \in Seq(Asked)
  <2>1. actions \in Seq(Range(actions)) /\ Range(actions) \subseteq Asked  BY ActionsAssumption DEF Asked
  <2> QED  BY <2>1, SeqMonotonic
<1>4. run.call = 0  BY <1>1, RunIsRecord
<1>5. run' \in Runs /\ run'.at = run.at /\ run'.call = run.call
  BY <1>1, <1>2, <1>3 DEF Runs
<1> QED  BY <1>1, <1>4, <1>5, RunOnly DEF Next_

LEMMA AnsweredStep == ASSUME CInv, ActionAnswered PROVE CInv'
<1>1. /\ run # None /\ run.call # 0 /\ run' = [run EXCEPT !.call = 0, !.actions = Tail(@)]
      /\ UNCHANGED <<calls, busVars, controlVars, sandboxVars>>
  BY DEF ActionAnswered, Dispatching
<1>2. run \in Runs /\ run.actions # <<>> /\ run.actions \in Seq(Asked)  BY <1>1, RunIsRecord DEF Runs
<1>3. Tail(run.actions) \in Seq(Asked)  BY <1>2, HeadTailProperties
<1>4. run' \in Runs /\ run'.at = run.at /\ run'.call = 0
  BY <1>1, <1>2, <1>3 DEF Runs
<1> QED  BY <1>1, <1>4, RunOnly DEF Next_

(* A hook ends: the log gets its entry, after that of a refusal.            *)
LEMMA HookEnds ==
    ASSUME CInv, run # None, run.at \in DOMAIN SandboxHooks, run' = NextHook,
           UNCHANGED <<calls, bus, byKey, usedNonces, controlVars, sandboxVars>>,
           NEW log \in Seq(Entries), LogTells(log, bus, Untold(calls)), HooksDone(log, run.at),
           NEW status \in {"denied", "failed", "succeeded"},
           audits' = Append(log, Audit("hook", run.at, status))
    PROVE  CInv'
<1> USE DEF controlVars, sandboxVars
<1>1. run \in Runs /\ run.at \in Nat /\ run.at >= 1  BY RunIsRecord
<1>2. /\ Audit("hook", run.at, status) \in Entries
      /\ Audit("hook", run.at, status).kind = "hook"
  BY <1>1 DEF Entries, Audit
<1>3. run' \in Runs /\ run'.at = run.at + 1 /\ run'.call = 0 /\ run' # None
  BY NextHookIsRecord, NoneAssumption
<1>4. audits' \in Seq(Entries)  BY <1>2, AppendProperties
<1>5. LogTells(audits, bus, Untold(calls))'
  <2>1. LogTells(Append(log, Audit("hook", run.at, status)), bus, Untold(calls))
    BY <1>2, OtherEntry
  <2> QED  BY <2>1
<1>6. HookInv'
  <2>1. HooksDone(audits', run.at + 1)  BY <1>2, HookEntry
  <2> QED  BY <1>1, <1>3, <2>1 DEF HookInv, Next_
<1>7. TypeInv'  BY <1>3, <1>4 DEF CInv, TypeInv
<1>8. BusInv'  BY DEF CInv, BusInv, OwnDraws
<1>9. CallsInv'  BY DEF CInv, CallsInv
<1>10. ControlInv'  BY DEF CInv, ControlInv
<1>11. SandboxInv'  BY DEF CInv, SandboxInv
<1> QED  BY <1>5, <1>6, <1>7, <1>8, <1>9, <1>10, <1>11 DEF CInv

LEMMA HookEndStep ==
    ASSUME CInv, SkipHook \/ SandboxFails \/ HookSucceeds \/ DenyAction
    PROVE  CInv'
<1>1. /\ run # None /\ run.at <= Len(SandboxHooks)
      /\ UNCHANGED <<calls, bus, byKey, usedNonces, controlVars, sandboxVars>>
      /\ run' = NextHook
  BY DEF SkipHook, SandboxFails, HookSucceeds, DenyAction, Dispatching, recordHookAudit
<1>2. run.at \in DOMAIN SandboxHooks /\ run.at \in Nat  BY <1>1, RunIsRecord, SandboxHooksNumbered
<1>3. audits \in Seq(Entries) /\ LogTells(audits, bus, Untold(calls)) /\ HooksDone(audits, run.at)
  BY <1>1 DEF CInv, TypeInv, HookInv, Next_
<1>4. CASE SkipHook \/ SandboxFails \/ HookSucceeds
  <2>1. \E status \in {"denied", "failed", "succeeded"} : audits' = Append(audits, Audit("hook", run.at, status))
    BY <1>4 DEF SkipHook, SandboxFails, HookSucceeds, recordHookAudit
  <2> QED  BY <1>1, <1>2, <1>3, <2>1, HookEnds
<1>5. CASE DenyAction
  <2>0. PICK status \in {"denied", "failed"} :
            audits' = audits \o <<Audit("request", run.at, "denied"), Audit("hook", run.at, status)>>
    BY <1>5 DEF DenyAction
  <2> DEFINE refused == Audit("request", run.at, "denied")
             over == Audit("hook", run.at, status)
             log == Append(audits, refused)
  <2>1. refused \in Entries /\ refused.kind = "request" /\ over \in Entries
    BY <1>2 DEF Entries, Audit
  <2>2. audits' = audits \o <<refused, over>>  BY <2>0
  <2> HIDE DEF refused, over
  <2>3. audits' = Append(log, over)  BY <1>3, <2>1, <2>2
  <2>4. log \in Seq(Entries)  BY <1>3, <2>1, AppendProperties
  <2>5. LogTells(log, bus, Untold(calls))  BY <1>3, <2>1, OtherEntry
  <2>6. HooksDone(log, run.at)  BY <1>3, <2>1, NoHookEntry
  <2> HIDE DEF log
  <2> QED  BY <1>1, <1>2, <2>3, <2>4, <2>5, <2>6, HookEnds DEF over
<1> QED  BY <1>4, <1>5

(* Checked, for a principal or for a dispatch.                              *)
LEMMA CallStarts ==
    ASSUME CInv, NEW request \in Requests, Checked(request),
           UNCHANGED <<bus, byKey, usedNonces, controlVars, sandboxVars>>,
           run' \in Runs \cup {None}, Next_' = Next_,
           run' # None => run'.at >= 1 /\ (run'.call # 0 => run'.stage = "acting" /\ run'.actions # <<>>)
    PROVE  CInv'
<1> USE DEF controlVars, sandboxVars
<1>1. /\ calls' \in Seq(CallRecords)
      /\ \A c \in DOMAIN calls' : CallTold(calls'[c], bus)
      /\ \A c, d \in DOMAIN calls' : calls'[c].action # 0 /\ calls'[c].action = calls'[d].action => c = d
      /\ audits' \in Seq(Entries)
      /\ LogTells(audits', bus, Untold(calls'))
      /\ HooksDone(audits', Next_)
  BY CheckedKeeps
<1>2. TypeInv'  BY <1>1 DEF CInv, TypeInv
<1>3. BusInv'  BY DEF CInv, BusInv, OwnDraws
<1>4. CallsInv'  BY <1>1 DEF CallsInv
<1>5. LogTells(audits, bus, Untold(calls))'  BY <1>1
<1>6. HookInv'
  <2>1. HooksDone(audits', Next_')  BY <1>1
  <2> QED  BY <2>1 DEF HookInv
<1>7. ControlInv'  BY DEF CInv, ControlInv
<1>8. SandboxInv'  BY DEF CInv, SandboxInv
<1> QED  BY <1>2, <1>3, <1>4, <1>5, <1>6, <1>7, <1>8 DEF CInv

LEMMA CallStart ==
    ASSUME CInv, NEW request \in Requests, Checked(request),
           UNCHANGED <<bus, byKey, usedNonces, controlVars, sandboxVars, run>>
    PROVE  CInv'
<1>1. Next_' = Next_  BY DEF Next_
<1>2. run \in Runs \cup {None} /\ (run # None => run.at >= 1 /\ (run.call # 0 => run.stage = "acting" /\ run.actions # <<>>))
  BY DEF CInv, TypeInv, HookInv
<1> QED  BY <1>1, <1>2, CallStarts

LEMMA ActionCalled ==
    ASSUME CInv, NEW principal \in Principals, NEW action \in DOMAIN Definitions, callAction(principal, action)
    PROVE  CInv'
<1>1. Request(principal, action, None) \in Requests  BY DEF Request, Requests, Named
<1>2. /\ Checked(Request(principal, action, None))
      /\ UNCHANGED <<bus, byKey, usedNonces, controlVars, sandboxVars, run>>
  BY DEF callAction
<1> QED  BY <1>1, <1>2, CallStart

(* A command: refused, or submitted at once.                                *)
LEMMA CommandCalled ==
    ASSUME CInv, NEW principal \in Principals, NEW command \in DOMAIN Commands, callCommand(principal, command)
    PROVE  CInv'
<1> DEFINE request == Request(principal, Commands[command].action, command)
<1>1. request \in Requests  BY DEF Request, Requests, Named
<1>2. UNCHANGED <<ack, beats, beatNonces, sandboxVars, run>>
  BY DEF callCommand
<1>3. \/ RefusesCall(request) /\ UNCHANGED <<bus, byKey, usedNonces, config>>
      \/ /\ Starts(request, FALSE)
         /\ calls' = Append(calls, Started(NewCall(request), FALSE))
         /\ UNCHANGED audits
  BY DEF callCommand
<1> HIDE DEF request
<1>4. CASE RefusesCall(request) /\ UNCHANGED <<bus, byKey, usedNonces, config>>
  <2>1. Checked(request)  BY <1>4 DEF Checked
  <2>2. UNCHANGED <<bus, byKey, usedNonces, controlVars, sandboxVars, run>>  BY <1>2, <1>4 DEF controlVars
  <2> QED  BY <1>1, <2>1, <2>2, CallStart
<1>5. CASE /\ Starts(request, FALSE)
           /\ calls' = Append(calls, Started(NewCall(request), FALSE))
           /\ UNCHANGED audits
  <2> DEFINE call == Started(NewCall(request), FALSE)
             c == Len(calls) + 1
  <2>1. /\ NewCall(request) \in CallRecords /\ NewCall(request).copies /\ NewCall(request).action = 0
        /\ ~NewCall(request).ok /\ NewCall(request).request = request
    BY <1>1 DEF NewCall, CallRecords, Stages
  <2>2. calls \in Seq(CallRecords) /\ DOMAIN calls = 1 .. Len(calls) /\ Len(calls) \in Nat /\ Len(bus) \in Nat
    BY LenProperties DEF CInv, TypeInv, BusInv
  <2>0. IsStarted(call, request)  BY <2>1, <2>2, StartedCall
  <2>3. call \in CallRecords /\ Loud(call)  BY <2>0 DEF IsStarted, Loud
  <2>4. calls' = Append(calls, call)  BY <1>5
  <2> HIDE DEF call
  <2>5. /\ calls' \in Seq(CallRecords) /\ DOMAIN calls' = DOMAIN calls \cup {c} /\ calls'[c] = call
        /\ \A d \in DOMAIN calls \ {c} : calls'[d] = calls[d]
    <3>1. /\ calls' \in Seq(CallRecords) /\ Len(calls') = Len(calls) + 1 /\ calls'[Len(calls) + 1] = call
          /\ \A d \in 1 .. Len(calls) : calls'[d] = calls[d]
      BY <2>2, <2>3, <2>4, AppendProperties
    <3>2. DOMAIN calls' = 1 .. Len(calls) + 1  BY <3>1, LenProperties
    <3> QED  BY <2>2, <3>1, <3>2
  <2>6. Untold(calls') = Untold(calls)  BY <2>2, <2>3, <2>4, UntoldAppended
  <2>7. UNCHANGED <<audits, ack, beats, beatNonces, deployment, sandbox, deployed, run>>
    BY <1>2, <1>5 DEF sandboxVars
  <2> HIDE DEF c
  <2> QED  BY <1>1, <1>5, <2>0, <2>5, <2>6, <2>7, SubmittedStep
<1> QED  BY <1>3, <1>4, <1>5

LEMMA RequestStep == ASSUME CInv, requestAction PROVE CInv'
<1>1. /\ run # None /\ run.actions # <<>> /\ run.stage = "acting"
      /\ Checked(Request(run.actor, Head(run.actions), None))
      /\ run' = [run EXCEPT !.call = Len(calls) + 1]
      /\ UNCHANGED <<bus, byKey, usedNonces, controlVars, sandboxVars>>
  BY DEF requestAction, Dispatching
<1>2. run \in Runs /\ run.at >= 1 /\ run.actions \in Seq(Asked) /\ run.actor \in Principals
  BY <1>1, RunIsRecord DEF Runs
<1>3. Head(run.actions) \in Asked  BY <1>1, <1>2, HeadTailProperties
<1>4. Request(run.actor, Head(run.actions), None) \in Requests
  BY <1>2, <1>3 DEF Request, Requests, Named
<1>5. Len(calls) + 1 \in Nat  BY LenProperties DEF CInv, TypeInv
<1>6. run' \in Runs /\ run'.at = run.at /\ run'.actions = run.actions /\ run'.stage = "acting"
  BY <1>1, <1>2, <1>5 DEF Runs
<1>7. Next_' = Next_  BY <1>1, <1>6, NoneAssumption DEF Next_
<1> QED  BY <1>1, <1>2, <1>4, <1>6, <1>7, CallStarts

LEMMA ActionsStep == CInv /\ [ActionsNext]_actionsVars => CInv'
<1> SUFFICES ASSUME CInv, [ActionsNext]_actionsVars PROVE CInv'
  OBVIOUS
<1>1. ASSUME PermissionsNext PROVE CInv'
  <2>1. UNCHANGED <<calls, busVars, controlVars, sandboxVars, run>>
    BY <1>1 DEF PermissionsNext, ChangePermissions, refreshPermissionEngine
  <2> QED  BY <2>1, PermissionStep
<1>2. ASSUME NEW c, CallStep(c) PROVE CInv'
  <2>1. c \in DOMAIN calls  BY <1>2 DEF CallStep
  <2> QED  BY <1>2, <2>1, WaitingStep, DispatchStep, EndingStep DEF CallStep
<1>3. CASE CallsNext
  <2>1. ASSUME NEW principal \in Principals, NEW action \in DOMAIN Definitions, NEW key \in Keys,
               NEW nonce \in Nonces, NEW signed \in BOOLEAN, submitAction(principal, action, key, nonce, signed)
        PROVE  CInv'
    BY <2>1, SubmitStep
  <2>2. ASSUME NEW id \in DOMAIN bus, NEW status \in {"completed", "failed"}, CompleteDirectly(id, status)
        PROVE  CInv'
    BY <2>2, DirectStep
  <2> QED  BY <1>1, <1>2, <1>3, <2>1, <2>2, ActionCalled, CommandCalled DEF CallsNext
<1>4. CASE ControlNext  BY <1>4, ControlStep
<1>5. CASE SandboxNext
  <2>1. ASSUME RunStep PROVE CInv'
    BY <2>1, AskStep, HookEndStep, RequestStep, AnsweredStep DEF RunStep
  <2> QED  BY <1>1, <1>2, <1>5, <2>1, DeploymentStep, DispatchHookStep, AnswerStep DEF SandboxNext
<1>6. CASE UNCHANGED actionsVars
  <2>1. UNCHANGED <<calls, busVars, controlVars, sandboxVars, run>>
    BY <1>6 DEF actionsVars, busVars, controlVars, sandboxVars
  <2> QED  BY <2>1, PermissionStep
<1> QED  BY <1>3, <1>4, <1>5, <1>6 DEF ActionsNext

(* Whatever is called, submitted, answered, deployed and killed in whatever *)
(* order, the bus, the nonces, the log and the heartbeats agree on what has *)
(* happened, once each.                                                     *)
THEOREM CallsStayRecorded == ActionsSpec => []CallsAreRecorded
<1>1. ActionsSpec => []CInv
  BY ActionsStart, ActionsStep, PTL DEF ActionsSpec
<1> QED  BY <1>1, InvariantImpliesRecorded, PTL

-----------------------------------------------------------------------------
-----------------------------------------------------------------------------
(* A sandbox's call that is checked and not yet submitted, although the     *)
(* deployment no longer has the capability.                                 *)
Adrift(p) ==
    /\ run # None /\ run.call # 0 /\ calls[run.call].stage = "checked"
    /\ SandboxHooks[run.at].plugin = p /\ Unasked(run.call)

(* Once an action was submitted late, no other of the plugin is on its way. *)
LateInv ==
    /\ late \in [Plugins -> {0, 1}]
    /\ run # None /\ run.call # 0 => run.call \in DOMAIN calls
    /\ \A p \in Plugins : late[p] = 1 => ~Adrift(p)

LEMMA LateStart == ActionsInit => LateInv
BY DEF ActionsInit, LateInv

(* Steps after which no more calls are adrift than before.                  *)
LEMMA NothingLater ==
    ASSUME LateInv, UNCHANGED <<deployment, late>>,
           DOMAIN calls \subseteq DOMAIN calls',
           \A c \in DOMAIN calls : calls'[c].request = calls[c].request
                                      /\ (calls'[c].stage = "checked" => calls[c].stage = "checked"),
           \/ run' = None \/ run'.call = 0
           \/ run # None /\ run'.call = run.call /\ run'.at = run.at
    PROVE  LateInv'
<1>1. CASE run' = None \/ run'.call = 0
  BY <1>1 DEF LateInv, Adrift
<1>2. CASE run' # None /\ run'.call # 0 /\ run # None /\ run'.call = run.call /\ run'.at = run.at
  <2>1. run.call \in DOMAIN calls  BY <1>2 DEF LateInv
  <2>2. ASSUME NEW p \in Plugins, Adrift(p)' PROVE Adrift(p)
    BY <1>2, <2>1, <2>2 DEF Adrift, Unasked
  <2> QED  BY <1>2, <2>1, <2>2 DEF LateInv
<1> QED  BY <1>1, <1>2

(* Its own submission may be the late one: then it is adrift no more.       *)
LEMMA LateDispatch ==
    ASSUME CInv, LateInv, NEW c \in DOMAIN calls, dispatchAuthorizedAction(c)
    PROVE  LateInv'
<1>1. /\ calls[c].stage = "checked"
      /\ late' = [p \in Plugins |->
                     IF OfSandbox(c) /\ p = SandboxHooks[run.at].plugin /\ Unasked(c) THEN late[p] + 1 ELSE late[p]]
      /\ run' = run /\ deployment' = deployment
  BY DEF dispatchAuthorizedAction
<1>2. PICK malformed \in BOOLEAN : calls' = [calls EXCEPT ![c] = Started(calls[c], malformed)]
  BY DEF dispatchAuthorizedAction
<1>3. calls[c] \in CallRecords  BY ElementOfSeq DEF CInv, TypeInv
<1>4. /\ DOMAIN calls' = DOMAIN calls
      /\ calls'[c].stage # "checked"
      /\ \A d \in DOMAIN calls \ {c} : calls'[d] = calls[d]
  <2>1. calls'[c] = Started(calls[c], malformed)  BY <1>2
  <2>2. Started(calls[c], malformed).stage \in {"malformed", "executing"}  BY <1>3 DEF Started, CallRecords
  <2> QED  BY <1>2, <2>1, <2>2
<1>5. ASSUME NEW p \in Plugins, Adrift(p)' PROVE Adrift(p) /\ run.call # c
  <2>1. run # None /\ run.call # 0 /\ run.call \in DOMAIN calls  BY <1>1, <1>5 DEF Adrift, LateInv
  <2>2. run.call # c  BY <1>1, <1>4, <1>5 DEF Adrift
  <2> QED  BY <1>1, <1>4, <1>5, <2>1, <2>2 DEF Adrift, Unasked
<1>6. ASSUME NEW p \in Plugins, late'[p] # late[p] PROVE Adrift(p) /\ run.call = c
  BY <1>1, <1>6 DEF OfSandbox, Adrift
<1>7. ASSUME NEW p \in Plugins PROVE late'[p] \in {0, 1}
  <2>1. late[p] \in {0, 1} /\ late'[p] \in {late[p], late[p] + 1}  BY <1>1 DEF LateInv
  <2>2. late'[p] # late[p] => late[p] # 1  BY <1>6 DEF LateInv
  <2> QED  BY <2>1, <2>2
<1>8. ASSUME NEW p \in Plugins, late'[p] = 1 PROVE ~Adrift(p)'
  <2> SUFFICES ASSUME Adrift(p)' PROVE FALSE
    OBVIOUS
  <2>1. Adrift(p) /\ run.call # c  BY <1>5
  <2> QED  BY <1>6, <1>8, <2>1 DEF LateInv
<1>9. late' \in [Plugins -> {0, 1}]  BY <1>1, <1>7
<1>10. run' # None /\ run'.call # 0 => run'.call \in DOMAIN calls'  BY <1>1, <1>4 DEF LateInv
<1> QED  BY <1>8, <1>9, <1>10 DEF LateInv

(* The action that a dispatch starts has the capability at that moment.     *)
LEMMA LateRequest == ASSUME CInv, LateInv, requestAction PROVE LateInv'
<1>1. /\ run # None /\ run.actions # <<>>
      /\ Granted(Head(run.actions))
      /\ Checked(Request(run.actor, Head(run.actions), None))
      /\ run' = [run EXCEPT !.call = Len(calls) + 1]
      /\ UNCHANGED <<deployment, late>>
  BY DEF requestAction, Dispatching, sandboxVars
<1>2. run \in Runs /\ run.actions \in Seq(Asked)  BY <1>1, RunIsRecord DEF Runs
<1>3. Request(run.actor, Head(run.actions), None) \in Requests
  <2>1. Head(run.actions) \in Asked  BY <1>1, <1>2, HeadTailProperties
  <2> QED  BY <1>2, <2>1 DEF Request, Requests, Named, Runs
<1>4. /\ calls' \in Seq(CallRecords) /\ Len(calls') = Len(calls) + 1
      /\ calls'[Len(calls) + 1].request = Request(run.actor, Head(run.actions), None)
  BY <1>1, <1>3, CheckedKeeps
<1>5. Len(calls) + 1 \in DOMAIN calls'
  <2>1. Len(calls) \in Nat  BY LenProperties DEF CInv, TypeInv
  <2> QED  BY <1>4, <2>1, LenProperties
<1>6. run'.call = Len(calls) + 1 /\ run'.at = run.at  BY <1>1, <1>2 DEF Runs
<1>7. calls'[run'.call].request.action = Head(run.actions)  BY <1>4, <1>6 DEF Request
<1>8. ~Unasked(run.call)'
  BY <1>1, <1>6, <1>7 DEF Unasked, Granted, assertCapabilityForServer, Hook
<1>9. \A p \in Plugins : ~Adrift(p)'  BY <1>8 DEF Adrift
<1> QED  BY <1>1, <1>5, <1>6, <1>9 DEF LateInv

(* With every deployment and its end the count starts anew.                 *)
LEMMA LateDeployment ==
    ASSUME CInv, LateInv, NEW plugin \in Plugins, Deploy(plugin) \/ Kill(plugin) \/ Reconcile(plugin)
    PROVE  LateInv'
<1>1. UNCHANGED <<calls, run>>  BY DEF Deploy, Kill, Reconcile
<1>2. CASE Deploy(plugin) \/ Kill(plugin)
  <2>1. late' = [late EXCEPT ![plugin] = 0]  BY <1>2 DEF Deploy, Kill
  <2>2. \A p \in Plugins \ {plugin} : deployment'[p] = deployment[p]
    <3>1. DOMAIN deployment = Plugins  BY DEF CInv, SandboxInv
    <3>2. \E value : deployment' = [deployment EXCEPT ![plugin] = value]  BY <1>2 DEF Deploy, Kill
    <3> QED  BY <3>1, <3>2
  <2>3. ASSUME NEW p \in Plugins \ {plugin}, Adrift(p)' PROVE Adrift(p)
    BY <1>1, <2>2, <2>3 DEF Adrift, Unasked
  <2> QED  BY <1>1, <2>1, <2>3 DEF LateInv
<1>3. CASE Reconcile(plugin)
  BY <1>1, <1>3, NothingLater DEF Reconcile
<1> QED  BY <1>2, <1>3

(* Calls are added, and those there are go on.                              *)
LEMMA LateCalls ==
    ASSUME CInv, LateInv, UNCHANGED <<deployment, late, run>>,
           \/ \E call : calls' = Append(calls, call)
           \/ \E c \in DOMAIN calls : Unsubmitted(c) \/ Settles(c) \/ Throws(c) \/ HookSettles(c) \/ Completes(c)
    PROVE  LateInv'
<1>1. calls \in Seq(CallRecords)  BY DEF CInv, TypeInv
<1>2. /\ DOMAIN calls \subseteq DOMAIN calls'
      /\ \A c \in DOMAIN calls : calls'[c].request = calls[c].request
                                     /\ (calls'[c].stage = "checked" => calls[c].stage = "checked")
  <2>1. ASSUME NEW call, calls' = Append(calls, call)
        PROVE  DOMAIN calls \subseteq DOMAIN calls' /\ \A c \in DOMAIN calls : calls'[c] = calls[c]
    BY <1>1, <2>1
  <2>2. ASSUME NEW c \in DOMAIN calls, Unsubmitted(c) \/ Settles(c) \/ Throws(c) \/ HookSettles(c) \/ Completes(c)
        PROVE  /\ DOMAIN calls' = DOMAIN calls
               /\ \A d \in DOMAIN calls \ {c} : calls'[d] = calls[d]
               /\ calls'[c].request = calls[c].request
               /\ calls'[c].stage = "checked" => calls[c].stage = "checked"
    <3>1. calls[c] \in CallRecords  BY <1>1, ElementOfSeq
    <3>2. CASE Unsubmitted(c)  BY <3>1, <3>2 DEF Unsubmitted, CallRecords
    <3>3. CASE Settles(c)
      <4>1. PICK copies \in BOOLEAN : calls' = [calls EXCEPT ![c].stage = "hooks", ![c].copies = copies]
        BY <3>3 DEF Settles
      <4> QED  BY <3>1, <4>1 DEF CallRecords
    <3>4. CASE Throws(c)  BY <3>1, <3>4 DEF Throws, CallRecords
    <3>5. CASE HookSettles(c)  BY <3>1, <3>5 DEF HookSettles, CallRecords
    <3>6. CASE Completes(c)
      <4>1. calls' = [calls EXCEPT ![c].stage = "done", ![c].ok = calls[c].copies]  BY <3>6 DEF Completes
      <4> QED  BY <3>1, <4>1 DEF CallRecords
    <3> QED  BY <2>2, <3>2, <3>3, <3>4, <3>5, <3>6
  <2>3. CASE \E call : calls' = Append(calls, call)  BY <2>1, <2>3
  <2>4. CASE \E c \in DOMAIN calls : Unsubmitted(c) \/ Settles(c) \/ Throws(c) \/ HookSettles(c) \/ Completes(c)
    <3>1. PICK c \in DOMAIN calls : Unsubmitted(c) \/ Settles(c) \/ Throws(c) \/ HookSettles(c) \/ Completes(c)
      BY <2>4
    <3>2. /\ DOMAIN calls' = DOMAIN calls
          /\ \A d \in DOMAIN calls \ {c} : calls'[d] = calls[d]
          /\ calls'[c].request = calls[c].request
          /\ calls'[c].stage = "checked" => calls[c].stage = "checked"
      BY <2>2, <3>1
    <3> QED  BY <3>2
  <2> QED  BY <2>3, <2>4
<1> QED  BY <1>2, NothingLater

LEMMA LateStep == CInv /\ LateInv /\ [ActionsNext]_actionsVars => LateInv'
<1> SUFFICES ASSUME CInv, LateInv, [ActionsNext]_actionsVars PROVE LateInv'
  OBVIOUS
<1>1. ASSUME UNCHANGED <<calls, deployment, late, run>> PROVE LateInv'
  BY <1>1 DEF LateInv, Adrift, Unasked
<1>2. ASSUME PermissionsNext PROVE LateInv'
  BY <1>1, <1>2 DEF PermissionsNext, ChangePermissions, refreshPermissionEngine, sandboxVars
<1>3. ASSUME NEW c, CallStep(c) PROVE LateInv'
  <2>1. c \in DOMAIN calls  BY <1>3 DEF CallStep
  <2>2. CASE dispatchAuthorizedAction(c)  BY <2>1, <2>2, LateDispatch
  <2>3. CASE Unsubmitted(c) \/ Settles(c) \/ Throws(c) \/ HookSettles(c) \/ Completes(c)
    <3>1. UNCHANGED <<deployment, late, run>>
      BY <2>3 DEF Unsubmitted, Settles, Throws, HookSettles, Completes, sandboxVars
    <3> QED  BY <2>1, <2>3, <3>1, LateCalls
  <2> QED  BY <1>3, <2>2, <2>3 DEF CallStep
<1>4. CASE CallsNext
  <2>1. ASSUME NEW principal \in Principals, NEW action \in DOMAIN Definitions, callAction(principal, action)
        PROVE  LateInv'
    <3>1. \E call : calls' = Append(calls, call)  BY <2>1 DEF callAction, Checked, RefusesCall
    <3>2. UNCHANGED <<deployment, late, run>>  BY <2>1 DEF callAction, sandboxVars
    <3> QED  BY <3>1, <3>2, LateCalls
  <2>2. ASSUME NEW principal \in Principals, NEW command \in DOMAIN Commands, callCommand(principal, command)
        PROVE  LateInv'
    <3>1. \E call : calls' = Append(calls, call)  BY <2>2 DEF callCommand, RefusesCall
    <3>2. UNCHANGED <<deployment, late, run>>  BY <2>2 DEF callCommand, sandboxVars
    <3> QED  BY <3>1, <3>2, LateCalls
  <2>3. ASSUME NEW principal \in Principals, NEW action \in DOMAIN Definitions, NEW key \in Keys,
               NEW nonce \in Nonces, NEW signed \in BOOLEAN, submitAction(principal, action, key, nonce, signed)
        PROVE  LateInv'
    BY <1>1, <2>3 DEF submitAction, sandboxVars
  <2>4. ASSUME NEW id \in DOMAIN bus, NEW status \in {"completed", "failed"}, CompleteDirectly(id, status)
        PROVE  LateInv'
    BY <1>1, <2>4 DEF CompleteDirectly, sandboxVars
  <2> QED  BY <1>2, <1>3, <1>4, <2>1, <2>2, <2>3, <2>4 DEF CallsNext
<1>5. CASE ControlNext
  BY <1>1, <1>5 DEF ControlNext, setRuntimeConfig, ackConfigVersion, heartbeat, sandboxVars
<1>6. CASE SandboxNext
  <2>1. ASSUME NEW next \in Runs, run' = next, UNCHANGED <<calls, sandboxVars>>,
               next.call = 0 \/ (run # None /\ next.call = run.call /\ next.at = run.at)
        PROVE  LateInv'
    <3>1. UNCHANGED <<deployment, late>>  BY <2>1 DEF sandboxVars
    <3>2. run' = None \/ run'.call = 0 \/ (run # None /\ run'.call = run.call /\ run'.at = run.at)  BY <2>1
    <3> QED  BY <2>1, <3>1, <3>2, NothingLater
  <2>2. ASSUME NEW principal \in Principals, dispatch(principal) PROVE LateInv'
    <3> DEFINE next == [actor |-> principal, at |-> 1, stage |-> "next", actions |-> <<>>, call |-> 0]
    <3>1. run' = next /\ UNCHANGED <<calls, sandboxVars>>  BY <2>2 DEF dispatch
    <3>2. <<>> \in Seq(Asked)  OBVIOUS
    <3>3. next \in Runs /\ next.call = 0  BY <3>2 DEF Runs
    <3> QED  BY <2>1, <3>1, <3>3
  <2>3. CASE AskSandbox
    <3>1. run # None /\ run' = [run EXCEPT !.stage = "asked"] /\ UNCHANGED <<calls, sandboxVars>>
      BY <2>3 DEF AskSandbox, Dispatching
    <3>2. run \in Runs  BY <3>1, RunIsRecord
    <3>3. run' \in Runs /\ run'.call = run.call /\ run'.at = run.at  BY <3>1, <3>2 DEF Runs
    <3> QED  BY <2>1, <3>1, <3>3
  <2>4. ASSUME NEW actions \in Answers, SandboxAnswers(actions) PROVE LateInv'
    <3>1. /\ run # None /\ run' = [run EXCEPT !.stage = "acting", !.actions = actions]
          /\ UNCHANGED <<calls, sandboxVars>>
      BY <2>4 DEF SandboxAnswers, Dispatching
    <3>2. run \in Runs  BY <3>1, RunIsRecord
    <3>3. actions \in Seq(Asked)
      <4>1. actions \in Seq(Range(actions)) /\ Range(actions) \subseteq Asked  BY ActionsAssumption DEF Asked
      <4> QED  BY <4>1, SeqMonotonic
    <3>4. run' \in Runs /\ run'.call = run.call /\ run'.at = run.at  BY <3>1, <3>2, <3>3 DEF Runs
    <3> QED  BY <2>1, <3>1, <3>4
  <2>5. CASE SkipHook \/ SandboxFails \/ DenyAction \/ HookSucceeds
    <3>1. run # None /\ run' = NextHook /\ UNCHANGED <<calls, sandboxVars>>
      BY <2>5 DEF SkipHook, SandboxFails, DenyAction, HookSucceeds, recordHookAudit, Dispatching
    <3>2. NextHook \in Runs /\ NextHook.call = 0  BY <3>1, NextHookIsRecord
    <3> QED  BY <2>1, <3>1, <3>2
  <2>6. CASE ActionAnswered
    <3>1. /\ run # None /\ run.call # 0 /\ run' = [run EXCEPT !.call = 0, !.actions = Tail(@)]
          /\ UNCHANGED <<calls, sandboxVars>>
      BY <2>6 DEF ActionAnswered, Dispatching
    <3>2. run \in Runs /\ run.actions # <<>> /\ run.actions \in Seq(Asked)  BY <3>1, RunIsRecord DEF Runs
    <3>3. Tail(run.actions) \in Seq(Asked)  BY <3>2, HeadTailProperties
    <3>4. run' \in Runs /\ run'.call = 0  BY <3>1, <3>2, <3>3 DEF Runs
    <3> QED  BY <2>1, <3>1, <3>4
  <2>7. ASSUME RunStep PROVE LateInv'
    BY <2>3, <2>5, <2>6, <2>7, LateRequest DEF RunStep
  <2> QED  BY <1>2, <1>3, <1>6, <2>2, <2>4, <2>7, LateDeployment DEF SandboxNext
<1>7. CASE UNCHANGED actionsVars  BY <1>1, <1>7 DEF actionsVars
<1> QED  BY <1>4, <1>5, <1>6, <1>7 DEF ActionsNext

(* However deployments are killed and replaced between the check of an      *)
(* action that a sandbox asked for and its submission, at most one of the   *)
(* actions of an answer is submitted without the capability.                *)
THEOREM SandboxesStop == ActionsSpec => []OneActionAfterWithdrawal
<1>1. CInv /\ LateInv /\ [ActionsNext]_actionsVars => CInv' /\ LateInv'
  BY ActionsStep, LateStep
<1>2. LateInv => OneActionAfterWithdrawal
  <2> SUFFICES ASSUME LateInv, NEW p \in Plugins PROVE late[p] <= 1
    BY DEF OneActionAfterWithdrawal
  <2>1. late[p] \in {0, 1}  BY DEF LateInv
  <2> QED  BY <2>1
<1> QED  BY <1>1, <1>2, ActionsStart, LateStart, PTL DEF ActionsSpec

-----------------------------------------------------------------------------
(***************************************************************************)
(* The menu.                                                               *)
(***************************************************************************)
Item(m) == Menus[m].action # None \/ Menus[m].parent = None

LeadsSo(Visible, f) ==
    f = [n \in 0 .. Cardinality(DOMAIN Menus) |->
           {m \in Visible :
               \/ Menus[m].action # None \/ Menus[m].parent = None
               \/ n > 0 /\ \E child \in f[n - 1] : Menus[child].parent = m}]

ShownSo(Leading, f) ==
    f = [n \in 0 .. Cardinality(DOMAIN Menus) |->
           {m \in Leading : Menus[m].parent = None \/ (n > 0 /\ Menus[m].parent \in f[n - 1])}]

(* Both recursions of the tree have a solution.                             *)
LEMMA TreesExist ==
    ASSUME NEW V
    PROVE  (\E f : LeadsSo(V, f)) /\ (\E f : ShownSo(V, f))
<1> DEFINE K == Cardinality(DOMAIN Menus)
<1>1. K \in Nat  BY ActionsAssumption, FS_CardinalityType
<1>2. \E f : LeadsSo(V, f)
  <2> DEFINE first == {m \in V : Item(m)}
             step == [n \in 1 .. K |-> [L \in SUBSET V |->
                        {m \in V : Item(m) \/ \E child \in L : Menus[child].parent = m}]]
  <2>1. first \in SUBSET V  OBVIOUS
  <2>2. \A n \in 1 .. K : \A L \in SUBSET V :
           step[n][L] = {m \in V : Item(m) \/ \E child \in L : Menus[child].parent = m}
    OBVIOUS
  <2> HIDE DEF K, first, step
  <2>3. \A n \in 1 .. K : \A L \in SUBSET V : step[n][L] \in SUBSET V
    <3> SUFFICES ASSUME NEW n \in 1 .. K, NEW L \in SUBSET V PROVE step[n][L] \in SUBSET V
      OBVIOUS
    <3> QED  BY <2>2
  <2>4. PICK f \in [0 .. K -> SUBSET V] : Recursion(K, first, step, f)
    BY <1>1, <2>1, <2>3, RecursionFromZero
  <2>5. f = [n \in 0 .. K |-> IF n = 0 THEN first ELSE step[n][f[n - 1]]]
    BY <2>4 DEF Recursion
  <2>6. ASSUME NEW n \in 0 .. K
        PROVE  f[n] = {m \in V : \/ Menus[m].action # None \/ Menus[m].parent = None
                                 \/ n > 0 /\ \E child \in f[n - 1] : Menus[child].parent = m}
    <3>1. CASE n = 0
      <4>1. f[n] = first  BY <2>5, <3>1
      <4> QED  BY <4>1, <3>1 DEF first, Item
    <3>2. CASE n # 0
      <4>1. n \in 1 .. K /\ n - 1 \in 0 .. K /\ n > 0  BY <1>1, <3>2
      <4>2. f[n] = step[n][f[n - 1]]  BY <2>5, <3>2
      <4>3. f[n - 1] \in SUBSET V  BY <2>4, <4>1
      <4>4. f[n] = {m \in V : Item(m) \/ \E child \in f[n - 1] : Menus[child].parent = m}
        BY <2>2, <4>1, <4>2, <4>3
      <4> QED  BY <4>1, <4>4 DEF Item
    <3> QED  BY <3>1, <3>2
  <2>7. f = [n \in 0 .. K |-> f[n]]  BY <2>4
  <2>8. LeadsSo(V, f)  BY <2>6, <2>7 DEF LeadsSo, K
  <2> QED  BY <2>8
<1>3. \E f : ShownSo(V, f)
  <2> DEFINE first == {m \in V : Menus[m].parent = None}
             step == [n \in 1 .. K |-> [L \in SUBSET V |->
                        {m \in V : Menus[m].parent = None \/ Menus[m].parent \in L}]]
  <2>1. first \in SUBSET V  OBVIOUS
  <2>2. \A n \in 1 .. K : \A L \in SUBSET V :
           step[n][L] = {m \in V : Menus[m].parent = None \/ Menus[m].parent \in L}
    OBVIOUS
  <2> HIDE DEF K, first, step
  <2>3. \A n \in 1 .. K : \A L \in SUBSET V : step[n][L] \in SUBSET V
    <3> SUFFICES ASSUME NEW n \in 1 .. K, NEW L \in SUBSET V PROVE step[n][L] \in SUBSET V
      OBVIOUS
    <3> QED  BY <2>2
  <2>4. PICK f \in [0 .. K -> SUBSET V] : Recursion(K, first, step, f)
    BY <1>1, <2>1, <2>3, RecursionFromZero
  <2>5. f = [n \in 0 .. K |-> IF n = 0 THEN first ELSE step[n][f[n - 1]]]
    BY <2>4 DEF Recursion
  <2>6. ASSUME NEW n \in 0 .. K
        PROVE  f[n] = {m \in V : Menus[m].parent = None \/ (n > 0 /\ Menus[m].parent \in f[n - 1])}
    <3>1. CASE n = 0
      <4>1. f[n] = first  BY <2>5, <3>1
      <4> QED  BY <4>1, <3>1 DEF first
    <3>2. CASE n # 0
      <4>1. n \in 1 .. K /\ n - 1 \in 0 .. K /\ n > 0  BY <1>1, <3>2
      <4>2. f[n] = step[n][f[n - 1]]  BY <2>5, <3>2
      <4>3. f[n - 1] \in SUBSET V  BY <2>4, <4>1
      <4>4. f[n] = {m \in V : Menus[m].parent = None \/ Menus[m].parent \in f[n - 1]}
        BY <2>2, <4>1, <4>2, <4>3
      <4> QED  BY <4>1, <4>4
    <3> QED  BY <3>1, <3>2
  <2>7. f = [n \in 0 .. K |-> f[n]]  BY <2>4
  <2>8. ShownSo(V, f)  BY <2>6, <2>7 DEF ShownSo, K
  <2> QED  BY <2>8
<1> QED  BY <1>2, <1>3

(* What is shown is visible to the principal itself.                        *)
LEMMA ShownIsVisible ==
    ASSUME NEW principal, NEW menu \in buildTreeForPrincipal(principal)
    PROVE  isVisible(principal, menu)
<1> DEFINE V == {m \in DOMAIN Menus : isVisible(principal, m)}
           leads == CHOOSE f : LeadsSo(V, f)
           K == Cardinality(DOMAIN Menus)
           visible == CHOOSE f : ShownSo(leads[K], f)
<1>1. K \in Nat  BY ActionsAssumption, FS_CardinalityType
<1>2. buildTreeForPrincipal(principal) = visible[K]
  BY DEF buildTreeForPrincipal, LeadsSo, ShownSo
<1>3. LeadsSo(V, leads)
  <2> HIDE DEF V
  <2> QED  BY TreesExist
<1> HIDE DEF V, leads
<1>4. ShownSo(leads[K], visible)  BY TreesExist
<1> HIDE DEF visible
<1>5. K \in 0 .. K  BY <1>1
<1>6. visible[K] \subseteq leads[K]  BY <1>4, <1>5 DEF ShownSo
<1>7. leads[K] \subseteq V  BY <1>3, <1>5 DEF LeadsSo
<1> QED  BY <1>2, <1>6, <1>7 DEF V

(* The menu decides with the snapshot and the definitions the call reads:   *)
(* what it offers is known to the bridge and permitted, as long as no       *)
(* definition runs a server command without a permission.                   *)
LEMMA VisibleIsCallable == MenuOffersOnlyCallable
<1> SUFFICES ASSUME NEW principal \in Principals, NEW menu \in buildTreeForPrincipal(principal),
                    Menus[menu].action # None
             PROVE  LET request == Request(principal, Menus[menu].action, None) IN
                    Known(request) /\ Permitted(principal, RequiredPermission(request))
  BY DEF MenuOffersOnlyCallable
<1>1. isVisible(principal, menu)  BY ShownIsVisible
<1> DEFINE action == Menus[menu].action
<1>2. /\ action \in DOMAIN Definitions /\ Definitions[action].enabled
      /\ Permitted(principal, Definitions[action].permission)
  BY <1>1 DEF isVisible
<1>3. Definitions[action].type = "execute_server_command" => Definitions[action].permission # None
  BY <1>2, DefinitionsAssumption
<1>4. Request(principal, action, None).command = None /\ Request(principal, action, None).action = action
  BY DEF Request
<1> QED  BY <1>2, <1>3, <1>4 DEF Known, RequiredPermission

(* In every state each item of a principal's menu is one the bridge would   *)
(* accept from that principal at that moment.                               *)
THEOREM MenusOfferCallable == ActionsSpec => []MenuOffersOnlyCallable
<1>1. MenuOffersOnlyCallable  BY VisibleIsCallable
<1> QED  BY <1>1, PTL

-----------------------------------------------------------------------------
(***************************************************************************)
(* Resolving the principals of a decision.                                 *)
(***************************************************************************)
Closed(set) == \A e \in Live(edges) : e.child \in set => e.parent \in set

Nodes(principal) == {principal} \cup {e.parent : e \in Live(edges)}
Elements(s) == {s[i] : i \in 1 .. Len(s)}
OnStack(walk) == Elements(walk.stack)
EdgesOf(current) == {e \in Live(edges) : e.child = current}

(* What the walk is sure of: the principal is found, an ancestor is found  *)
(* or still to be visited, and nothing is either that a closed set around  *)
(* the principal leaves out.                                               *)
Walked(principal, walk) ==
    /\ walk \in [stack : Seq(Nodes(principal)), visited : SUBSET Nodes(principal)]
    /\ principal \in walk.visited \cup OnStack(walk)
    /\ \A e \in Live(edges) : e.child \in walk.visited => e.parent \in walk.visited \cup OnStack(walk)
    /\ \A set : (principal \in set /\ Closed(set)) => walk.visited \cup OnStack(walk) \subseteq set

(* Each round of it takes one from this.                                    *)
Unwalked(walk) == {e \in Live(edges) : e.child \notin walk.visited}
Work(walk) == Len(walk.stack) + Cardinality(Unwalked(walk))

LEMMA ParentsOfEdges ==
    ASSUME IsFiniteSet(Live(edges)), NEW principal, NEW current
    PROVE  /\ ParentsOf(current) \in Seq(Nodes(principal))
           /\ Len(ParentsOf(current)) = Cardinality(EdgesOf(current))
           /\ Elements(ParentsOf(current)) = {e.parent : e \in EdgesOf(current)}
<1> DEFINE D == EdgesOf(current)
           drawn == SetToSeq(D)
           parents == [i \in 1 .. Len(drawn) |-> drawn[i].parent]
<1>1. D \in SUBSET Live(edges) /\ IsFiniteSet(D)
  <2>1. D \in SUBSET Live(edges)  BY DEF EdgesOf
  <2> QED  BY <2>1, FS_Subset
<1>2. /\ drawn \in Seq(D) /\ Len(drawn) = Cardinality(D) /\ Len(drawn) \in Nat
      /\ \A e \in D : \E i \in 1 .. Len(drawn) : drawn[i] = e
  <2> HIDE DEF D
  <2> QED  BY <1>1, SequenceOfSet
<1>3. ParentsOf(current) = parents
  BY DEF ParentsOf, EdgesOf
<1> HIDE DEF D, drawn
<1>4. \A i \in 1 .. Len(drawn) : drawn[i] \in D
  BY <1>2, ElementOfSeq
<1>5. parents \in [1 .. Len(drawn) -> Nodes(principal)]
  BY <1>1, <1>4 DEF Nodes
<1>6. parents \in Seq(Nodes(principal)) /\ Len(parents) = Len(drawn)
  BY <1>2, <1>5
<1>7. {parents[i] : i \in 1 .. Len(parents)} = {e.parent : e \in D}
  <2>1. \A i \in 1 .. Len(drawn) : parents[i] = drawn[i].parent
    OBVIOUS
  <2> HIDE DEF parents
  <2> QED  BY <1>2, <1>4, <1>6, <2>1
<1> HIDE DEF parents
<1> QED  BY <1>2, <1>3, <1>6, <1>7 DEF D, Elements

(* A stack loses its last entry.                                            *)
LEMMA StackPops ==
    ASSUME NEW N, NEW stack \in Seq(N), stack # <<>>
    PROVE  /\ Front(stack) \in Seq(N) /\ Len(Front(stack)) = Len(stack) - 1
           /\ Len(stack) \in Nat \ {0} /\ Last(stack) \in N
           /\ Elements(stack) = Elements(Front(stack)) \cup {Last(stack)}
<1> DEFINE n == Len(stack)
           front == Front(stack)
<1>1. n \in Nat \ {0}  BY EmptySeq
<1>2. \A i \in 1 .. n : stack[i] \in N  BY ElementOfSeq
<1>3. /\ front \in Seq(N) /\ Len(front) = n - 1
      /\ \A i \in 1 .. n - 1 : front[i] = stack[i]
  <2>1. \A i \in 1 .. n - 1 : stack[i] \in N  BY <1>1, <1>2
  <2>2. 1 \in Int /\ n - 1 \in Int  BY <1>1
  <2>3. /\ SubSeq(stack, 1, n - 1) \in Seq(N)
        /\ Len(SubSeq(stack, 1, n - 1)) = IF 1 <= n - 1 THEN (n - 1) - 1 + 1 ELSE 0
        /\ \A i \in 1 .. (n - 1) - 1 + 1 : SubSeq(stack, 1, n - 1)[i] = stack[1 + i - 1]
    <3> HIDE DEF n
    <3> QED  BY <2>1, <2>2, SubSeqProperties
  <2>4. front = SubSeq(stack, 1, n - 1)  BY DEF Front
  <2>5. (IF 1 <= n - 1 THEN (n - 1) - 1 + 1 ELSE 0) = n - 1 /\ (n - 1) - 1 + 1 = n - 1
    <3> HIDE DEF n
    <3>1. n = 1 \/ 1 <= n - 1  BY <1>1
    <3>2. (n - 1) - 1 + 1 = n - 1  BY <1>1
    <3>3. CASE n = 1  BY <3>2, <3>3
    <3>4. CASE 1 <= n - 1  BY <3>2, <3>4
    <3> QED  BY <3>1, <3>3, <3>4
  <2>6. \A i \in 1 .. n - 1 : 1 + i - 1 = i  OBVIOUS
  <2> HIDE DEF n, front
  <2> QED  BY <2>3, <2>4, <2>5, <2>6
<1> HIDE DEF front
<1>4. Last(stack) = stack[n]  BY DEF Last
<1>5. 1 .. n = 1 .. n - 1 \cup {n}  BY <1>1
<1>6. Elements(stack) = Elements(front) \cup {stack[n]}
  BY <1>1, <1>3, <1>5 DEF Elements
<1> QED  BY <1>1, <1>2, <1>3, <1>4, <1>6 DEF front

LEMMA StackGrows ==
    ASSUME NEW N, NEW s \in Seq(N), NEW t \in Seq(N)
    PROVE  /\ s \o t \in Seq(N) /\ Len(s \o t) = Len(s) + Len(t)
           /\ Elements(s \o t) = Elements(s) \cup Elements(t)
<1> DEFINE m == Len(s)
           n == Len(t)
           both == s \o t
<1>1. m \in Nat /\ n \in Nat  OBVIOUS
<1>2. /\ both \in Seq(N) /\ Len(both) = m + n
      /\ \A i \in 1 .. m + n : both[i] = IF i <= m THEN s[i] ELSE t[i - m]
  BY ConcatProperties
<1> HIDE DEF both, m, n
<1>3. \A i \in 1 .. m : i \in 1 .. m + n /\ both[i] = s[i]  BY <1>1, <1>2
<1>4. \A i \in 1 .. n : i + m \in 1 .. m + n /\ both[i + m] = t[i]
  <2> SUFFICES ASSUME NEW i \in 1 .. n PROVE i + m \in 1 .. m + n /\ both[i + m] = t[i]
    OBVIOUS
  <2>1. i + m \in 1 .. m + n /\ ~(i + m <= m) /\ (i + m) - m = i  BY <1>1
  <2> QED  BY <1>2, <2>1
<1>5. \A i \in 1 .. m + n : \/ i \in 1 .. m /\ both[i] = s[i]
                            \/ i - m \in 1 .. n /\ both[i] = t[i - m]
  BY <1>1, <1>2
<1>6. {both[i] : i \in 1 .. m + n} = {s[i] : i \in 1 .. m} \cup {t[i] : i \in 1 .. n}
  BY <1>3, <1>4, <1>5
<1> QED  BY <1>2, <1>6 DEF both, m, n, Elements

(* A round keeps what the walk is sure of,                                  *)
LEMMA VisitKeepsSure ==
    ASSUME IsFiniteSet(Live(edges)), NEW principal, NEW walk, Walked(principal, walk)
    PROVE  Walked(principal, Visit(walk))
<1> DEFINE N == Nodes(principal)
           current == Last(walk.stack)
           rest == Front(walk.stack)
           onRest == Elements(rest)
           parents == ParentsOf(current)
<1>0. /\ walk.stack \in Seq(N) /\ walk.visited \subseteq N
      /\ walk = [stack |-> walk.stack, visited |-> walk.visited]
  BY DEF Walked
<1>1. CASE walk.stack = <<>>
  BY <1>1 DEF Visit
<1>2. ASSUME walk.stack # <<>>
      PROVE  rest \in Seq(N) /\ current \in N /\ OnStack(walk) = onRest \cup {current}
  <2> HIDE DEF N
  <2> QED  BY <1>0, <1>2, StackPops DEF OnStack
<1>3. ASSUME walk.stack # <<>>, current \in walk.visited
      PROVE  Walked(principal, Visit(walk))
  <2> DEFINE new == [stack |-> rest, visited |-> walk.visited]
  <2>1. Visit(walk) = new
    BY <1>3 DEF Visit
  <2>2. OnStack(new) = onRest
    BY DEF OnStack
  <2>3. new.visited \cup OnStack(new) = walk.visited \cup OnStack(walk)
    BY <1>2, <1>3, <2>2
  <2>4. new.visited = walk.visited
    OBVIOUS
  <2>5. new \in [stack : Seq(N), visited : SUBSET N]
    BY <1>0, <1>2, <1>3
  <2> HIDE DEF new, N, current
  <2>6. Walked(principal, new)
    BY <2>3, <2>4, <2>5 DEF Walked, N
  <2> QED  BY <2>1, <2>6
<1>4. ASSUME walk.stack # <<>>, current \notin walk.visited
      PROVE  Walked(principal, Visit(walk))
  <2> DEFINE new == [stack |-> rest \o parents, visited |-> walk.visited \cup {current}]
             up == {e.parent : e \in EdgesOf(current)}
  <2>1. Visit(walk) = new
    BY <1>4 DEF Visit
  <2>2. parents \in Seq(N) /\ Elements(parents) = up
    <3> HIDE DEF current
    <3> QED  BY ParentsOfEdges
  <2>3. rest \o parents \in Seq(N) /\ OnStack(new) = onRest \cup up
    <3>1. OnStack(new) = Elements(rest \o parents)
      BY DEF OnStack
    <3>2. rest \in Seq(N)
      BY <1>2, <1>4
    <3> HIDE DEF N, rest, parents, new, up
    <3>3. /\ rest \o parents \in Seq(N)
          /\ Elements(rest \o parents) = Elements(rest) \cup Elements(parents)
      BY <2>2, <3>2, StackGrows
    <3> QED  BY <2>2, <3>1, <3>3
  <2>4. new \in [stack : Seq(N), visited : SUBSET N]
    BY <1>0, <1>2, <1>4, <2>3
  <2>5. new.visited = walk.visited \cup {current}
    OBVIOUS
  <2>6. new.visited \cup OnStack(new) = walk.visited \cup OnStack(walk) \cup up
    BY <1>2, <1>4, <2>3, <2>5
  <2> HIDE DEF new, N, current, rest, parents
  <2>7. principal \in new.visited \cup OnStack(new)
    BY <2>6 DEF Walked
  <2>8. ASSUME NEW e \in Live(edges), e.child \in new.visited
        PROVE  e.parent \in new.visited \cup OnStack(new)
    <3>1. CASE e.child \in walk.visited
      BY <2>6, <3>1 DEF Walked
    <3>2. CASE e.child = current
      BY <2>6, <3>2 DEF EdgesOf
    <3> QED  BY <2>5, <2>8, <3>1, <3>2
  <2>9. ASSUME NEW set, principal \in set, Closed(set)
        PROVE  new.visited \cup OnStack(new) \subseteq set
    <3>1. walk.visited \cup OnStack(walk) \subseteq set
      BY <2>9 DEF Walked
    <3>2. current \in set
      BY <1>2, <1>4, <3>1
    <3>3. up \subseteq set
      BY <2>9, <3>2 DEF EdgesOf, Closed
    <3> QED  BY <2>6, <3>1, <3>3
  <2>10. Walked(principal, new)
    BY <2>4, <2>7, <2>8, <2>9 DEF Walked, N
  <2> QED  BY <2>1, <2>10
<1> QED  BY <1>1, <1>3, <1>4

(* and takes one from the work.                                             *)
LEMMA VisitWorks ==
    ASSUME IsFiniteSet(Live(edges)), NEW principal, NEW walk, Walked(principal, walk), walk.stack # <<>>
    PROVE  Work(walk) \in Nat /\ Work(Visit(walk)) = Work(walk) - 1
<1> DEFINE N == Nodes(principal)
           current == Last(walk.stack)
           rest == Front(walk.stack)
           parents == ParentsOf(current)
<1>1. /\ walk.stack \in Seq(N) /\ walk.visited \subseteq N
  BY DEF Walked
<1>2. rest \in Seq(N) /\ Len(rest) = Len(walk.stack) - 1 /\ Len(walk.stack) \in Nat \ {0}
  <2> HIDE DEF N
  <2> QED  BY <1>1, StackPops
<1>3. IsFiniteSet(Unwalked(walk)) /\ Cardinality(Unwalked(walk)) \in Nat
  <2>1. Unwalked(walk) \in SUBSET Live(edges)  BY DEF Unwalked
  <2>2. IsFiniteSet(Unwalked(walk))  BY <2>1, FS_Subset
  <2> QED  BY <2>2, FS_CardinalityType
<1>4. CASE current \in walk.visited
  <2> DEFINE new == [stack |-> rest, visited |-> walk.visited]
  <2>1. Visit(walk) = new
    BY <1>4 DEF Visit
  <2>2. Unwalked(new) = Unwalked(walk)
    BY DEF Unwalked
  <2>3. Work(new) = Len(rest) + Cardinality(Unwalked(walk))
    BY <2>2 DEF Work
  <2>4. Work(walk) = Len(walk.stack) + Cardinality(Unwalked(walk))
    BY DEF Work
  <2> HIDE DEF new, rest
  <2> QED  BY <1>2, <1>3, <2>1, <2>3, <2>4
<1>5. CASE current \notin walk.visited
  <2> DEFINE new == [stack |-> rest \o parents, visited |-> walk.visited \cup {current}]
  <2>1. Visit(walk) = new
    BY <1>5 DEF Visit
  <2>2. parents \in Seq(N) /\ Len(parents) = Cardinality(EdgesOf(current))
    <3> HIDE DEF current
    <3> QED  BY ParentsOfEdges
  <2>3. Len(rest \o parents) = Len(rest) + Len(parents)
    <3> HIDE DEF N, rest, parents
    <3> QED  BY <1>2, <2>2, StackGrows
  <2>4. Unwalked(new) = Unwalked(walk) \ EdgesOf(current)
    BY DEF Unwalked, EdgesOf
  <2>5. EdgesOf(current) \in SUBSET Unwalked(walk)
    BY <1>5 DEF Unwalked, EdgesOf
  <2>6. Work(new) = Len(rest \o parents) + Cardinality(Unwalked(walk) \ EdgesOf(current))
    BY <2>4 DEF Work
  <2> HIDE DEF new, rest, parents, current
  <2>7. /\ Cardinality(EdgesOf(current)) \in Nat
        /\ Cardinality(Unwalked(walk) \ EdgesOf(current))
              = Cardinality(Unwalked(walk)) - Cardinality(EdgesOf(current))
    <3>1. IsFiniteSet(EdgesOf(current))
      BY <1>3, <2>5, FS_Subset
    <3>2. Unwalked(walk) \cap EdgesOf(current) = EdgesOf(current)
      BY <2>5
    <3>3. Cardinality(Unwalked(walk) \ EdgesOf(current))
              = Cardinality(Unwalked(walk)) - Cardinality(Unwalked(walk) \cap EdgesOf(current))
      BY <1>3, <3>1, FS_Difference
    <3> QED  BY <3>1, <3>2, <3>3, FS_CardinalityType
  <2>8. Work(walk) = Len(walk.stack) + Cardinality(Unwalked(walk))
    BY DEF Work
  <2>9. Work(new) = Len(rest) + Len(parents) + (Cardinality(Unwalked(walk)) - Cardinality(EdgesOf(current)))
    BY <2>3, <2>6, <2>7
  <2>10. Len(parents) = Cardinality(EdgesOf(current)) /\ Cardinality(EdgesOf(current)) \in Nat
    BY <2>2, <2>7
  <2>11. Work(new) = Len(rest) + Cardinality(Unwalked(walk))
    BY <1>2, <1>3, <2>9, <2>10
  <2> QED  BY <1>2, <1>3, <2>1, <2>8, <2>11
<1> QED  BY <1>2, <1>3, <1>4, <1>5 DEF Work

Walking(principal, f) ==
    f = [n \in 0 .. Cardinality(Live(edges)) + 1 |->
           IF n = 0 THEN [stack |-> <<principal>>, visited |-> {}] ELSE Visit(f[n - 1])]

LEMMA WalkExists ==
    ASSUME IsFiniteSet(Live(edges)), NEW principal
    PROVE  \E f : Walking(principal, f) /\ \A n \in 0 .. Cardinality(Live(edges)) + 1 : Walked(principal, f[n])
<1> DEFINE K == Cardinality(Live(edges)) + 1
           N == Nodes(principal)
           S == {walk \in [stack : Seq(N), visited : SUBSET N] : Walked(principal, walk)}
           first == [stack |-> <<principal>>, visited |-> {}]
           next == [walk \in S |-> Visit(walk)]
           step == [n \in 1 .. K |-> next]
<1>1. K \in Nat
  BY FS_CardinalityType
<1>2. first \in S
  <2>1. principal \in N
    BY DEF Nodes
  <2>2. <<principal>> \in Seq(N)
    BY <2>1
  <2>3. first \in [stack : Seq(N), visited : SUBSET N]
    BY <2>2
  <2>4. OnStack(first) = {principal}
    BY DEF OnStack, Elements
  <2>5. Walked(principal, first)
    BY <2>3, <2>4 DEF Walked
  <2> QED  BY <2>3, <2>5
<1>3. \A walk \in S : next[walk] = Visit(walk) /\ Visit(walk) \in S
  <2> SUFFICES ASSUME NEW walk \in S PROVE Visit(walk) \in S
    OBVIOUS
  <2>1. Walked(principal, walk)
    OBVIOUS
  <2>2. Walked(principal, Visit(walk))
    BY <2>1, VisitKeepsSure
  <2> QED  BY <2>2 DEF Walked
<1>4. \A n \in 1 .. K : step[n] = next
  OBVIOUS
<1>5. \A walk \in S : Walked(principal, walk)
  OBVIOUS
<1> HIDE DEF K, S, next, step, first
<1>6. \A n \in 1 .. K : \A walk \in S : step[n][walk] \in S
  <2> SUFFICES ASSUME NEW n \in 1 .. K, NEW walk \in S PROVE step[n][walk] \in S
    OBVIOUS
  <2> QED  BY <1>3, <1>4
<1>7. PICK f \in [0 .. K -> S] : Recursion(K, first, step, f)
  BY <1>1, <1>2, <1>6, RecursionFromZero
<1>8. f = [n \in 0 .. K |-> IF n = 0 THEN first ELSE step[n][f[n - 1]]]
  BY <1>7 DEF Recursion
<1>9. ASSUME NEW n \in 0 .. K
      PROVE  f[n] = IF n = 0 THEN first ELSE Visit(f[n - 1])
  <2>1. CASE n = 0
    BY <1>8, <2>1
  <2>2. CASE n # 0
    <3>1. n \in 1 .. K /\ n - 1 \in 0 .. K
      BY <1>1, <2>2
    <3>2. f[n] = step[n][f[n - 1]] /\ step[n] = next
      BY <1>4, <1>8, <2>2, <3>1
    <3>3. f[n - 1] \in S
      BY <1>7, <3>1
    <3> QED  BY <1>3, <2>2, <3>2, <3>3
  <2> QED  BY <2>1, <2>2
<1>10. f = [n \in 0 .. K |-> f[n]]
  BY <1>7
<1>11. f = [n \in 0 .. K |-> IF n = 0 THEN first ELSE Visit(f[n - 1])]
  BY <1>9, <1>10
<1>12. Walking(principal, f)
  BY <1>11 DEF Walking, K, first
<1>13. \A n \in 0 .. K : Walked(principal, f[n])
  BY <1>5, <1>7
<1> QED  BY <1>12, <1>13 DEF K

(* Two walks of one principal are one.                                      *)
LEMMA WalksAgree ==
    ASSUME IsFiniteSet(Live(edges)), NEW principal, NEW f, NEW g, Walking(principal, f), Walking(principal, g)
    PROVE  f = g
<1> DEFINE K == Cardinality(Live(edges)) + 1
           M == {n \in Nat : n <= K => f[n] = g[n]}
<1>1. K \in Nat
  BY FS_CardinalityType
<1>2. /\ f = [n \in 0 .. K |-> f[n]] /\ g = [n \in 0 .. K |-> g[n]]
      /\ \A n \in 0 .. K : f[n] = IF n = 0 THEN [stack |-> <<principal>>, visited |-> {}] ELSE Visit(f[n - 1])
      /\ \A n \in 0 .. K : g[n] = IF n = 0 THEN [stack |-> <<principal>>, visited |-> {}] ELSE Visit(g[n - 1])
  BY DEF Walking
<1> HIDE DEF K
<1>3. 0 \in M
  <2>1. 0 \in 0 .. K  BY <1>1
  <2>2. f[0] = g[0]  BY <1>2, <2>1
  <2> QED  BY <2>2
<1>4. ASSUME NEW n \in Nat, n \in M
      PROVE  n + 1 \in M
  <2> SUFFICES ASSUME n + 1 <= K PROVE f[n + 1] = g[n + 1]
    OBVIOUS
  <2>1. n + 1 \in 0 .. K /\ n + 1 # 0 /\ (n + 1) - 1 = n /\ n <= K
    BY <1>1
  <2>2. f[n] = g[n]
    BY <1>4, <2>1
  <2>3. f[n + 1] = Visit(f[n]) /\ g[n + 1] = Visit(g[n])
    BY <1>2, <2>1
  <2> QED  BY <2>2, <2>3
<1>5. Nat \subseteq M
  <2> HIDE DEF M
  <2> QED  BY <1>3, <1>4, SetOfNaturals
<1>6. \A n \in 0 .. K : f[n] = g[n]
  BY <1>1, <1>5
<1> QED  BY <1>2, <1>6

(* When the rounds are over nothing is left on the stack.                   *)
LEMMA WalkEnds ==
    ASSUME IsFiniteSet(Live(edges)), NEW principal, NEW f, Walking(principal, f),
           \A n \in 0 .. Cardinality(Live(edges)) + 1 : Walked(principal, f[n])
    PROVE  f[Cardinality(Live(edges)) + 1].stack = <<>>
<1> DEFINE K == Cardinality(Live(edges)) + 1
           Done(n) == f[n].stack = <<>> \/ Work(f[n]) <= K - n
           M == {n \in Nat : n <= K => Done(n)}
<1>1. K \in Nat
  BY FS_CardinalityType
<1>2. \A n \in 0 .. K : f[n] = IF n = 0 THEN [stack |-> <<principal>>, visited |-> {}] ELSE Visit(f[n - 1])
  BY DEF Walking
<1>3. Work(f[0]) = K
  <2>0. 0 \in 0 .. K  BY <1>1
  <2>1. f[0] = [stack |-> <<principal>>, visited |-> {}]
    BY <1>2, <2>0
  <2>2. Unwalked(f[0]) = Live(edges) /\ Len(f[0].stack) = 1
    BY <2>1 DEF Unwalked
  <2> QED  BY <2>2, FS_CardinalityType DEF Work
<1> HIDE DEF K
<1>4. 0 \in M
  <2>1. Done(0)  BY <1>1, <1>3
  <2> QED  BY <2>1
<1>5. ASSUME NEW n \in Nat, n \in M
      PROVE  n + 1 \in M
  <2> SUFFICES ASSUME n + 1 <= K PROVE Done(n + 1)
    OBVIOUS
  <2>1. n + 1 \in 0 .. K /\ n \in 0 .. K /\ n + 1 # 0 /\ (n + 1) - 1 = n /\ n <= K
    BY <1>1
  <2>2. Done(n)
    BY <1>5, <2>1
  <2>3. f[n + 1] = Visit(f[n])
    BY <1>2, <2>1
  <2>4. CASE f[n].stack = <<>>
    BY <2>3, <2>4 DEF Visit
  <2>5. CASE f[n].stack # <<>>
    <3>1. Walked(principal, f[n])
      BY <2>1 DEF K
    <3>2. Work(f[n]) \in Nat /\ Work(Visit(f[n])) = Work(f[n]) - 1
      BY <2>5, <3>1, VisitWorks
    <3>3. Work(f[n]) <= K - n
      BY <2>2, <2>5
    <3>4. Work(f[n + 1]) <= K - (n + 1)
      BY <1>1, <2>3, <3>2, <3>3
    <3> QED  BY <3>4
  <2> QED  BY <2>4, <2>5
<1>6. Nat \subseteq M
  <2> HIDE DEF M
  <2> QED  BY <1>4, <1>5, SetOfNaturals
<1>7. Done(K)
  BY <1>1, <1>6
<1>8. SUFFICES ASSUME f[K].stack # <<>> PROVE FALSE
  BY DEF K
<1>9. Walked(principal, f[K])
  <2>1. K \in 0 .. K  BY <1>1
  <2> QED  BY <2>1 DEF K
<1>10. Len(f[K].stack) \in Nat \ {0}
  <2>1. f[K].stack \in Seq(Nodes(principal))
    BY <1>9 DEF Walked
  <2> QED  BY <1>8, <2>1, EmptySeq
<1>11. Cardinality(Unwalked(f[K])) \in Nat
  <2>1. Unwalked(f[K]) \in SUBSET Live(edges)  BY DEF Unwalked
  <2>2. IsFiniteSet(Unwalked(f[K]))  BY <2>1, FS_Subset
  <2> QED  BY <2>2, FS_CardinalityType
<1>12. Work(f[K]) <= 0
  BY <1>1, <1>7, <1>8
<1>13. Work(f[K]) = Len(f[K].stack) + Cardinality(Unwalked(f[K]))
  BY DEF Work
<1> QED  BY <1>10, <1>11, <1>12, <1>13

(* The principals a decision is made from are the smallest set that holds   *)
(* its principal and is closed under the live edges.                        *)
LEMMA ResolvedIs ==
    ASSUME IsFiniteSet(Live(edges)), NEW principal
    PROVE  LET resolved == resolvePrincipals(principal) IN
           /\ principal \in resolved /\ Closed(resolved) /\ resolved \subseteq Nodes(principal)
           /\ \A set : (principal \in set /\ Closed(set)) => resolved \subseteq set
<1> DEFINE K == Cardinality(Live(edges)) + 1
           walk == CHOOSE f : Walking(principal, f)
           resolved == resolvePrincipals(principal)
<1>1. resolved = walk[K].visited
  BY DEF resolvePrincipals, Walking
<1>2. PICK f : Walking(principal, f) /\ \A n \in 0 .. K : Walked(principal, f[n])
  BY WalkExists
<1>3. Walking(principal, walk)
  BY <1>2
<1> HIDE DEF walk
<1>4. walk = f
  BY <1>2, <1>3, WalksAgree
<1>5. f[K].stack = <<>>
  BY <1>2, WalkEnds
<1>6. Walked(principal, f[K])
  <2>1. K \in Nat  BY FS_CardinalityType
  <2>2. K \in 0 .. K  BY <2>1
  <2> QED  BY <1>2, <2>2
<1>7. resolved = f[K].visited
  BY <1>1, <1>4
<1> HIDE DEF K, resolved
<1>8. OnStack(f[K]) = {}
  BY <1>5 DEF OnStack, Elements
<1>9. /\ principal \in resolved /\ resolved \subseteq Nodes(principal)
      /\ \A e \in Live(edges) : e.child \in resolved => e.parent \in resolved
      /\ \A set : (principal \in set /\ Closed(set)) => resolved \subseteq set
  BY <1>6, <1>7, <1>8 DEF Walked
<1> QED  BY <1>9 DEF Closed, resolved

-----------------------------------------------------------------------------
(***************************************************************************)
(* The invariant.  The mirror's part: what is being sent was planned from  *)
(* what is remembered, so a sent plan leaves the server with what is       *)
(* remembered then.                                                        *)
(***************************************************************************)
GuildEdges ==
    {[parent |-> held[2].target, child |-> memberRolePrincipalId(held[1], held[2].role), source |-> Guild] :
        held \in Users \X RoleMappings}

EdgesSound ==
    /\ DOMAIN edges \subseteq EdgeKeys \cup GuildEdges
    /\ IsFiniteSet(DOMAIN edges)
    /\ \A key \in DOMAIN edges : edges[key] \in {Never} \cup (Nat \ {0})

RulesSound ==
    /\ rules \in Seq(RuleInputs)
    /\ \A i, j \in DOMAIN rules : rules[i].id = rules[j].id => i = j

Planned(sent) ==
    \E desired \in AceLines :
        sent = <<[commands |-> planAceMirrorCommands(mirror, desired), desired |-> desired]>>

MirrorSound ==
    /\ mirror \in AceLines /\ fxserver \in AceLines
    /\ emission = <<>> \/ Planned(emission)
    /\ MemoryIsServer

AccessInv ==
    /\ EdgesSound
    /\ clock \in Nat
    /\ DOMAIN grants \subseteq GrantKeys
    /\ RulesSound
    /\ MirrorSound

LEMMA AccessInvStarts == AccessInit => AccessInv
<1> SUFFICES ASSUME AccessInit PROVE AccessInv
  OBVIOUS
<1>1. EdgesSound
  BY FS_EmptySet DEF AccessInit, EdgesSound
<1>2. RulesSound
  BY DEF AccessInit, RulesSound
<1>3. MirrorSound
  <2>1. NoLines \in AceLines
    BY DEF NoLines, AceLines
  <2> QED  BY <2>1 DEF AccessInit, MirrorSound, MemoryIsServer
<1>4. clock \in Nat /\ DOMAIN grants \subseteq GrantKeys
  BY DEF AccessInit
<1> QED  BY <1>1, <1>2, <1>3, <1>4 DEF AccessInv

(* What the engine and the mirror use of the store's edges.                 *)
LEMMA LiveIsFinite ==
    ASSUME EdgesSound
    PROVE  IsFiniteSet(Live(edges))
<1>1. Live(edges) \in SUBSET (DOMAIN edges)
  BY DEF Live
<1> QED  BY <1>1, FS_Subset DEF EdgesSound

LEMMA GuildEdgesAreFinite ==
    ASSUME NEW mappings \in SUBSET RoleMappings, NEW members
    PROVE  /\ desiredEdges(mappings, members) \subseteq GuildEdges
           /\ IsFiniteSet(desiredEdges(mappings, members))
           /\ \A e \in desiredEdges(mappings, members) : e.source = Guild
<1> DEFINE f == [held \in Users \X RoleMappings |->
                    [parent |-> held[2].target, child |-> memberRolePrincipalId(held[1], held[2].role),
                     source |-> Guild]]
<1>1. GuildEdges = {f[held] : held \in Users \X RoleMappings}
  BY DEF GuildEdges
<1>2. IsFiniteSet(Users \X RoleMappings)
  BY AccessAssumption, FS_Product
<1> HIDE DEF f
<1>3. IsFiniteSet(GuildEdges)
  BY <1>1, <1>2, ImageIsFinite
<1>4. desiredEdges(mappings, members) \in SUBSET GuildEdges
  BY DEF desiredEdges, GuildEdges
<1>5. \A e \in desiredEdges(mappings, members) : e.source = Guild
  BY DEF desiredEdges
<1> QED  BY <1>3, <1>4, <1>5, FS_Subset

(* The lines FXServer should hold are lines it can hold.                    *)
LEMMA DesiredIsLines ==
    ASSUME AccessInv
    PROVE  buildDesiredMirrorState \in AceLines
<1>1. \A g \in Live(grants) : g \in GrantKeys /\ g.effect \in {"allow", "deny"}
  BY AccessAssumption DEF Live, AccessInv
<1>2. \A permission : RuleOf(permission) # 0 => rules[RuleOf(permission)] \in RuleInputs
  <2> SUFFICES ASSUME NEW permission, RuleOf(permission) # 0 PROVE rules[RuleOf(permission)] \in RuleInputs
    OBVIOUS
  <2> DEFINE enabled == {i \in DOMAIN rules : rules[i].enabled /\ rules[i].permission = permission}
  <2>1. rules \in Seq(RuleInputs)
    BY DEF AccessInv, RulesSound
  <2>2. enabled \subseteq Nat /\ enabled \subseteq 1 .. Len(rules) /\ Len(rules) \in Nat
    BY <2>1
  <2>3. enabled # {} /\ RuleOf(permission) = CHOOSE i \in enabled : \A j \in enabled : j <= i
    BY DEF RuleOf
  <2>4. \E i \in enabled : \A j \in enabled : j <= i
    <3> DEFINE mirrored == {Len(rules) - i : i \in enabled}
    <3>1. mirrored \subseteq Nat /\ mirrored # {}
      BY <2>2, <2>3
    <3>2. PICK x \in mirrored : \A y \in mirrored : x <= y
      <4> HIDE DEF mirrored
      <4> QED  BY <3>1, LeastElement
    <3>3. PICK i \in enabled : x = Len(rules) - i
      OBVIOUS
    <3>4. \A j \in enabled : j <= i
      <4> SUFFICES ASSUME NEW j \in enabled PROVE j <= i
        OBVIOUS
      <4>1. Len(rules) - i <= Len(rules) - j
        BY <3>2, <3>3
      <4>2. i \in Nat /\ j \in Nat /\ Len(rules) \in Nat
        BY <2>2
      <4> HIDE DEF enabled
      <4> QED  BY <4>1, <4>2
    <3> QED  BY <3>4
  <2> HIDE DEF enabled
  <2>5. RuleOf(permission) \in enabled
    BY <2>3, <2>4
  <2> QED  BY <2>1, <2>2, <2>5, ElementOfSeq
<1>3. buildDesiredMirrorState.aces \subseteq
          [principal : {g.principal : g \in GrantKeys}, ace : {r.ace : r \in RuleInputs}, effect : {"allow", "deny"}]
  BY <1>1, <1>2 DEF buildDesiredMirrorState
<1>4. \A e \in Live(edges) : e \in EdgeKeys \cup GuildEdges
  BY DEF Live, AccessInv, EdgesSound
<1>5. \A e \in GuildEdges : /\ e.child \in Users \X {m.role : m \in RoleMappings}
                            /\ e.parent \in {m.target : m \in RoleMappings}
  BY DEF GuildEdges, memberRolePrincipalId
<1>6. buildDesiredMirrorState.principals \subseteq
          UNION {{[child |-> e.child, parent |-> e.parent] : e \in EdgeKeys},
                 [child : Users \X {m.role : m \in RoleMappings}, parent : {m.target : m \in RoleMappings}]}
  BY <1>4, <1>5 DEF buildDesiredMirrorState
<1> QED  BY <1>3, <1>6 DEF AceLines, buildDesiredMirrorState

(* The guild's synchronisation.                                             *)
LEMMA SyncKeepsEdges ==
    ASSUME AccessInv, NEW mappings \in SUBSET RoleMappings, NEW members, syncDiscordRoles(mappings, members)
    PROVE  /\ EdgesSound'
           /\ {e \in DOMAIN edges' : e.source = Guild} = desiredEdges(mappings, members)
           /\ \A e \in desiredEdges(mappings, members) : edges'[e] = Never \/ edges'[e] > clock
           /\ \A e \in EdgeKeys : (e \in DOMAIN edges') <=> (e \in DOMAIN edges)
<1> DEFINE desired == desiredEdges(mappings, members)
           existing == {key \in DOMAIN edges : key.source = Guild}
           live == existing \cap Live(edges)
           added == desired \ live
           removed == existing \ desired
           kept == (DOMAIN edges \cup added) \ removed
           expiresAt == IF EdgeTtl = Never THEN Never ELSE clock + EdgeTtl
<1>1. edges' = [key \in kept |-> IF key \in added THEN expiresAt ELSE edges[key]]
  BY DEF syncDiscordRoles, planSync
<1>2. desired \subseteq GuildEdges /\ IsFiniteSet(desired) /\ \A e \in desired : e.source = Guild
  BY GuildEdgesAreFinite
<1>3. EdgesSound /\ clock \in Nat
  BY DEF AccessInv
<1>4. expiresAt \in {Never} \cup (Nat \ {0}) /\ (expiresAt = Never \/ expiresAt > clock)
  <2>1. EdgeTtl = Never \/ EdgeTtl \in Nat \ {0}
    BY AccessAssumption
  <2> QED  BY <1>3, <2>1
<1> HIDE DEF desired, expiresAt
<1>5. DOMAIN edges' = kept /\ \A key \in kept : edges'[key] = IF key \in added THEN expiresAt ELSE edges[key]
  BY <1>1
<1>6. kept \subseteq DOMAIN edges \cup desired
  OBVIOUS
<1>7. IsFiniteSet(kept)
  <2>1. IsFiniteSet(DOMAIN edges \cup desired)
    <3> HIDE DEF kept
    <3> QED  BY <1>2, <1>3, FS_Union DEF EdgesSound
  <2>2. kept \in SUBSET (DOMAIN edges \cup desired)
    BY <1>6
  <2> HIDE DEF kept
  <2> QED  BY <2>1, <2>2, FS_Subset
<1>8. EdgesSound'
  <2>1. DOMAIN edges' \subseteq EdgeKeys \cup GuildEdges
    BY <1>2, <1>3, <1>5, <1>6 DEF EdgesSound
  <2>2. IsFiniteSet(DOMAIN edges')
    BY <1>5, <1>7
  <2>3. \A key \in DOMAIN edges' : edges'[key] \in {Never} \cup (Nat \ {0})
    BY <1>3, <1>4, <1>5, <1>6 DEF EdgesSound
  <2> QED  BY <2>1, <2>2, <2>3 DEF EdgesSound, GuildEdges, memberRolePrincipalId
<1>9. {e \in DOMAIN edges' : e.source = Guild} = desired
  BY <1>2, <1>5
<1>10. ASSUME NEW e \in desired
       PROVE  edges'[e] = Never \/ edges'[e] > clock
  <2>1. e \in kept
    <3>1. e \in DOMAIN edges'  BY <1>9
    <3> QED  BY <1>5, <3>1
  <2>2. CASE e \in added
    <3>1. edges'[e] = expiresAt
      BY <1>5, <2>1, <2>2
    <3> QED  BY <1>4, <3>1
  <2>3. CASE e \notin added
    <3>1. edges'[e] = edges[e]
      BY <1>5, <2>1, <2>3
    <3>2. e \in Live(edges) /\ e \in DOMAIN edges
      BY <2>3 DEF Live
    <3>3. edges[e] \in {Never} \cup (Nat \ {0}) /\ ~isExpired(edges[e])
      BY <1>3, <3>2 DEF EdgesSound, Live
    <3> HIDE DEF added, live, existing
    <3> QED  BY <1>3, <3>1, <3>3 DEF isExpired
  <2> QED  BY <2>2, <2>3
<1>11. ASSUME NEW e \in EdgeKeys
       PROVE  (e \in DOMAIN edges') <=> (e \in DOMAIN edges)
  <2>1. e.source # Guild
    BY AccessAssumption
  <2> QED  BY <1>2, <1>5, <2>1
<1> QED  BY <1>8, <1>9, <1>10, <1>11 DEF desired

(* What the store's calls do to its rows.                                   *)
LEMMA StoreKeepsRows ==
    ASSUME AccessInv, StoreNext
    PROVE  EdgesSound' /\ (DOMAIN grants \subseteq GrantKeys)' /\ RulesSound' /\ UNCHANGED <<clock, mirrorVars>>
<1>0. EdgesSound /\ clock \in Nat /\ DOMAIN grants \subseteq GrantKeys /\ RulesSound
  BY DEF AccessInv
<1>1. ASSUME NEW policy \in PolicyInputs, upsertPolicyConstraint(policy) \/ removePolicyConstraint(policy.id)
      PROVE  UNCHANGED <<edges, grants, rules, clock, mirrorVars>>
  BY <1>1 DEF upsertPolicyConstraint, removePolicyConstraint, Editing
<1>2. ASSUME NEW key \in EdgeKeys, NEW expiresAt \in Expiries, addPrincipalEdge(key, expiresAt)
      PROVE  EdgesSound' /\ UNCHANGED <<grants, rules, clock, mirrorVars>>
  <2>1. edges' = With(edges, key, expiresAt) /\ UNCHANGED <<grants, rules, clock, mirrorVars>>
    BY <1>2 DEF addPrincipalEdge, Editing
  <2>2. /\ DOMAIN edges' = DOMAIN edges \cup {key}
        /\ \A k \in DOMAIN edges \cup {key} : edges'[k] = IF k = key THEN expiresAt ELSE edges[k]
    BY <2>1 DEF With
  <2>3. expiresAt \in {Never} \cup (Nat \ {0})
    BY <1>0 DEF Expiries
  <2>4. IsFiniteSet(DOMAIN edges \cup {key})
    BY <1>0, FS_AddElement DEF EdgesSound
  <2> QED  BY <1>0, <2>1, <2>2, <2>3, <2>4 DEF EdgesSound, GuildEdges, memberRolePrincipalId
<1>3. ASSUME NEW key \in EdgeKeys, removePrincipalEdge(key)
      PROVE  EdgesSound' /\ UNCHANGED <<grants, rules, clock, mirrorVars>>
  <2>1. /\ edges' = [k \in DOMAIN edges \ {key} |-> edges[k]]
        /\ UNCHANGED <<grants, rules, clock, mirrorVars>>
    BY <1>3 DEF removePrincipalEdge, Editing
  <2>2. IsFiniteSet(DOMAIN edges \ {key})
    BY <1>0, FS_RemoveElement DEF EdgesSound
  <2> QED  BY <1>0, <2>1, <2>2 DEF EdgesSound, GuildEdges, memberRolePrincipalId
<1>4. ASSUME NEW key \in GrantKeys, NEW expiresAt \in Expiries, grantPermission(key, expiresAt)
      PROVE  (DOMAIN grants \subseteq GrantKeys)' /\ UNCHANGED <<edges, rules, clock, mirrorVars>>
  BY <1>0, <1>4 DEF grantPermission, Editing, With
<1>5. ASSUME NEW key \in GrantKeys, revokePermission(key.principal, key.permission)
      PROVE  (DOMAIN grants \subseteq GrantKeys)' /\ UNCHANGED <<edges, rules, clock, mirrorVars>>
  BY <1>0, <1>5 DEF revokePermission, Editing
<1>6. ASSUME NEW rule \in RuleInputs, upsertAceMirrorRule(rule)
      PROVE  RulesSound' /\ UNCHANGED <<edges, grants, clock, mirrorVars>>
  <2> DEFINE at == {i \in DOMAIN rules : rules[i].id = rule.id}
  <2>1. /\ rules' = IF at = {} THEN Append(rules, rule) ELSE [rules EXCEPT ![CHOOSE i \in at : TRUE] = rule]
        /\ UNCHANGED <<edges, grants, clock, mirrorVars>>
    BY <1>6 DEF upsertAceMirrorRule, Editing
  <2>2. rules \in Seq(RuleInputs) /\ DOMAIN rules = 1 .. Len(rules) /\ Len(rules) \in Nat
    BY <1>0 DEF RulesSound
  <2>3. CASE at = {}
    <3>1. rules' = Append(rules, rule)
      BY <2>1, <2>3
    <3>2. /\ rules' \in Seq(RuleInputs) /\ DOMAIN rules' = 1 .. Len(rules) + 1
          /\ rules'[Len(rules) + 1] = rule /\ \A i \in DOMAIN rules : rules'[i] = rules[i]
      BY <2>2, <3>1
    <3>3. \A i \in DOMAIN rules' : i \in DOMAIN rules \/ i = Len(rules) + 1
      BY <2>2, <3>2
    <3> QED  BY <1>0, <2>1, <2>3, <3>2, <3>3 DEF RulesSound
  <2>4. CASE at # {}
    <3>1. PICK n \in at : n = CHOOSE i \in at : TRUE
      BY <2>4
    <3>2. rules' = [rules EXCEPT ![n] = rule] /\ n \in DOMAIN rules
      BY <2>1, <2>4, <3>1
    <3>3. /\ rules' \in Seq(RuleInputs) /\ DOMAIN rules' = DOMAIN rules
          /\ \A i \in DOMAIN rules : rules'[i] = IF i = n THEN rule ELSE rules[i]
      BY <2>2, <3>2
    <3>4. rules[n].id = rule.id
      OBVIOUS
    <3>5. \A i \in DOMAIN rules : rules'[i].id = rules[i].id
      BY <3>3, <3>4
    <3> QED  BY <1>0, <2>1, <3>3, <3>5 DEF RulesSound
  <2> QED  BY <2>3, <2>4
<1>7. ASSUME SyncDiscord
      PROVE  EdgesSound' /\ UNCHANGED <<grants, rules, clock, mirrorVars>>
  <2>1. PICK mappings \in SUBSET RoleMappings, members \in [Users -> SUBSET {m.role : m \in RoleMappings}] :
            syncDiscordRoles(mappings, members)
    BY <1>7 DEF SyncDiscord
  <2>2. EdgesSound'
    BY <2>1, SyncKeepsEdges
  <2>3. UNCHANGED <<grants, rules, clock, mirrorVars>>
    BY <2>1 DEF syncDiscordRoles, Editing
  <2> QED  BY <2>2, <2>3
<1>8. ASSUME UNCHANGED edges PROVE EdgesSound'
  BY <1>0, <1>8 DEF EdgesSound, GuildEdges, memberRolePrincipalId
<1>9. ASSUME UNCHANGED rules PROVE RulesSound'
  BY <1>0, <1>9 DEF RulesSound
<1>10. ASSUME UNCHANGED grants PROVE (DOMAIN grants \subseteq GrantKeys)'
  BY <1>0, <1>10
<1> QED
  BY <1>1, <1>2, <1>3, <1>4, <1>5, <1>6, <1>7, <1>8, <1>9, <1>10 DEF StoreNext

(* The commands planned from the memory leave the server that holds it with *)
(* the plan's lines.                                                        *)
LEMMA PlanExecuted ==
    ASSUME NEW desired \in AceLines, MirrorSound,
           NEW commands, commands = planAceMirrorCommands(mirror, desired)
    PROVE  /\ Execute(commands) \in AceLines
           /\ fxserver = mirror => Execute(commands) = desired
<1> DEFINE A == [principal : {g.principal : g \in GrantKeys}, ace : {r.ace : r \in RuleInputs},
                 effect : {"allow", "deny"}]
           P == UNION {{[child |-> e.child, parent |-> e.parent] : e \in EdgeKeys},
                       [child : Users \X {m.role : m \in RoleMappings},
                        parent : {m.target : m \in RoleMappings}]}
           Lines == [aces : SUBSET A, principals : SUBSET P]
<1>1. AceLines = Lines
  BY DEF AceLines
<1> HIDE DEF A, P
<1>2. desired \in Lines /\ mirror \in Lines /\ fxserver \in Lines
  BY <1>1 DEF MirrorSound
<1>3. /\ commands.add.aces = desired.aces \ mirror.aces
      /\ commands.add.principals = desired.principals \ mirror.principals
      /\ commands.remove.aces = mirror.aces \ desired.aces
      /\ commands.remove.principals = mirror.principals \ desired.principals
  BY DEF planAceMirrorCommands
<1>4. Execute(commands) \in Lines
  BY <1>2, <1>3 DEF Execute
<1>5. ASSUME fxserver = mirror PROVE Execute(commands) = desired
  <2>1. /\ (fxserver.aces \cup commands.add.aces) \ commands.remove.aces = desired.aces
        /\ (fxserver.principals \cup commands.add.principals) \ commands.remove.principals = desired.principals
    BY <1>3, <1>5
  <2>2. desired = [aces |-> desired.aces, principals |-> desired.principals]
    BY <1>2
  <2> QED  BY <2>1, <2>2 DEF Execute
<1> QED  BY <1>1, <1>4, <1>5

LEMMA AccessInvStays == AccessInv /\ [AccessNext]_accessVars => AccessInv'
<1> SUFFICES ASSUME AccessInv, [AccessNext]_accessVars PROVE AccessInv'
  OBVIOUS
<1>0. EdgesSound /\ clock \in Nat /\ DOMAIN grants \subseteq GrantKeys /\ RulesSound /\ MirrorSound
  BY DEF AccessInv
<1>1. ASSUME UNCHANGED storeVars
      PROVE  EdgesSound' /\ (DOMAIN grants \subseteq GrantKeys)' /\ RulesSound'
  BY <1>0, <1>1 DEF storeVars, EdgesSound, GuildEdges, memberRolePrincipalId, RulesSound
<1>2. ASSUME UNCHANGED mirrorVars PROVE MirrorSound'
  <2>1. Planned(emission)' <=> Planned(emission)
    BY <1>2 DEF mirrorVars, Planned, planAceMirrorCommands, AceLines
  <2> QED  BY <1>0, <1>2, <2>1 DEF mirrorVars, MirrorSound, MemoryIsServer, AceLines
<1>3. ASSUME UNCHANGED <<storeVars, clock>>, MirrorSound' PROVE AccessInv'
  BY <1>0, <1>1, <1>3 DEF AccessInv
<1>4. NoLines \in AceLines
  BY DEF NoLines, AceLines
<1>5. AceLines' = AceLines
  BY DEF AceLines
<1>6. ASSUME emission # <<>>
      PROVE  /\ Execute(emission[1].commands) \in AceLines /\ emission[1].desired \in AceLines
             /\ fxserver = mirror => Execute(emission[1].commands) = emission[1].desired
  <2>1. PICK desired \in AceLines :
            emission = <<[commands |-> planAceMirrorCommands(mirror, desired), desired |-> desired]>>
    BY <1>0, <1>6 DEF MirrorSound, Planned
  <2>2. emission[1].commands = planAceMirrorCommands(mirror, desired) /\ emission[1].desired = desired
    BY <2>1
  <2> QED  BY <1>0, <2>2, PlanExecuted
<1>7. CASE StoreNext
  <2>1. EdgesSound' /\ (DOMAIN grants \subseteq GrantKeys)' /\ RulesSound' /\ UNCHANGED <<clock, mirrorVars>>
    BY <1>7, StoreKeepsRows
  <2> QED  BY <1>0, <1>2, <2>1 DEF AccessInv
<1>8. CASE syncAceMirror
  <2>1. PICK desired : desired = buildDesiredMirrorState
    OBVIOUS
  <2>2. /\ emission' = <<[commands |-> planAceMirrorCommands(mirror, desired), desired |-> desired]>>
        /\ UNCHANGED <<storeVars, clock, mirror, fxserver, inDoubt>>
    BY <1>8, <2>1 DEF syncAceMirror
  <2>3. desired \in AceLines
    BY <2>1, DesiredIsLines
  <2>4. Planned(emission)'
    BY <2>2, <2>3 DEF Planned, planAceMirrorCommands, AceLines
  <2>5. MirrorSound'
    BY <1>0, <1>5, <2>2, <2>4 DEF MirrorSound, MemoryIsServer
  <2> QED  BY <1>3, <2>2, <2>5
<1>9. CASE emitServerEvent
  <2>1. /\ emission # <<>> /\ emission' = <<>>
        /\ fxserver' = Execute(emission[1].commands) /\ mirror' = emission[1].desired
        /\ UNCHANGED <<storeVars, clock, inDoubt>>
    BY <1>9 DEF emitServerEvent
  <2>2. MirrorSound'
    BY <1>0, <1>5, <1>6, <2>1 DEF MirrorSound, MemoryIsServer
  <2> QED  BY <1>3, <2>1, <2>2
<1>10. CASE emitServerEventFails
  <2>1. /\ emission # <<>> /\ emission' = <<>> /\ UNCHANGED <<storeVars, clock, mirror>>
        /\ \/ UNCHANGED <<fxserver, inDoubt>>
           \/ fxserver' = Execute(emission[1].commands) /\ inDoubt' = TRUE
    BY <1>10 DEF emitServerEventFails
  <2>2. MirrorSound'
    BY <1>0, <1>5, <1>6, <2>1 DEF MirrorSound, MemoryIsServer
  <2> QED  BY <1>3, <2>1, <2>2
<1>11. CASE RestartFxServer
  <2>1. /\ fxserver' = NoLines /\ inDoubt' = TRUE /\ UNCHANGED <<storeVars, clock, mirror, emission>>
    BY <1>11 DEF RestartFxServer
  <2>2. Planned(emission)' <=> Planned(emission)
    BY <2>1 DEF Planned, planAceMirrorCommands, AceLines
  <2>3. MirrorSound'
    BY <1>0, <1>4, <1>5, <2>1, <2>2 DEF MirrorSound, MemoryIsServer
  <2> QED  BY <1>3, <2>1, <2>3
<1>12. CASE RestartConnector
  <2>1. /\ mirror' = NoLines /\ emission' = <<>> /\ inDoubt' = TRUE /\ UNCHANGED <<storeVars, clock, fxserver>>
    BY <1>12 DEF RestartConnector
  <2>2. MirrorSound'
    BY <1>0, <1>4, <1>5, <2>1 DEF MirrorSound, MemoryIsServer
  <2> QED  BY <1>3, <2>1, <2>2
<1>13. CASE Tick
  <2>1. UNCHANGED <<storeVars, mirrorVars>> /\ clock' = clock + 1
    BY <1>13 DEF Tick
  <2> QED  BY <1>0, <1>1, <1>2, <2>1 DEF AccessInv
<1>14. CASE UNCHANGED accessVars
  <2>1. UNCHANGED <<storeVars, clock>> /\ UNCHANGED mirrorVars
    BY <1>14 DEF accessVars, storeVars, mirrorVars
  <2> QED  BY <1>2, <1>3, <2>1
<1> QED  BY <1>7, <1>8, <1>9, <1>10, <1>11, <1>12, <1>13, <1>14 DEF AccessNext

-----------------------------------------------------------------------------
(* What the invariant says of the decisions.                                *)
LEMMA ResolvedIsRight == ASSUME AccessInv PROVE ResolvedIsClosure
<1> SUFFICES ASSUME NEW principal \in PrincipalsIn
             PROVE  LET resolved == resolvePrincipals(principal) IN
                    /\ principal \in resolved /\ Closed(resolved)
                    /\ \A set \in SUBSET PrincipalsIn : (principal \in set /\ Closed(set)) => resolved \subseteq set
  BY DEF ResolvedIsClosure, Closed
<1>1. IsFiniteSet(Live(edges))
  BY LiveIsFinite DEF AccessInv
<1> QED  BY <1>1, ResolvedIs

LEMMA AllowedIsRight == ASSUME AccessInv PROVE AllowedIsJustified
<1> DEFINE Reaches(principal, q) ==
        \A set \in SUBSET PrincipalsIn : (principal \in set /\ Closed(set)) => q \in set
    Grant(q, permission, effect) == [principal |-> q, permission |-> permission, effect |-> effect] \in Live(grants)
<1> SUFFICES ASSUME NEW principal \in PrincipalsIn, NEW permission \in Permissions, NEW context \in Contexts,
                    hasPermission(principal, permission, context)
             PROVE  /\ \E q \in PrincipalsIn : Reaches(principal, q) /\ Grant(q, permission, "allow")
                    /\ ~ \E q \in PrincipalsIn : Reaches(principal, q) /\ Grant(q, permission, "deny")
                    /\ \A id \in DOMAIN policies :
                          (/\ policies[id].permission = permission /\ policies[id].enabled
                           /\ policies[id].type = "max_amount")
                              => context.amount # Absent /\ context.amount <= policies[id].constraint.amount
  BY DEF AllowedIsJustified, Closed
<1>1. PICK resolved : resolved = resolvePrincipals(principal)
  OBVIOUS
<1>2. /\ principal \in resolved /\ Closed(resolved) /\ resolved \subseteq Nodes(principal)
      /\ \A set : (principal \in set /\ Closed(set)) => resolved \subseteq set
  <2>1. IsFiniteSet(Live(edges))
    BY LiveIsFinite DEF AccessInv
  <2> QED  BY <1>1, <2>1, ResolvedIs
<1>3. resolved \subseteq PrincipalsIn
  <2>1. ASSUME NEW e \in Live(edges)
        PROVE  e.parent \in PrincipalsIn
    <3>1. {e.parent, e.child} \in {{d.parent, d.child} : d \in DOMAIN edges}
      BY DEF Live
    <3> QED  BY <3>1 DEF PrincipalsIn
  <2> QED  BY <1>2, <2>1 DEF Nodes
<1>4. \A q : Reaches(principal, q) <=> q \in resolved
  BY <1>2, <1>3
<1> HIDE DEF Reaches
<1>5. DOMAIN grants \subseteq GrantKeys
  BY DEF AccessInv
<1>6. \A g \in Live(grants) : /\ g.effect \in {"allow", "deny"}
                              /\ g = [principal |-> g.principal, permission |-> g.permission, effect |-> g.effect]
  BY <1>5, AccessAssumption DEF Live
<1>7. PICK g \in Live(grants) : g.permission = permission /\ g.principal \in resolved
  BY <1>1 DEF hasPermission
<1>8. \A h \in Live(grants) : (h.permission = permission /\ h.principal \in resolved) => h.effect # "deny"
  BY <1>1 DEF hasPermission
<1>9. g.effect = "allow" /\ g = [principal |-> g.principal, permission |-> permission, effect |-> "allow"]
  BY <1>6, <1>7, <1>8
<1>10. \E q \in PrincipalsIn : Reaches(principal, q) /\ Grant(q, permission, "allow")
  <2>1. g.principal \in PrincipalsIn /\ Reaches(principal, g.principal)
    BY <1>3, <1>4, <1>7
  <2>2. Grant(g.principal, permission, "allow")
    BY <1>7, <1>9
  <2> QED  BY <2>1, <2>2
<1>11. ASSUME NEW q \in PrincipalsIn, Reaches(principal, q), Grant(q, permission, "deny")
       PROVE  FALSE
  <2> DEFINE h == [principal |-> q, permission |-> permission, effect |-> "deny"]
  <2>1. h \in Live(grants) /\ h.permission = permission /\ h.principal = q /\ h.effect = "deny"
    BY <1>11
  <2>2. q \in resolved
    BY <1>4, <1>11
  <2> HIDE DEF h
  <2> QED  BY <1>8, <2>1, <2>2
<1>12. ASSUME NEW id \in DOMAIN policies, policies[id].permission = permission, policies[id].enabled,
              policies[id].type = "max_amount"
       PROVE  context.amount # Absent /\ context.amount <= policies[id].constraint.amount
  <2>1. evaluatePolicies(permission, context)
    BY DEF hasPermission
  <2>2. evaluatePolicy(policies[id], context)
    BY <1>12, <2>1 DEF evaluatePolicies
  <2> QED  BY <1>12, <2>2 DEF evaluatePolicy
<1> QED  BY <1>10, <1>11, <1>12

LEMMA AccessInvTypes == ASSUME AccessInv PROVE AccessTypeOK
<1>1. Len(emission) <= 1
  <2>1. CASE emission = <<>>
    BY <2>1
  <2>2. CASE Planned(emission)
    BY <2>2 DEF Planned
  <2> QED  BY <2>1, <2>2 DEF AccessInv, MirrorSound
<1> QED  BY <1>1 DEF AccessInv, AccessTypeOK, EdgesSound, RulesSound, MirrorSound

(* A decision allows only what live grants and the policies justify, and    *)
(* FXServer's list is what the connector remembers as long as no fault came *)
(* between them, whatever principals, grants, rules and policies there are. *)
THEOREM AccessStaysJustified == AccessSpec => []AccessIsJustified
<1>1. AccessInit => AccessInv
  BY AccessInvStarts
<1>2. AccessInv /\ [AccessNext]_accessVars => AccessInv'
  BY AccessInvStays
<1>3. AccessInv => AccessIsJustified
  BY AccessInvTypes, ResolvedIsRight, AllowedIsRight DEF AccessIsJustified, AccessInv, MirrorSound
<1> QED  BY <1>1, <1>2, <1>3, PTL DEF AccessSpec

(* After a synchronisation the live edges of the guild are those its roles  *)
(* and mappings ask for, whatever was drawn, removed or expired before.     *)
THEOREM GuildIsFollowed == AccessSpec => DiscordFollowsGuild
<1> DEFINE Follows == \A mappings \in SUBSET RoleMappings,
                         members \in [Users -> SUBSET {m.role : m \in RoleMappings}] :
                syncDiscordRoles(mappings, members) =>
                  /\ {e \in DOMAIN edges' : e.source = Guild} = desiredEdges(mappings, members)
                  /\ \A e \in desiredEdges(mappings, members) : edges'[e] = Never \/ edges'[e] > clock
                  /\ \A e \in EdgeKeys : (e \in DOMAIN edges') <=> (e \in DOMAIN edges)
<1>1. AccessInit => AccessInv
  BY AccessInvStarts
<1>2. AccessInv /\ [AccessNext]_accessVars => AccessInv'
  BY AccessInvStays
<1>3. AccessInv => Follows
  BY SyncKeepsEdges
<1>4. AccessInv /\ [AccessNext]_accessVars => [Follows]_accessVars
  BY <1>3
<1>5. DiscordFollowsGuild <=> [][Follows]_accessVars
  BY DEF DiscordFollowsGuild
<1> QED  BY <1>1, <1>2, <1>4, <1>5, PTL DEF AccessSpec

-----------------------------------------------------------------------------
(***************************************************************************)
(* The connector's pass.  What is under way of a step is seen by channel,  *)
(* and every step of the system leaves it, drops it, fills it or takes its *)
(* first part.                                                             *)
(***************************************************************************)
Channels == Mirrors \cup Queues \cup Drains

ValuesOf(c) == UNION {[K -> 0 .. MaxValue] : K \in SUBSET KeysOf[c]}
EventsOf(c) == [values : ValuesOf(c)]
SentOf(c) == [server : {d.server : d \in Inputs[c]}, target : {d.target : d \in Inputs[c]},
              detail : {d.detail : d \in Inputs[c]}, n : Nat]
UpdatesOf(c) ==
    IF c = "qbMoneyUpdates" THEN [operation : {"add", "remove", "set"}, amount : Nat, place : Nat, n : Nat]
    ELSE IF c = "qbCharacterUpdates" THEN [data : Nat, n : Nat] ELSE [n : Nat]
PartsOf(c) ==
    IF c \in Mirrors THEN EventsOf(c) ELSE IF c \in Queues THEN [dispatches : Seq(SentOf(c))] ELSE UpdatesOf(c)

BatchOf(c) == IF pass.at # 0 /\ Channel = c THEN pass.batch ELSE <<>>

PassSound ==
    \/ pass = Between
    \/ /\ pass = [at |-> pass.at, batch |-> pass.batch, planned |-> pass.planned]
       /\ pass.at \in DOMAIN PassOrder /\ Channel \in active
       /\ pass.batch \in Seq(PartsOf(Channel))

LEMMA Places == DOMAIN PassOrder = 1 .. Len(PassOrder) /\ Len(PassOrder) \in Nat /\ 0 \notin DOMAIN PassOrder
BY DEF PassOrder

LEMMA ChannelsApart ==
    /\ Mirrors \cap Queues = {} /\ Mirrors \cap Drains = {} /\ Queues \cap Drains = {}
    /\ "config" \in Mirrors /\ "nativePermissions" \in Mirrors /\ "menuTrees" \in Mirrors
    /\ "qbMoneyUpdates" \in Drains /\ "qbCharacterUpdates" \in Drains
    /\ "qbInventoryUpdates" \in Drains /\ "qbCharacterSelections" \in Drains
BY DEF Mirrors, Queues, Drains

(* The next step is one of a channel in use, with nothing under way yet.    *)
LEMMA StepAfterIs ==
    ASSUME NEW at
    PROVE  \/ StepAfter(at) = Between
           \/ \E i \in DOMAIN PassOrder : /\ StepAfter(at) = [at |-> i, batch |-> <<>>, planned |-> <<>>]
                                          /\ PassOrder[i] \in active
<1>1. CASE StepsAfter(at) = {}
  BY <1>1 DEF StepAfter
<1>2. CASE StepsAfter(at) # {}
  <2>1. StepsAfter(at) \subseteq Nat
    BY Places DEF StepsAfter
  <2>2. \E i \in StepsAfter(at) : \A j \in StepsAfter(at) : i <= j
    BY <1>2, <2>1, LeastElement
  <2>3. PICK i \in StepsAfter(at) : i = CHOOSE x \in StepsAfter(at) : \A j \in StepsAfter(at) : x <= j
    BY <2>2
  <2>4. StepAfter(at) = [at |-> i, batch |-> <<>>, planned |-> <<>>]
    BY <1>2, <2>3 DEF StepAfter, Between
  <2> QED  BY <2>3, <2>4 DEF StepsAfter
<1> QED  BY <1>1, <1>2

(* A pass that goes on to its next step, or ends, has nothing under way.    *)
LEMMA PassCleared ==
    ASSUME UNCHANGED active, pass' = Between \/ \E at : pass' = StepAfter(at)
    PROVE  PassSound' /\ \A c : BatchOf(c)' = <<>>
<1>1. CASE pass' = Between
  BY <1>1 DEF PassSound, BatchOf, Between
<1>2. CASE pass' # Between
  <2>1. PICK at : pass' = StepAfter(at)
    BY <1>2
  <2>2. PICK i \in DOMAIN PassOrder : /\ pass' = [at |-> i, batch |-> <<>>, planned |-> <<>>]
                                      /\ PassOrder[i] \in active
    BY <1>2, <2>1, StepAfterIs
  <2>3. \A c : BatchOf(c)' = <<>>
    BY <2>2 DEF BatchOf
  <2>4. PassSound'
    <3>1. pass'.at = i /\ pass'.batch = <<>> /\ pass'.planned = <<>> /\ Channel' = PassOrder[i]
      BY <2>2 DEF Channel
    <3>2. <<>> \in Seq(PartsOf(PassOrder[i]))
      BY EmptySeq
    <3>3. (pass.batch \in Seq(PartsOf(Channel)))'
      BY <3>1, <3>2 DEF PartsOf, EventsOf, ValuesOf, SentOf, UpdatesOf, Mirrors, Queues
    <3> QED  BY <2>2, <3>1, <3>3 DEF PassSound
  <2> QED  BY <2>3, <2>4
<1> QED  BY <1>1, <1>2

(* What is under way belongs to the channel of the step.                    *)
LEMMA BatchesElsewhere ==
    ASSUME PassSound, pass.at # 0
    PROVE  /\ pass.at \in DOMAIN PassOrder /\ Channel \in active
           /\ pass = [at |-> pass.at, batch |-> pass.batch, planned |-> pass.planned]
           /\ BatchOf(Channel) = pass.batch /\ pass.batch \in Seq(PartsOf(Channel))
           /\ \A c : c # Channel => BatchOf(c) = <<>>
BY DEF PassSound, Between, BatchOf

LEMMA PassFilled ==
    ASSUME PassSound, pass.at # 0, UNCHANGED active, NEW parts \in Seq(PartsOf(Channel)), NEW planned,
           pass' = [at |-> pass.at, batch |-> parts, planned |-> planned]
    PROVE  /\ PassSound' /\ Channel' = Channel /\ pass'.at # 0
           /\ \A c : BatchOf(c)' = IF c = Channel THEN parts ELSE <<>>
<1>1. pass'.at = pass.at /\ pass'.batch = parts /\ pass'.planned = planned
  OBVIOUS
<1>2. Channel' = Channel
  BY <1>1 DEF Channel
<1>3. PassSound'
  <2>1. (pass.batch \in Seq(PartsOf(Channel)))'
    BY <1>1, <1>2 DEF PartsOf, EventsOf, ValuesOf, SentOf, UpdatesOf
  <2> QED  BY <1>1, <1>2, <2>1, BatchesElsewhere DEF PassSound
<1> QED  BY <1>1, <1>2, <1>3 DEF BatchOf

LEMMA PassPopped ==
    ASSUME PassSound, pass.at # 0, pass.batch # <<>>, UNCHANGED active, pass' = Rest
    PROVE  /\ PassSound' /\ \A c : BatchOf(c)' = IF c = Channel THEN Tail(pass.batch) ELSE <<>>
           /\ Tail(pass.batch) # <<>> => (Channel' = Channel /\ pass'.at # 0 /\ pass'.planned = pass.planned)
<1>1. pass.batch \in Seq(PartsOf(Channel)) /\ Len(pass.batch) \in Nat \ {0}
  BY BatchesElsewhere, EmptySeq
<1>2. Tail(pass.batch) \in Seq(PartsOf(Channel)) /\ Len(Tail(pass.batch)) = Len(pass.batch) - 1
  BY <1>1, HeadTailProperties
<1>3. CASE Len(pass.batch) = 1
  <2>1. Tail(pass.batch) = <<>>
    <3>1. Len(Tail(pass.batch)) = 0
      BY <1>1, <1>2, <1>3
    <3>2. Tail(pass.batch) # <<>> => Len(Tail(pass.batch)) \in Nat \ {0}
      BY <1>2, EmptySeq
    <3> QED  BY <3>1, <3>2
  <2>2. pass' = StepAfter(pass.at)
    BY <1>3 DEF Rest, NextStep
  <2> QED  BY <2>1, <2>2, PassCleared
<1>4. CASE Len(pass.batch) # 1
  <2>1. pass' = [at |-> pass.at, batch |-> Tail(pass.batch), planned |-> pass.planned]
    BY <1>4, BatchesElsewhere DEF Rest
  <2>2. pass'.planned = pass.planned
    BY <2>1
  <2> QED  BY <1>2, <2>1, <2>2, PassFilled
<1> QED  BY <1>3, <1>4

(***************************************************************************)
(* The steps, one kind at a time.                                          *)
(***************************************************************************)
(* What a mirror plans is keys of its snapshot, what a queue plans holds    *)
(* every dispatch drained, and each in one event.                           *)
PlansKeys(c, groups) == groups \in Seq(SUBSET KeysOf[c])
PlansOnce(c, events) ==
    Drained(c) # {} =>
        /\ events \in Seq([dispatches : Seq(Dispatches(c))])
        /\ \A d \in Dispatches(c) : \E i \in DOMAIN events : d \in Range(events[i].dispatches)
        /\ \A i, j \in DOMAIN events : \A d \in Range(events[i].dispatches) \cap Range(events[j].dispatches) : i = j

SnapshotStep == \E c \in Mirrors : \E groups : PlansKeys(c, groups) /\ Emits(c, groups)
FlushStep == \E c \in Queues : \E events : PlansOnce(c, events) /\ Flushes(c, events)
FetchStep == \E c \in Drains : Fetches(c)
SourceStep == \E c \in active \cap Mirrors : \E k \in KeysOf[c] : \E value \in 0 .. MaxValue : ChangeSource(c, k, value)
EnqueueStep == \E c \in active \cap Queues : \E dispatches \in SUBSET Inputs[c] : Enqueue(c, dispatches)
GameStep ==
    \/ \E update \in MoneyInputs : GameChangesMoney(update)
    \/ GameChangesItems \/ GameSelectsCharacter \/ GameSavesCharacter
ApplyStep ==
    \/ applyQbCoreRuntimeMoneyUpdates \/ applyQbCoreRuntimeInventoryUpdates
    \/ applyQbCoreRuntimeCharacterSelections \/ applyQbCoreRuntimeCharacterUpdates

LEMMA SetAsRange ==
    ASSUME NEW S, IsFiniteSet(S)
    PROVE  Range(SetToSeq(S)) = S
<1>1. SetToSeq(S) \in Seq(S) /\ \A w \in S : \E n \in 1 .. Len(SetToSeq(S)) : SetToSeq(S)[n] = w
  BY SequenceOfSet
<1>2. \A n \in 1 .. Len(SetToSeq(S)) : SetToSeq(S)[n] \in S
  BY <1>1, ElementOfSeq
<1>3. DOMAIN SetToSeq(S) = 1 .. Len(SetToSeq(S))
  BY <1>1
<1> QED  BY <1>1, <1>2, <1>3 DEF Range

(* A sequence made one for one from the elements of a set holds each once.  *)
LEMMA OneEach ==
    ASSUME NEW S, IsFiniteSet(S)
    PROVE  LET n == Cardinality(S)
               f == SetToSeq(S) IN
           /\ n \in Nat /\ f \in [1 .. n -> S]
           /\ \A w \in S : \E i \in 1 .. n : f[i] = w
           /\ \A i, j \in 1 .. n : f[i] = f[j] => i = j
<1> DEFINE n == Cardinality(S)
           f == SetToSeq(S)
<1>1. n \in Nat /\ f \in Seq(S) /\ Len(f) = n /\ \A w \in S : \E i \in 1 .. n : f[i] = w
  BY SequenceOfSet
<1>2. f \in [1 .. n -> S] /\ IsInjective(f)
  <2>1. ExistsBijection(1 .. n, S)
    BY FS_CardinalityType
  <2>2. \E g \in [1 .. n -> S] : IsInjective(g)
    BY <2>1 DEF ExistsBijection, Bijection, Injection
  <2> QED  BY <2>2 DEF SetToSeq
<1> HIDE DEF f, n
<1>3. \A i, j \in 1 .. n : f[i] = f[j] => i = j
  BY <1>2 DEF IsInjective
<1> QED  BY <1>1, <1>2, <1>3 DEF f, n

LEMMA TogetherOnce ==
    ASSUME NEW S, IsFiniteSet(S)
    PROVE  /\ Together(S) \in Seq([dispatches : Seq(S)])
           /\ \A d \in S : \E i \in DOMAIN Together(S) : d \in Range(Together(S)[i].dispatches)
           /\ \A i, j \in DOMAIN Together(S) :
                  \A d \in Range(Together(S)[i].dispatches) \cap Range(Together(S)[j].dispatches) : i = j
<1>1. SetToSeq(S) \in Seq(S) /\ Range(SetToSeq(S)) = S
  BY SequenceOfSet, SetAsRange
<1>2. PICK all : all = SetToSeq(S)
  OBVIOUS
<1>3. Together(S) = <<[dispatches |-> all]>>
  BY <1>2 DEF Together
<1>4. [dispatches |-> all] \in [dispatches : Seq(S)]
  BY <1>1, <1>2
<1>5. /\ DOMAIN Together(S) = {1} /\ Together(S)[1].dispatches = all
      /\ Together(S) \in Seq([dispatches : Seq(S)])
  BY <1>3, <1>4
<1> QED  BY <1>1, <1>2, <1>5

LEMMA ApartOnce ==
    ASSUME NEW S, IsFiniteSet(S)
    PROVE  /\ Apart(S) \in Seq([dispatches : Seq(S)])
           /\ \A d \in S : \E i \in DOMAIN Apart(S) : d \in Range(Apart(S)[i].dispatches)
           /\ \A i, j \in DOMAIN Apart(S) :
                  \A d \in Range(Apart(S)[i].dispatches) \cap Range(Apart(S)[j].dispatches) : i = j
<1> DEFINE n == Cardinality(S)
           f == SetToSeq(S)
           events == Apart(S)
<1>1. /\ n \in Nat /\ f \in [1 .. n -> S] /\ \A w \in S : \E i \in 1 .. n : f[i] = w
      /\ \A i, j \in 1 .. n : f[i] = f[j] => i = j
  BY OneEach
<1>2. events = [i \in 1 .. n |-> [dispatches |-> <<f[i]>>]]
  BY DEF Apart
<1> HIDE DEF n, f, events
<1>3. DOMAIN events = 1 .. n /\ \A i \in 1 .. n : events[i] = [dispatches |-> <<f[i]>>]
  BY <1>2
<1>4. \A i \in 1 .. n : events[i] \in [dispatches : Seq(S)] /\ Range(events[i].dispatches) = {f[i]}
  <2> SUFFICES ASSUME NEW i \in 1 .. n
               PROVE  events[i] \in [dispatches : Seq(S)] /\ Range(events[i].dispatches) = {f[i]}
    OBVIOUS
  <2>1. f[i] \in S /\ events[i] = [dispatches |-> <<f[i]>>]
    BY <1>1, <1>3
  <2>2. <<f[i]>> \in Seq(S) /\ Range(<<f[i]>>) = {f[i]}
    BY <2>1 DEF Range
  <2> QED  BY <2>1, <2>2
<1>5. events \in Seq([dispatches : Seq(S)])
  BY <1>1, <1>2, <1>3, <1>4
<1>6. ASSUME NEW d \in S PROVE \E i \in DOMAIN events : d \in Range(events[i].dispatches)
  <2>1. PICK i \in 1 .. n : f[i] = d
    BY <1>1
  <2>2. i \in DOMAIN events /\ Range(events[i].dispatches) = {f[i]}
    BY <1>3, <1>4
  <2> QED  BY <2>1, <2>2
<1>7. ASSUME NEW i \in DOMAIN events, NEW j \in DOMAIN events,
             NEW d \in Range(events[i].dispatches) \cap Range(events[j].dispatches)
      PROVE  i = j
  <2>1. Range(events[i].dispatches) = {f[i]} /\ Range(events[j].dispatches) = {f[j]} /\ i \in 1 .. n /\ j \in 1 .. n
    BY <1>3, <1>4
  <2>2. f[i] = f[j]
    BY <2>1
  <2> QED  BY <1>1, <2>1, <2>2
<1> QED  BY <1>5, <1>6, <1>7 DEF events

(* One event per element of a finite set, each with some of the keys.       *)
LEMMA WholePlans ==
    ASSUME NEW c \in Mirrors
    PROVE  PlansKeys(c, Whole(c))
<1>1. <<KeysOf[c]>> \in Seq(SUBSET KeysOf[c])
  <2>1. KeysOf[c] \in SUBSET KeysOf[c]
    OBVIOUS
  <2>2. \A keys, S : keys \in S => <<keys>> \in Seq(S)
    OBVIOUS
  <2> QED  BY <2>1, <2>2
<1>2. <<>> \in Seq(SUBSET KeysOf[c])
  OBVIOUS
<1> QED  BY <1>1, <1>2 DEF Whole, PlansKeys

LEMMA PerPrincipalPlans ==
    ASSUME NEW c \in Mirrors
    PROVE  PlansKeys(c, PerPrincipal(c))
<1> DEFINE told == {k \in Differing(c) : applied[c][k] # Unset \/ source[c][k] # 0}
           n == Cardinality(told)
           f == SetToSeq(told)
<1>1. told \in SUBSET KeysOf[c] /\ IsFiniteSet(told)
  <2>1. told \in SUBSET KeysOf[c]  BY DEF Differing
  <2>2. IsFiniteSet(KeysOf[c])  BY SyncAssumption
  <2> HIDE DEF told
  <2> QED  BY <2>1, <2>2, FS_Subset
<1>2. PerPrincipal(c) = [i \in 1 .. n |-> {f[i]}]
  BY DEF PerPrincipal
<1> HIDE DEF told
<1>3. n \in Nat /\ f \in [1 .. n -> told]
  BY <1>1, OneEach
<1> HIDE DEF f, n
<1>4. [i \in 1 .. n |-> {f[i]}] \in [1 .. n -> SUBSET KeysOf[c]]
  BY <1>1, <1>3
<1>5. [i \in 1 .. n |-> {f[i]}] \in Seq(SUBSET KeysOf[c])
  BY <1>3, <1>4
<1> QED  BY <1>2, <1>5 DEF PlansKeys

LEMMA ConfigPlans ==
    ASSUME NEW changed \in SUBSET KeysOf["config"]
    PROVE  PlansKeys("config", planRuntimeConfigEvents(changed))
<1> DEFINE g == [k \in changed |-> NamespaceOf[k]]
           namespaces == {NamespaceOf[k] : k \in changed}
           n == Cardinality(namespaces)
           f == SetToSeq(namespaces)
           groups == [i \in 1 .. n |-> {k \in changed : NamespaceOf[k] = f[i]}]
<1>1. IsFiniteSet(namespaces)
  <2>1. IsFiniteSet(changed)
    BY SyncAssumption, ChannelsApart, FS_Subset
  <2>2. namespaces = {g[k] : k \in changed}
    OBVIOUS
  <2> HIDE DEF g, namespaces
  <2> QED  BY <2>1, <2>2, ImageIsFinite
<1>2. planRuntimeConfigEvents(changed) = groups
  BY DEF planRuntimeConfigEvents
<1>3. n \in Nat
  BY <1>1, FS_CardinalityType
<1> HIDE DEF f, n
<1>4. groups \in [1 .. n -> SUBSET KeysOf["config"]]
  OBVIOUS
<1>5. groups \in Seq(SUBSET KeysOf["config"])
  BY <1>3, <1>4
<1> QED  BY <1>2, <1>5 DEF PlansKeys

SyncSteps ==
    \/ StartPass \/ SnapshotStep \/ FlushStep \/ FetchStep
    \/ emitServerEvent_Mirror \/ emitServerEvent_Queue \/ ApplyStep \/ StoringRefused
    \/ SourceStep \/ EnqueueStep \/ GameStep \/ CacheCatchesUp
    \/ ReadFails \/ emitServerEventThrows_Mirror \/ emitServerEventThrows_Queue
    \/ FetchAnswerLost \/ StoringThrows \/ FxServerRestarts \/ ServiceRestarts

LEMMA SyncNextIs ==
    ASSUME SyncNext, \A c \in Queues : IsFiniteSet(DOMAIN pending[c])
    PROVE  SyncSteps
<1>1. \A c \in Queues : IsFiniteSet(Dispatches(c))
  <2> SUFFICES ASSUME NEW c \in Queues PROVE IsFiniteSet(Dispatches(c))
    OBVIOUS
  <2> DEFINE f == [k \in Drained(c) |-> pending[c][k]]
  <2>1. Drained(c) \in SUBSET (DOMAIN pending[c])
    BY DEF Drained
  <2>2. IsFiniteSet(Drained(c))
    BY <2>1, FS_Subset
  <2>3. Dispatches(c) = {f[k] : k \in Drained(c)}
    BY DEF Dispatches
  <2> HIDE DEF f
  <2> QED  BY <2>2, <2>3, ImageIsFinite
<1>2. \A c \in Queues : PlansOnce(c, Together(Dispatches(c))) /\ PlansOnce(c, Apart(Dispatches(c)))
  BY <1>1, TogetherOnce, ApartOnce DEF PlansOnce
<1>3. CASE \/ flushMenuRefreshes \/ syncReplicatedState \/ syncWorldState \/ syncVehicleSpawns
           \/ syncVehicleRepairs \/ syncTeleports \/ syncKicks
  <2>1. PICK c \in Queues : Flushes(c, Together(Dispatches(c))) \/ Flushes(c, Apart(Dispatches(c)))
    BY <1>3 DEF flushMenuRefreshes, syncReplicatedState, syncWorldState, syncVehicleSpawns, syncVehicleRepairs,
                syncTeleports, syncKicks, planMenuRefreshEvents, planReplicatedStateEvents, planWorldStateEvents,
                planVehicleSpawnEvents, planVehicleRepairEvents, planTeleportEvents, planKickEvents, Queues
  <2> QED  BY <1>2, <2>1 DEF SyncSteps, FlushStep
<1>4. CASE \/ syncRuntimeHealth \/ syncRuntimeConfig \/ syncNativePermissions \/ syncMenuTrees
           \/ syncQbPlayerData \/ syncQbShared \/ syncDeploymentDiagnostics
  <2> DEFINE Step(c, groups) == PlansKeys(c, groups) /\ Emits(c, groups)
  <2>0. /\ "health" \in Mirrors /\ "qbPlayerData" \in Mirrors /\ "qbShared" \in Mirrors
        /\ "deploymentDiagnostics" \in Mirrors /\ "nativePermissions" \in Mirrors /\ "menuTrees" \in Mirrors
        /\ "config" \in Mirrors
    BY DEF Mirrors
  <2>1. ASSUME syncRuntimeHealth PROVE Step("health", Whole("health"))
    BY <2>0, <2>1, WholePlans DEF syncRuntimeHealth, planRuntimeHealthEvent
  <2>2. ASSUME syncQbShared PROVE Step("qbShared", Whole("qbShared"))
    BY <2>0, <2>2, WholePlans DEF syncQbShared, planQbSharedEvent
  <2>3. ASSUME syncDeploymentDiagnostics PROVE Step("deploymentDiagnostics", Whole("deploymentDiagnostics"))
    BY <2>0, <2>3, WholePlans DEF syncDeploymentDiagnostics, planDeploymentDiagnosticsEvent
  <2>4. ASSUME syncNativePermissions PROVE Step("nativePermissions", PerPrincipal("nativePermissions"))
    BY <2>0, <2>4, PerPrincipalPlans DEF syncNativePermissions, planNativePermissionEvents
  <2>5. ASSUME syncMenuTrees PROVE Step("menuTrees", PerPrincipal("menuTrees"))
    BY <2>0, <2>5, PerPrincipalPlans DEF syncMenuTrees, planMenuTreeEvents
  <2>6. ASSUME syncQbPlayerData PROVE Step("qbPlayerData", planQbPlayerDataEvents)
    <3>1. <<>> \in Seq(SUBSET KeysOf["qbPlayerData"])
      OBVIOUS
    <3>2. PlansKeys("qbPlayerData", planQbPlayerDataEvents)
      BY <2>0, <3>1, WholePlans DEF planQbPlayerDataEvents, PlansKeys
    <3> QED  BY <2>6, <3>2 DEF syncQbPlayerData
  <2>7. ASSUME syncRuntimeConfig
        PROVE  \E groups : Step("config", groups)
    <3> DEFINE changed == {k \in Differing("config") : source["config"][k] # 0}
    <3>1. changed \in SUBSET KeysOf["config"]
      BY DEF Differing
    <3>2. Emits("config", planRuntimeConfigEvents(changed))
      BY <2>7 DEF syncRuntimeConfig
    <3> HIDE DEF changed
    <3>3. Step("config", planRuntimeConfigEvents(changed))
      BY <3>1, <3>2, ConfigPlans
    <3> QED  BY <3>3
  <2>8. \E c \in Mirrors : \E groups : Step(c, groups)
    <3> HIDE DEF Step
    <3> QED  BY <1>4, <2>0, <2>1, <2>2, <2>3, <2>4, <2>5, <2>6, <2>7
  <2> QED  BY <2>8 DEF SyncSteps, SnapshotStep
<1>5. CASE syncQbMoneyUpdates \/ syncQbInventoryUpdates \/ syncQbCharacterSelections \/ syncQbCharacterUpdates
  BY <1>5, ChannelsApart DEF syncQbMoneyUpdates, syncQbInventoryUpdates, syncQbCharacterSelections,
                             syncQbCharacterUpdates, SyncSteps, FetchStep
<1>6. CASE Writes
  BY <1>6 DEF Writes, SyncSteps, ApplyStep
<1>7. CASE Others
  <2>1. ASSUME NEW c \in active \cap Queues, NEW dispatches \in SUBSET Inputs[c] \ {{}},
               CASE c = "menuRefreshes" -> queueMenuRefreshes(dispatches)
                 [] c = "replicatedState" -> queueReplicatedState(dispatches)
                 [] c = "worldState" -> queueWorldState(dispatches)
                 [] c = "vehicleSpawns" -> queueVehicleSpawns(dispatches)
                 [] c = "vehicleRepairs" -> queueVehicleRepairs(dispatches)
                 [] c = "teleports" -> queueTeleports(dispatches)
                 [] c = "kicks" -> queueKicks(dispatches)
        PROVE  EnqueueStep
    <3>1. Enqueue(c, dispatches)
      BY <2>1 DEF queueMenuRefreshes, queueReplicatedState, queueVehicleSpawns, queueVehicleRepairs,
                  queueWorldState, queueTeleports, queueKicks, Queues
    <3> QED  BY <3>1 DEF EnqueueStep
  <2> QED  BY <1>7, <2>1 DEF Others, SyncSteps, SourceStep, GameStep
<1>8. CASE SyncFaults
  BY <1>8 DEF SyncFaults, SyncSteps
<1>9. CASE StartPass
  BY <1>9 DEF SyncSteps
<1> QED  BY <1>3, <1>4, <1>5, <1>6, <1>7, <1>8, <1>9 DEF SyncNext, Reads

-----------------------------------------------------------------------------
(***************************************************************************)
(* The invariant, in three parts that share only the pass: the mirrors,    *)
(* the queues and the drains.                                              *)
(***************************************************************************)
MirrorTables ==
    /\ DOMAIN source = Mirrors /\ DOMAIN shown = Mirrors /\ DOMAIN applied = Mirrors
    /\ \A c \in Mirrors : /\ source[c] \in [KeysOf[c] -> 0 .. MaxValue]
                          /\ shown[c] \in [KeysOf[c] -> 0 .. MaxValue]
                          /\ applied[c] \in [KeysOf[c] -> 0 .. MaxValue \cup {Unset}]

(* What is said of keys in doubt, by channel and key.                       *)
Doubted(c, k) == <<c, k>> \in inDoubtOf

Remembers ==
    \A c \in active \cap Mirrors : \A k \in KeysOf[c] :
        applied[c][k] # Unset /\ ~Doubted(c, k)
        => IF c = "config" THEN applied[c][k] <= shown[c][k] ELSE applied[c][k] = shown[c][k]

(* A setting's version: the memory is never ahead of what is being sent,   *)
(* which is never ahead of the snapshot, and what is not sent yet of the   *)
(* plan is still to come.                                                  *)
ConfigVersions ==
    \A k \in KeysOf["config"] : applied["config"][k] = Unset \/ applied["config"][k] <= source["config"][k]

Carries(batch, k) == \E i \in DOMAIN batch : k \in DOMAIN batch[i].values

ConfigUnderWay(batch) ==
    /\ DOMAIN pass.planned \subseteq KeysOf["config"]
    /\ \A k \in DOMAIN pass.planned :
          /\ pass.planned[k] \in 0 .. MaxValue /\ pass.planned[k] <= source["config"][k]
          /\ applied["config"][k] = Unset \/ applied["config"][k] <= pass.planned[k]
          /\ \/ Carries(batch, k)
             \/ pass.planned[k] <= shown["config"][k]
             \/ Doubted("config", k)
    /\ \A i \in DOMAIN batch : \A k \in DOMAIN batch[i].values :
          k \in DOMAIN pass.planned /\ batch[i].values[k] = pass.planned[k]

MirrorsSound ==
    /\ MirrorTables /\ ConfigVersions /\ Remembers
    /\ BatchOf("config") # <<>> => ConfigUnderWay(BatchOf("config"))

QueueTables ==
    /\ DOMAIN pending = Queues /\ DOMAIN delivered = Queues
    /\ \A c \in Queues :
          /\ IsFiniteSet(DOMAIN pending[c])
          /\ \A key \in DOMAIN pending[c] :
                /\ pending[c][key] \in SentOf(c)
                /\ KeyOf(c, pending[c][key]) = key
                /\ pending[c][key].n < work
          /\ \A key \in DOMAIN delivered[c] : delivered[c][key] \in Nat /\ delivered[c][key] < work

(* A dispatch under way is the only one of its key, and earlier than what   *)
(* waits for the same target.                                              *)
OnePerKey(c, batch) ==
    \A i, j \in DOMAIN batch :
        \A d \in Range(batch[i].dispatches), e \in Range(batch[j].dispatches) :
            KeyOf(c, d) = KeyOf(c, e) => i = j /\ d = e

FlightSound(c, batch) ==
    /\ OnePerKey(c, batch)
    /\ \A i \in DOMAIN batch : \A d \in Range(batch[i].dispatches) :
          /\ d \in SentOf(c) /\ d.n < work
          /\ d.n > DeliveredOf(c, KeyOf(c, d))
          /\ KeyOf(c, d) \in DOMAIN pending[c] => pending[c][KeyOf(c, d)].n > d.n

QueuesSound ==
    /\ QueueTables
    /\ \A c \in Queues :
          /\ FlightSound(c, BatchOf(c))
          /\ \A key \in DOMAIN pending[c] : pending[c][key].n > DeliveredOf(c, key)

Rising(line) == \A i, j \in DOMAIN line : i < j => line[i].n < line[j].n

(* A change of money leads from a balance to a balance, and so does a list. *)
Leads(line, from, to) ==
    \E f : /\ f \in [0 .. Len(line) -> Nat]
           /\ f[0] = from /\ f[Len(line)] = to
           /\ \A i \in 1 .. Len(line) : f[i] = Balance(f[i - 1], line[i])

Shows(line, data) == IF line = <<>> THEN data ELSE line[Len(line)].data

DrainTables ==
    /\ DOMAIN gameQueue = Drains /\ DOMAIN stored = Drains
    /\ \A c \in Drains : gameQueue[c] \in Seq(UpdatesOf(c)) /\ stored[c] \in Int /\ stored[c] < work

Characters == [balance : Nat, data : Nat]
CharactersKnown == gameView \in Characters /\ db \in Characters /\ cache \in Characters

(* Numbers rise along a line, from the last one stored to the next to give. *)
LineSound(batch, queue, last, next) ==
    /\ Rising(batch) /\ Rising(queue)
    /\ \A i \in DOMAIN batch : batch[i].n > last /\ batch[i].n < next
    /\ \A j \in DOMAIN queue : queue[j].n > last /\ queue[j].n < next
    /\ \A i \in DOMAIN batch, j \in DOMAIN queue : batch[i].n < queue[j].n

LinesSound == \A c \in Drains : LineSound(BatchOf(c), gameQueue[c], stored[c], work)

MoneyAgrees ==
    \E x \in Nat : /\ Leads(BatchOf("qbMoneyUpdates"), db.balance, x)
                   /\ Leads(gameQueue["qbMoneyUpdates"], x, gameView.balance)
DataAgrees ==
    gameView.data = Shows(gameQueue["qbCharacterUpdates"], Shows(BatchOf("qbCharacterUpdates"), db.data))

DrainsSound ==
    /\ DrainTables /\ CharactersKnown /\ LinesSound
    /\ excuses = {} => MoneyAgrees /\ DataAgrees

Bounded == work \in 0 .. MaxWork /\ syncFaults \in 0 .. MaxSyncFaults

SyncInv ==
    /\ active \subseteq Channels /\ active \in ActiveSets /\ Bounded
    /\ PassSound /\ MirrorsSound /\ QueuesSound /\ DrainsSound

-----------------------------------------------------------------------------
(***************************************************************************)
(* What is under way, step by step.                                        *)
(***************************************************************************)
LEMMA NothingUnderWay ==
    ASSUME pass = Between \/ pass.batch = <<>>
    PROVE  \A c : BatchOf(c) = <<>>
BY DEF BatchOf, Between

LEMMA PassKept ==
    ASSUME PassSound, UNCHANGED <<active, pass>>
    PROVE  PassSound' /\ \A c : BatchOf(c)' = BatchOf(c)
<1>1. Channel' = Channel
  BY DEF Channel
<1>2. PassSound'
  BY <1>1 DEF PassSound, PartsOf, EventsOf, ValuesOf, SentOf, UpdatesOf, Between
<1> QED  BY <1>1, <1>2 DEF BatchOf

(* A step that works on what is under way of one kind of channel.           *)
LEMMA BusyElsewhere ==
    ASSUME PassSound, NEW S, Busy(S)
    PROVE  /\ pass.at # 0 /\ pass.batch # <<>> /\ Channel \in S
           /\ BatchOf(Channel) = pass.batch /\ pass.batch \in Seq(PartsOf(Channel))
           /\ Channel \in active
           /\ \A c : c \notin S => BatchOf(c) = <<>>
BY BatchesElsewhere DEF Busy

LEMMA DoubtKept ==
    ASSUME UNCHANGED inDoubtOf
    PROVE  \A c, k : Doubted(c, k)' <=> Doubted(c, k)
BY DEF Doubted

(* The mirrors, the queues and the drains are left alone by the others'     *)
(* steps.                                                                  *)
LEMMA MirrorsKept ==
    ASSUME MirrorsSound, UNCHANGED <<active, mirrorState>>,
           BatchOf("config")' = <<>> \/ (UNCHANGED pass /\ BatchOf("config")' = BatchOf("config"))
    PROVE  MirrorsSound'
<1>1. MirrorTables' /\ ConfigVersions' /\ Remembers'
  BY DEF MirrorsSound, MirrorTables, ConfigVersions, Remembers, Doubted, mirrorState
<1>2. BatchOf("config")' # <<>> => ConfigUnderWay(BatchOf("config"))'
  <2> SUFFICES ASSUME UNCHANGED pass, BatchOf("config")' = BatchOf("config"), BatchOf("config") # <<>>
               PROVE  ConfigUnderWay(BatchOf("config"))'
    OBVIOUS
  <2> QED  BY DEF MirrorsSound, ConfigUnderWay, Doubted, mirrorState
<1> QED  BY <1>1, <1>2 DEF MirrorsSound

LEMMA QueuesKept ==
    ASSUME QueuesSound, UNCHANGED queueState, work \in Nat, work' \in Nat, work' >= work,
           \A c \in Queues : BatchOf(c)' = BatchOf(c) \/ BatchOf(c)' = <<>>
    PROVE  QueuesSound'
<1>1. QueueTables'
  <2>1. \A c \in Queues : SentOf(c)' = SentOf(c) /\ \A d : KeyOf(c, d)' = KeyOf(c, d)
    OBVIOUS
  <2>2. ASSUME NEW n \in Nat, n < work PROVE n < work'
    BY <2>2
  <2>3. ASSUME NEW c \in Queues, NEW key \in DOMAIN pending[c]
        PROVE  pending[c][key] \in SentOf(c) /\ KeyOf(c, pending[c][key]) = key /\ pending[c][key].n < work'
    BY <2>2, <2>3 DEF QueuesSound, QueueTables, SentOf
  <2> QED  BY <2>2, <2>3 DEF QueuesSound, QueueTables, queueState
<1>2. ASSUME NEW c \in Queues
      PROVE  FlightSound(c, BatchOf(c))' /\ \A key \in DOMAIN pending'[c] : pending'[c][key].n > DeliveredOf(c, key)'
  <2>1. \A key : DeliveredOf(c, key)' = DeliveredOf(c, key)
    BY DEF DeliveredOf, queueState
  <2>2. CASE BatchOf(c)' = <<>>
    BY <2>1, <2>2, <1>2 DEF FlightSound, OnePerKey, QueuesSound, queueState
  <2>3. CASE BatchOf(c)' = BatchOf(c)
    <3>1. FlightSound(c, BatchOf(c))
      BY <1>2 DEF QueuesSound
    <3>2. ASSUME NEW i \in DOMAIN BatchOf(c), NEW d \in Range(BatchOf(c)[i].dispatches)
          PROVE  d.n < work'
      <4>1. d \in SentOf(c) /\ d.n < work
        BY <3>1, <3>2 DEF FlightSound
      <4>2. d.n \in Nat
        BY <4>1 DEF SentOf
      <4> QED  BY <4>1, <4>2
    <3> QED  BY <2>1, <2>3, <3>1, <3>2, <1>2 DEF FlightSound, OnePerKey, QueuesSound, queueState
  <2> QED  BY <1>2, <2>2, <2>3
<1> QED  BY <1>1, <1>2 DEF QueuesSound

(* The updates of a channel, in a batch or in the game, are numbered.       *)
LEMMA UpdatesNumbered ==
    ASSUME NEW c \in Drains, NEW line \in Seq(UpdatesOf(c))
    PROVE  \A i \in DOMAIN line : line[i] \in UpdatesOf(c) /\ line[i].n \in Nat
<1>1. \A i \in DOMAIN line : line[i] \in UpdatesOf(c)
  BY ElementOfSeq
<1>2. \A u \in UpdatesOf(c) : u.n \in Nat
  BY DEF UpdatesOf
<1> QED  BY <1>1, <1>2

LEMMA BatchTyped ==
    ASSUME PassSound, NEW c
    PROVE  BatchOf(c) \in Seq(PartsOf(c))
<1>1. <<>> \in Seq(PartsOf(c))
  OBVIOUS
<1>2. CASE pass.at # 0 /\ Channel = c
  BY <1>2, BatchesElsewhere
<1>3. CASE ~(pass.at # 0 /\ Channel = c)
  BY <1>1, <1>3 DEF BatchOf
<1> QED  BY <1>2, <1>3

LEMMA DrainParts ==
    ASSUME NEW c \in Drains
    PROVE  PartsOf(c) = UpdatesOf(c)
BY ChannelsApart DEF PartsOf

LEMMA DrainsKept ==
    ASSUME PassSound, DrainsSound, UNCHANGED qbState, work \in Nat, work' \in Nat, work' >= work,
           \A c \in Drains : BatchOf(c)' = BatchOf(c)
    PROVE  DrainsSound'
<1>1. DrainTables' /\ CharactersKnown'
  <2>1. \A n \in Int : n < work => n < work'
    OBVIOUS
  <2> QED  BY <2>1 DEF DrainsSound, DrainTables, CharactersKnown, Characters, qbState, UpdatesOf
<1>2. ASSUME NEW c \in Drains PROVE LineSound(BatchOf(c), gameQueue[c], stored[c], work)'
  <2>1. PICK batch : batch = BatchOf(c)
    OBVIOUS
  <2>2. PICK queue : queue = gameQueue[c]
    OBVIOUS
  <2>3. batch \in Seq(UpdatesOf(c)) /\ queue \in Seq(UpdatesOf(c))
    BY <1>2, <2>1, <2>2, BatchTyped, DrainParts DEF DrainsSound, DrainTables
  <2>4. LineSound(batch, queue, stored[c], work)
    BY <1>2, <2>1, <2>2 DEF DrainsSound, LinesSound
  <2>5. LineSound(batch, queue, stored[c], work')
    <3>1. \A n \in Nat : n < work => n < work'
      OBVIOUS
    <3>2. /\ \A i \in DOMAIN batch : batch[i].n \in Nat
          /\ \A j \in DOMAIN queue : queue[j].n \in Nat
      BY <1>2, <2>3, UpdatesNumbered
    <3> QED  BY <2>4, <3>1, <3>2 DEF LineSound
  <2>6. BatchOf(c)' = batch /\ gameQueue'[c] = queue /\ stored'[c] = stored[c]
    BY <1>2, <2>1, <2>2 DEF qbState
  <2> QED  BY <2>5, <2>6
<1>3. excuses' = {} => MoneyAgrees' /\ DataAgrees'
  <2>1. BatchOf("qbMoneyUpdates")' = BatchOf("qbMoneyUpdates") /\ BatchOf("qbCharacterUpdates")' = BatchOf("qbCharacterUpdates")
    BY ChannelsApart
  <2>2. UNCHANGED <<excuses, db, gameView, gameQueue>>
    BY DEF qbState
  <2> QED  BY <2>1, <2>2 DEF DrainsSound, MoneyAgrees, DataAgrees
<1> QED  BY <1>1, <1>2, <1>3 DEF DrainsSound, LinesSound

-----------------------------------------------------------------------------
(***************************************************************************)
(* The mirrors.                                                            *)
(***************************************************************************)
LEMMA RowsUpdated ==
    ASSUME NEW K, NEW V, NEW table \in [K -> V], NEW rows, DOMAIN rows \subseteq K, \A k \in DOMAIN rows : rows[k] \in V
    PROVE  /\ Updated(table, rows) \in [K -> V]
           /\ \A k \in K : Updated(table, rows)[k] = IF k \in DOMAIN rows THEN rows[k] ELSE table[k]
BY DEF Updated

LEMMA ValuesAre ==
    ASSUME NEW c, NEW values \in ValuesOf(c)
    PROVE  DOMAIN values \subseteq KeysOf[c] /\ \A k \in DOMAIN values : values[k] \in 0 .. MaxValue
<1>1. PICK K \in SUBSET KeysOf[c] : values \in [K -> 0 .. MaxValue]
  BY DEF ValuesOf
<1> QED  BY <1>1

LEMMA MirrorParts ==
    ASSUME NEW c \in Mirrors
    PROVE  PartsOf(c) = EventsOf(c)
BY DEF PartsOf

LEMMA EventsAre ==
    ASSUME NEW c \in Mirrors, NEW events \in Seq(PartsOf(c))
    PROVE  \A i \in DOMAIN events : /\ DOMAIN events[i].values \subseteq KeysOf[c]
                                    /\ \A k \in DOMAIN events[i].values : events[i].values[k] \in 0 .. MaxValue
<1> SUFFICES ASSUME NEW i \in DOMAIN events
             PROVE  events[i].values \in ValuesOf(c)
  BY ValuesAre
<1>1. events \in Seq(EventsOf(c))
  BY MirrorParts
<1>2. events[i] \in EventsOf(c)
  BY <1>1, ElementOfSeq
<1> QED  BY <1>2 DEF EventsOf

(* A source changes: a setting's version grows.                             *)
LEMMA SourceKeepsMirrors ==
    ASSUME PassSound, MirrorsSound, SourceStep
    PROVE  MirrorsSound'
<1>0. PICK c \in active \cap Mirrors : \E k \in KeysOf[c] : \E value \in 0 .. MaxValue : ChangeSource(c, k, value)
  BY DEF SourceStep
<1>1. PICK k \in KeysOf[c] : \E value \in 0 .. MaxValue : ChangeSource(c, k, value)
  BY <1>0
<1>11. PICK value \in 0 .. MaxValue : ChangeSource(c, k, value)
  BY <1>1
<1>2. /\ source' = [source EXCEPT ![c][k] = value]
      /\ UNCHANGED <<active, pass, applied, shown, inDoubtOf>>
      /\ c = "config" => value = source[c][k] + 1
  BY <1>11 DEF ChangeSource, Working
<1>3. MirrorTables'
  BY <1>2 DEF MirrorsSound, MirrorTables
<1>4. Remembers'
  BY <1>2 DEF MirrorsSound, Remembers, Doubted
<1>5. ASSUME NEW s \in KeysOf["config"]
      PROVE  /\ source["config"][s] \in 0 .. MaxValue /\ source'["config"][s] \in 0 .. MaxValue
             /\ source["config"][s] <= source'["config"][s]
  <2>1. source["config"] \in [KeysOf["config"] -> 0 .. MaxValue] /\ source'["config"] \in [KeysOf["config"] -> 0 .. MaxValue]
    BY <1>3, ChannelsApart DEF MirrorsSound, MirrorTables
  <2>2. source'["config"][s] = IF c = "config" /\ k = s THEN value ELSE source["config"][s]
    BY <1>2, ChannelsApart, <1>5 DEF MirrorsSound, MirrorTables
  <2> QED  BY <1>2, <2>1, <2>2, SyncAssumption, <1>5
<1>6. \A s \in KeysOf["config"] : applied["config"][s] \in 0 .. MaxValue \cup {Unset}
  BY ChannelsApart DEF MirrorsSound, MirrorTables
<1>7. ConfigVersions'
  <2> SUFFICES ASSUME NEW s \in KeysOf["config"], applied["config"][s] # Unset
               PROVE  applied["config"][s] <= source'["config"][s]
    BY <1>2 DEF ConfigVersions
  <2>1. applied["config"][s] <= source["config"][s]
    BY DEF MirrorsSound, ConfigVersions
  <2> QED  BY <2>1, <1>5, <1>6, SyncAssumption
<1>8. BatchOf("config")' # <<>> => ConfigUnderWay(BatchOf("config"))'
  <2>1. PICK batch : batch = BatchOf("config")
    OBVIOUS
  <2>2. BatchOf("config")' = batch
    BY <1>2, <2>1, PassKept
  <2> SUFFICES ASSUME batch # <<>> PROVE ConfigUnderWay(batch)'
    BY <2>2 DEF ConfigUnderWay
  <2>3. ConfigUnderWay(batch)
    BY <2>1 DEF MirrorsSound
  <2>4. \A s \in DOMAIN pass.planned : pass.planned[s] <= source'["config"][s]
    <3> SUFFICES ASSUME NEW s \in DOMAIN pass.planned PROVE pass.planned[s] <= source'["config"][s]
      OBVIOUS
    <3>1. pass.planned[s] \in 0 .. MaxValue /\ pass.planned[s] <= source["config"][s] /\ s \in KeysOf["config"]
      BY <2>3 DEF ConfigUnderWay
    <3> QED  BY <3>1, <1>5, SyncAssumption
  <2> QED  BY <1>2, <2>3, <2>4 DEF ConfigUnderWay, Doubted
<1> QED  BY <1>3, <1>4, <1>7, <1>8 DEF MirrorsSound

(* A plan: every event carries the values read, and so does the plan.       *)
LEMMA SnapshotPlans ==
    ASSUME PassSound, MirrorTables, NEW c \in Mirrors, NEW groups, PlansKeys(c, groups), Emits(c, groups)
    PROVE  /\ PassSound' /\ UNCHANGED <<active, mirrorState, queueState, qbState, work, syncFaults>>
           /\ \A d : BatchOf(d) = <<>> /\ (d # c => BatchOf(d)' = <<>>)
           /\ BatchOf(c)' # <<>> =>
                /\ DOMAIN pass'.planned \subseteq KeysOf[c]
                /\ \A k \in DOMAIN pass'.planned :
                      pass'.planned[k] = source[c][k] /\ Carries(BatchOf(c)', k)
                /\ \A i \in DOMAIN BatchOf(c)' : \A k \in DOMAIN BatchOf(c)'[i].values :
                      k \in DOMAIN pass'.planned /\ BatchOf(c)'[i].values[k] = pass'.planned[k]
<1> DEFINE Values(keys) == [k \in keys |-> source[c][k]]
           events == [i \in DOMAIN groups |-> [values |-> Values(groups[i])]]
           all == UNION Range(groups)
<1>1. /\ pass.at # 0 /\ pass.batch = <<>> /\ Channel = c
      /\ pass' = IF groups = <<>> THEN NextStep ELSE [at |-> pass.at, batch |-> events, planned |-> Values(all)]
      /\ UNCHANGED <<active, mirrorState, queueState, qbState, work, syncFaults>>
  BY DEF Emits, Here
<1>2. \A d : BatchOf(d) = <<>>
  BY <1>1, NothingUnderWay
<1>3. CASE groups = <<>>
  <2>1. PassSound' /\ \A d : BatchOf(d)' = <<>>
    BY <1>1, <1>3, PassCleared DEF NextStep
  <2> QED  BY <1>1, <1>2, <2>1
<1>4. CASE groups # <<>>
  <2>1. groups \in Seq(SUBSET KeysOf[c]) /\ DOMAIN groups = 1 .. Len(groups) /\ Len(groups) \in Nat
    BY DEF PlansKeys
  <2>2. \A i \in DOMAIN groups : groups[i] \subseteq KeysOf[c]
    BY <2>1, ElementOfSeq
  <2>3. source[c] \in [KeysOf[c] -> 0 .. MaxValue]
    BY DEF MirrorTables
  <2>4. \A i \in DOMAIN groups : events[i] \in EventsOf(c)
    <3> SUFFICES ASSUME NEW i \in DOMAIN groups PROVE Values(groups[i]) \in ValuesOf(c)
      BY DEF EventsOf
    <3>1. groups[i] \in SUBSET KeysOf[c] /\ Values(groups[i]) \in [groups[i] -> 0 .. MaxValue]
      BY <2>2, <2>3
    <3> HIDE DEF Values
    <3> QED  BY <3>1 DEF ValuesOf
  <2>5. events \in Seq(PartsOf(Channel))
    <3>1. events \in [1 .. Len(groups) -> EventsOf(c)]
      BY <2>1, <2>4
    <3>2. events \in Seq(EventsOf(c))
      <4> HIDE DEF events
      <4> QED  BY <2>1, <3>1
    <3> QED  BY <1>1, <3>2, MirrorParts
  <2>6. pass' = [at |-> pass.at, batch |-> events, planned |-> Values(all)]
    BY <1>1, <1>4
  <2>7. PassSound' /\ BatchOf(c)' = events /\ (\A d : d # c => BatchOf(d)' = <<>>) /\ pass'.planned = Values(all)
    <3> HIDE DEF events, Values, all
    <3>1. pass'.planned = Values(all)
      BY <2>6
    <3> QED  BY <1>1, <2>5, <2>6, <3>1, PassFilled
  <2>8. all \subseteq KeysOf[c] /\ \A k \in all : \E i \in DOMAIN groups : k \in groups[i]
    BY <2>2 DEF Range
  <2>9. \A i \in DOMAIN groups : groups[i] \subseteq all
    BY DEF Range
  <2>10. /\ DOMAIN Values(all) = all /\ DOMAIN events = DOMAIN groups
         /\ \A i \in DOMAIN groups : DOMAIN events[i].values = groups[i]
         /\ \A i \in DOMAIN groups : \A k \in groups[i] : events[i].values[k] = source[c][k]
         /\ \A k \in all : Values(all)[k] = source[c][k]
    OBVIOUS
  <2> HIDE DEF events, Values, all
  <2>11. \A k \in all : Values(all)[k] = source[c][k] /\ Carries(events, k)
    BY <2>8, <2>10 DEF Carries
  <2>12. \A i \in DOMAIN events : \A k \in DOMAIN events[i].values : k \in all /\ events[i].values[k] = Values(all)[k]
    BY <2>9, <2>10
  <2>13. DOMAIN Values(all) \subseteq KeysOf[c]
    BY <2>8, <2>10
  <2> QED  BY <1>1, <1>2, <2>7, <2>10, <2>11, <2>12, <2>13
<1> QED  BY <1>3, <1>4

LEMMA SnapshotKeepsMirrors ==
    ASSUME PassSound, MirrorsSound, SnapshotStep
    PROVE  MirrorsSound'
<1>0. PICK c \in Mirrors : \E groups : PlansKeys(c, groups) /\ Emits(c, groups)
  BY DEF SnapshotStep
<1>1. PICK groups : PlansKeys(c, groups) /\ Emits(c, groups)
  BY <1>0
<1>2. MirrorTables
  BY DEF MirrorsSound
<1>3. UNCHANGED <<active, mirrorState>>
  BY <1>1, <1>2, SnapshotPlans
<1>4. CASE BatchOf("config")' = <<>>
  BY <1>3, <1>4, MirrorsKept
<1>5. CASE BatchOf("config")' # <<>>
  <2>1. PICK batch : batch = BatchOf("config")'
    OBVIOUS
  <2>2. c = "config" /\ batch # <<>>
    BY <1>1, <1>2, <1>5, <2>1, SnapshotPlans
  <2>3. /\ DOMAIN pass'.planned \subseteq KeysOf["config"]
        /\ \A k \in DOMAIN pass'.planned :
              pass'.planned[k] = source["config"][k] /\ Carries(batch, k)
        /\ \A i \in DOMAIN batch : \A k \in DOMAIN batch[i].values :
              k \in DOMAIN pass'.planned /\ batch[i].values[k] = pass'.planned[k]
    BY <1>1, <1>2, <2>1, <2>2, SnapshotPlans
  <2>4. \A k \in KeysOf["config"] : /\ source["config"][k] \in 0 .. MaxValue
                                    /\ applied["config"][k] = Unset \/ applied["config"][k] <= source["config"][k]
    BY ChannelsApart DEF MirrorsSound, MirrorTables, ConfigVersions
  <2>5. \A k \in DOMAIN pass'.planned :
            /\ pass'.planned[k] \in 0 .. MaxValue /\ pass'.planned[k] <= source["config"][k]
            /\ applied["config"][k] = Unset \/ applied["config"][k] <= pass'.planned[k]
    BY <2>3, <2>4, SyncAssumption
  <2>6. ConfigUnderWay(batch)'
    BY <1>3, <2>3, <2>5 DEF ConfigUnderWay, mirrorState
  <2>7. MirrorTables' /\ ConfigVersions' /\ Remembers'
    BY <1>3 DEF MirrorsSound, MirrorTables, ConfigVersions, Remembers, Doubted, mirrorState
  <2>8. ConfigUnderWay(BatchOf("config"))'
    BY <2>1, <2>6 DEF ConfigUnderWay
  <2> QED  BY <2>7, <2>8 DEF MirrorsSound
<1> QED  BY <1>4, <1>5

(* The service or FXServer restarts.                                        *)
LEMMA ServiceRestartKeepsMirrors ==
    ASSUME PassSound, MirrorsSound, ServiceRestarts
    PROVE  MirrorsSound'
<1>1. /\ applied' = [c \in Mirrors |-> [k \in KeysOf[c] |-> Unset]] /\ UNCHANGED <<active, source, shown>>
      /\ pass' = Between
  BY DEF ServiceRestarts, Faulty
<1>2. BatchOf("config")' = <<>>
  BY <1>1, PassCleared
<1>3. MirrorTables'
  BY <1>1 DEF MirrorsSound, MirrorTables
<1>4. ConfigVersions' /\ Remembers'
  BY <1>1, ChannelsApart DEF ConfigVersions, Remembers
<1> QED  BY <1>2, <1>3, <1>4 DEF MirrorsSound

LEMMA PairIn ==
    ASSUME NEW a, NEW S, NEW b \in S
    PROVE  <<a, b>> \in {a} \X S
OBVIOUS

LEMMA FxRestartKeepsMirrors ==
    ASSUME PassSound, MirrorsSound, FxServerRestarts
    PROVE  MirrorsSound'
<1>1. /\ shown' = [c \in Mirrors |-> [k \in KeysOf[c] |-> 0]] /\ UNCHANGED <<active, source, applied, pass>>
      /\ inDoubtOf' = UNION {{c} \X KeysOf[c] : c \in active \cap Mirrors}
  BY DEF FxServerRestarts, Faulty
<1>2. MirrorTables'
  <2>1. 0 \in 0 .. MaxValue
    BY SyncAssumption
  <2> QED  BY <1>1, <2>1 DEF MirrorsSound, MirrorTables
<1>3. ASSUME NEW c \in active \cap Mirrors, NEW k \in KeysOf[c]
      PROVE  Doubted(c, k)'
  <2>1. <<c, k>> \in {c} \X KeysOf[c]
    BY <1>3, PairIn
  <2> QED  BY <1>1, <1>3, <2>1 DEF Doubted
<1>4. ConfigVersions' /\ Remembers'
  BY <1>1, <1>3 DEF MirrorsSound, ConfigVersions, Remembers
<1>5. BatchOf("config")' # <<>> => ConfigUnderWay(BatchOf("config"))'
  <2>1. PICK batch : batch = BatchOf("config")
    OBVIOUS
  <2>2. BatchOf("config")' = batch
    BY <1>1, <2>1, PassKept
  <2> SUFFICES ASSUME batch # <<>> PROVE ConfigUnderWay(batch)'
    BY <2>2 DEF ConfigUnderWay
  <2>3. "config" \in active
    BY <2>1, BatchesElsewhere DEF BatchOf
  <2>4. ConfigUnderWay(batch) /\ \A k \in KeysOf["config"] : Doubted("config", k)'
    BY <1>3, <2>1, <2>3, ChannelsApart DEF MirrorsSound
  <2> QED  BY <1>1, <2>4 DEF ConfigUnderWay
<1> QED  BY <1>2, <1>4, <1>5 DEF MirrorsSound

(* An emission: the first event of the step's batch.                        *)
LEMMA FirstEvent ==
    ASSUME PassSound, MirrorTables, Busy(Mirrors)
    PROVE  /\ Channel \in Mirrors /\ Channel \in active /\ pass.at # 0
           /\ pass.batch \in Seq(PartsOf(Channel)) /\ pass.batch # <<>> /\ BatchOf(Channel) = pass.batch
           /\ Len(pass.batch) \in Nat \ {0} /\ 1 \in DOMAIN pass.batch /\ Head(pass.batch) = pass.batch[1]
           /\ DOMAIN Head(pass.batch).values \subseteq KeysOf[Channel]
           /\ \A k \in DOMAIN Head(pass.batch).values : Head(pass.batch).values[k] \in 0 .. MaxValue
<1>1. /\ Channel \in Mirrors /\ Channel \in active /\ pass.at # 0
      /\ pass.batch \in Seq(PartsOf(Channel)) /\ pass.batch # <<>> /\ BatchOf(Channel) = pass.batch
  BY BusyElsewhere
<1>2. Len(pass.batch) \in Nat \ {0} /\ 1 \in DOMAIN pass.batch /\ Head(pass.batch) = pass.batch[1]
  <2>1. Len(pass.batch) \in Nat \ {0}
    BY <1>1, EmptySeq
  <2> QED  BY <1>1, <2>1
<1>3. \A i \in DOMAIN pass.batch :
          /\ DOMAIN pass.batch[i].values \subseteq KeysOf[Channel]
          /\ \A k \in DOMAIN pass.batch[i].values : pass.batch[i].values[k] \in 0 .. MaxValue
  BY <1>1, EventsAre
<1> QED  BY <1>1, <1>2, <1>3

LEMMA ShownUpdated ==
    ASSUME PassSound, MirrorTables, Busy(Mirrors),
           shown' = [shown EXCEPT ![Channel] = Updated(@, Head(pass.batch).values)]
    PROVE  /\ DOMAIN shown' = Mirrors /\ \A c \in Mirrors : shown'[c] \in [KeysOf[c] -> 0 .. MaxValue]
           /\ \A c \in Mirrors \ {Channel} : shown'[c] = shown[c]
           /\ \A k \in KeysOf[Channel] :
                shown'[Channel][k] = IF k \in DOMAIN Head(pass.batch).values THEN Head(pass.batch).values[k] ELSE shown[Channel][k]
<1> DEFINE v == Head(pass.batch).values
<1>1. Channel \in Mirrors /\ DOMAIN v \subseteq KeysOf[Channel] /\ \A k \in DOMAIN v : v[k] \in 0 .. MaxValue
  BY FirstEvent
<1>2. shown[Channel] \in [KeysOf[Channel] -> 0 .. MaxValue]
  BY <1>1 DEF MirrorTables
<1>3. shown'[Channel] = Updated(shown[Channel], v) /\ DOMAIN shown' = Mirrors /\ \A c \in Mirrors \ {Channel} : shown'[c] = shown[c]
  BY <1>1 DEF MirrorTables
<1> HIDE DEF v
<1>4. /\ Updated(shown[Channel], v) \in [KeysOf[Channel] -> 0 .. MaxValue]
      /\ \A k \in KeysOf[Channel] : Updated(shown[Channel], v)[k] = IF k \in DOMAIN v THEN v[k] ELSE shown[Channel][k]
  BY <1>1, <1>2 DEF Updated
<1>5. \A c \in Mirrors : shown'[c] \in [KeysOf[c] -> 0 .. MaxValue]
  BY <1>3, <1>4 DEF MirrorTables
<1> QED  BY <1>3, <1>4, <1>5 DEF v

(* What was told is no more in doubt.                                       *)
LEMMA DoubtTold ==
    ASSUME inDoubtOf' = inDoubtOf \ Told
    PROVE  \A c, k : Doubted(c, k)' <=> (Doubted(c, k) /\ ~(c = Channel /\ k \in DOMAIN Head(pass.batch).values))
<1> SUFFICES ASSUME NEW c, NEW k
             PROVE  Doubted(c, k)' <=> (Doubted(c, k) /\ ~(c = Channel /\ k \in DOMAIN Head(pass.batch).values))
  OBVIOUS
<1>1. <<c, k>> \in Told <=> (c = Channel /\ k \in DOMAIN Head(pass.batch).values)
  BY DEF Told
<1> QED  BY <1>1 DEF Doubted

LEMMA ToldAre ==
    \A c, k : <<c, k>> \in Told <=> (c = Channel /\ k \in DOMAIN Head(pass.batch).values)
BY DEF Told

(* What is remembered of the step: values read, of keys of the snapshot.    *)
LEMMA RememberedIs ==
    ASSUME PassSound, MirrorsSound, Busy(Mirrors)
    PROVE  DOMAIN Remembered \subseteq KeysOf[Channel] /\ \A k \in DOMAIN Remembered : Remembered[k] \in 0 .. MaxValue
<1>0. MirrorTables
  BY DEF MirrorsSound
<1>1. CASE Channel # "config"
  BY <1>0, <1>1, FirstEvent DEF Remembered
<1>2. CASE Channel = "config" /\ Len(pass.batch) = 1
  <2>1. ConfigUnderWay(BatchOf("config"))
    BY <1>0, <1>2, FirstEvent DEF MirrorsSound
  <2> QED  BY <1>2, <2>1 DEF Remembered, ConfigUnderWay
<1>3. CASE Channel = "config" /\ Len(pass.batch) # 1
  BY <1>3 DEF Remembered
<1> QED  BY <1>1, <1>2, <1>3

LEMMA AppliedUpdated ==
    ASSUME PassSound, MirrorsSound, Busy(Mirrors),
           applied' = [applied EXCEPT ![Channel] = Updated(@, Remembered)]
    PROVE  /\ DOMAIN applied' = Mirrors /\ \A c \in Mirrors : applied'[c] \in [KeysOf[c] -> 0 .. MaxValue \cup {Unset}]
           /\ \A c \in Mirrors \ {Channel} : applied'[c] = applied[c]
           /\ \A k \in KeysOf[Channel] :
                applied'[Channel][k] = IF k \in DOMAIN Remembered THEN Remembered[k] ELSE applied[Channel][k]
<1>1. Channel \in Mirrors
  BY DEF Busy
<1>2. /\ applied[Channel] \in [KeysOf[Channel] -> 0 .. MaxValue \cup {Unset}] /\ DOMAIN applied = Mirrors
      /\ \A c \in Mirrors : applied[c] \in [KeysOf[c] -> 0 .. MaxValue \cup {Unset}]
  BY <1>1 DEF MirrorsSound, MirrorTables
<1>3. /\ applied'[Channel] = Updated(applied[Channel], Remembered) /\ DOMAIN applied' = Mirrors
      /\ \A c \in Mirrors \ {Channel} : applied'[c] = applied[c]
  BY <1>1, <1>2
<1>4. DOMAIN Remembered \subseteq KeysOf[Channel] /\ \A k \in DOMAIN Remembered : Remembered[k] \in 0 .. MaxValue \cup {Unset}
  BY RememberedIs
<1>5. /\ Updated(applied[Channel], Remembered) \in [KeysOf[Channel] -> 0 .. MaxValue \cup {Unset}]
      /\ \A k \in KeysOf[Channel] :
            Updated(applied[Channel], Remembered)[k] = IF k \in DOMAIN Remembered THEN Remembered[k] ELSE applied[Channel][k]
  BY <1>2, <1>4 DEF Updated
<1>6. \A c \in Mirrors : applied'[c] \in [KeysOf[c] -> 0 .. MaxValue \cup {Unset}]
  BY <1>2, <1>3, <1>5
<1> QED  BY <1>3, <1>5, <1>6

(* An emission of any mirror but the settings.                              *)
LEMMA EmissionKeepsOthers ==
    ASSUME PassSound, MirrorsSound, emitServerEvent_Mirror, Channel # "config"
    PROVE  MirrorsSound'
<1> DEFINE v == Head(pass.batch).values
<1>0. /\ Busy(Mirrors) /\ UNCHANGED <<active, source>> /\ pass' = Rest /\ inDoubtOf' = inDoubtOf \ Told
      /\ shown' = [shown EXCEPT ![Channel] = Updated(@, v)]
      /\ applied' = [applied EXCEPT ![Channel] = Updated(@, Remembered)] /\ MirrorTables
  BY DEF emitServerEvent_Mirror, MirrorsSound
<1>1. Channel \in Mirrors /\ pass.at # 0 /\ pass.batch # <<>>
  BY <1>0 DEF Busy
<1>2. Remembered = v
  BY DEF Remembered
<1>3. MirrorTables'
  BY <1>0, ShownUpdated, AppliedUpdated DEF MirrorTables
<1>4. applied'["config"] = applied["config"]
  BY <1>0, ChannelsApart, AppliedUpdated
<1>5. ConfigVersions'
  BY <1>0, <1>4 DEF MirrorsSound, ConfigVersions
<1>6. BatchOf("config")' = <<>>
  BY <1>0, <1>1, PassPopped
<1>7. ASSUME NEW c \in active \cap Mirrors, NEW k \in KeysOf[c], applied'[c][k] # Unset, ~Doubted(c, k)'
      PROVE  IF c = "config" THEN applied'[c][k] <= shown'[c][k] ELSE applied'[c][k] = shown'[c][k]
  <2>1. CASE c # Channel
    <3>1. applied'[c] = applied[c] /\ shown'[c] = shown[c]
      BY <1>0, <1>7, <2>1, ShownUpdated, AppliedUpdated
    <3>2. ~Doubted(c, k)
      BY <1>0, <1>7, <2>1, DoubtTold
    <3> QED  BY <1>7, <3>1, <3>2 DEF MirrorsSound, Remembers
  <2>2. CASE c = Channel /\ k \in DOMAIN v
    BY <1>0, <1>2, <1>7, <2>2, ShownUpdated, AppliedUpdated
  <2>3. CASE c = Channel /\ k \notin DOMAIN v
    <3>1. applied'[c][k] = applied[c][k] /\ shown'[c][k] = shown[c][k]
      BY <1>0, <1>2, <1>7, <2>3, ShownUpdated, AppliedUpdated
    <3>2. ~Doubted(c, k)
      BY <1>0, <1>7, <2>3, DoubtTold
    <3> QED  BY <1>7, <3>1, <3>2 DEF MirrorsSound, Remembers
  <2> QED  BY <2>1, <2>2, <2>3
<1>8. Remembers'
  BY <1>0, <1>7 DEF Remembers
<1> QED  BY <1>3, <1>5, <1>6, <1>8 DEF MirrorsSound

(* An emission of settings: the versions sent are the planned ones.         *)
LEMMA SettingsSent ==
    ASSUME PassSound, MirrorsSound, Busy(Mirrors), Channel = "config"
    PROVE  /\ ConfigUnderWay(pass.batch)
           /\ \A k \in DOMAIN Head(pass.batch).values :
                 k \in DOMAIN pass.planned /\ Head(pass.batch).values[k] = pass.planned[k]
           /\ \A k \in DOMAIN pass.planned :
                 \/ k \in DOMAIN Head(pass.batch).values
                 \/ Carries(Tail(pass.batch), k)
                 \/ pass.planned[k] <= shown["config"][k]
                 \/ Doubted("config", k)
           /\ \A i \in DOMAIN Tail(pass.batch) : \A k \in DOMAIN Tail(pass.batch)[i].values :
                 k \in DOMAIN pass.planned /\ Tail(pass.batch)[i].values[k] = pass.planned[k]
           /\ Len(pass.batch) = 1 <=> Tail(pass.batch) = <<>>
<1>0. MirrorTables
  BY DEF MirrorsSound
<1>1. PICK batch : batch = pass.batch
  OBVIOUS
<1>2. /\ batch \in Seq(PartsOf("config")) /\ batch # <<>> /\ Len(batch) \in Nat \ {0}
      /\ 1 \in DOMAIN batch /\ Head(batch) = batch[1] /\ BatchOf("config") = batch
  BY <1>0, <1>1, FirstEvent
<1>3. ConfigUnderWay(batch)
  BY <1>2 DEF MirrorsSound
<1>4. /\ Tail(batch) \in Seq(PartsOf("config")) /\ Len(Tail(batch)) = Len(batch) - 1
      /\ DOMAIN Tail(batch) = 1 .. (Len(batch) - 1) /\ DOMAIN batch = 1 .. Len(batch)
      /\ \A i \in 1 .. (Len(batch) - 1) : Tail(batch)[i] = batch[i + 1] /\ i + 1 \in DOMAIN batch
  <2>1. Tail(batch) \in Seq(PartsOf("config")) /\ Len(Tail(batch)) = Len(batch) - 1
        /\ \A i \in 1 .. (Len(batch) - 1) : Tail(batch)[i] = batch[i + 1]
    BY <1>2, HeadTailProperties
  <2> QED  BY <1>2, <2>1
<1>5. \A i \in DOMAIN batch : i = 1 \/ (i - 1 \in DOMAIN Tail(batch) /\ Tail(batch)[i - 1] = batch[i])
  <2> SUFFICES ASSUME NEW i \in DOMAIN batch, i # 1
               PROVE  i - 1 \in DOMAIN Tail(batch) /\ Tail(batch)[i - 1] = batch[i]
    OBVIOUS
  <2>1. i \in Int /\ i - 1 \in 1 .. (Len(batch) - 1)
    BY <1>2, <1>4
  <2>2. (i - 1) + 1 = i
    BY <2>1
  <2> QED  BY <1>4, <2>1, <2>2
<1>6. \A k \in DOMAIN Head(batch).values :
          k \in DOMAIN pass.planned /\ Head(batch).values[k] = pass.planned[k]
  BY <1>2, <1>3 DEF ConfigUnderWay
<1>7. \A k \in DOMAIN pass.planned :
         \/ k \in DOMAIN Head(batch).values
         \/ Carries(Tail(batch), k)
         \/ pass.planned[k] <= shown["config"][k]
         \/ Doubted("config", k)
  <2>1. ASSUME NEW k \in DOMAIN pass.planned, Carries(batch, k)
        PROVE  k \in DOMAIN Head(batch).values \/ Carries(Tail(batch), k)
    BY <1>2, <1>5, <2>1 DEF Carries
  <2>2. \A k \in DOMAIN pass.planned :
           \/ Carries(batch, k)
           \/ pass.planned[k] <= shown["config"][k] \/ Doubted("config", k)
    BY <1>3 DEF ConfigUnderWay
  <2> QED  BY <2>1, <2>2
<1>8. \A i \in DOMAIN Tail(batch) : \A k \in DOMAIN Tail(batch)[i].values :
         k \in DOMAIN pass.planned /\ Tail(batch)[i].values[k] = pass.planned[k]
  <2> SUFFICES ASSUME NEW i \in DOMAIN Tail(batch), NEW k \in DOMAIN Tail(batch)[i].values
               PROVE  k \in DOMAIN pass.planned /\ Tail(batch)[i].values[k] = pass.planned[k]
    OBVIOUS
  <2>1. i + 1 \in DOMAIN batch /\ Tail(batch)[i] = batch[i + 1]
    BY <1>4
  <2> QED  BY <1>3, <2>1 DEF ConfigUnderWay
<1>9. Len(batch) = 1 <=> Tail(batch) = <<>>
  <2>1. Tail(batch) = <<>> <=> Len(Tail(batch)) = 0
    BY <1>4, EmptySeq
  <2>2. Len(Tail(batch)) = Len(batch) - 1 /\ Len(batch) \in Nat
    BY <1>2, <1>4
  <2> QED  BY <2>1, <2>2
<1> QED  BY <1>1, <1>3, <1>6, <1>7, <1>8, <1>9

LEMMA EmissionKeepsSettings ==
    ASSUME PassSound, MirrorsSound, emitServerEvent_Mirror, Channel = "config"
    PROVE  MirrorsSound'
<1> DEFINE v == Head(pass.batch).values
           last == Len(pass.batch) = 1
           planned == pass.planned
           old == applied["config"]
           new == applied'["config"]
           was == shown["config"]
           is == shown'["config"]
           K == KeysOf["config"]
<1>0. /\ Busy(Mirrors) /\ UNCHANGED <<active, source>> /\ pass' = Rest /\ inDoubtOf' = inDoubtOf \ Told
      /\ shown' = [shown EXCEPT ![Channel] = Updated(@, v)]
      /\ applied' = [applied EXCEPT ![Channel] = Updated(@, Remembered)] /\ MirrorTables
  BY DEF emitServerEvent_Mirror, MirrorsSound
<1>1. /\ ConfigUnderWay(pass.batch) /\ pass.at # 0 /\ pass.batch # <<>>
      /\ DOMAIN planned \subseteq K /\ DOMAIN v \subseteq DOMAIN planned
      /\ \A k \in DOMAIN planned : /\ planned[k] \in 0 .. MaxValue /\ planned[k] <= source["config"][k]
                                   /\ old[k] = Unset \/ old[k] <= planned[k]
  BY <1>0, SettingsSent DEF ConfigUnderWay, Busy
<1>2. MirrorTables'
  BY <1>0, ShownUpdated, AppliedUpdated DEF MirrorTables
<1>3. \A k \in K : is[k] = IF k \in DOMAIN v THEN planned[k] ELSE was[k]
  <2>1. \A k \in K : is[k] = IF k \in DOMAIN v THEN v[k] ELSE was[k]
    BY <1>0, ShownUpdated
  <2>2. \A k \in DOMAIN v : v[k] = planned[k]
    BY <1>0, SettingsSent
  <2> QED  BY <2>1, <2>2
<1>4. \A k \in K : new[k] = IF last /\ k \in DOMAIN planned THEN planned[k] ELSE old[k]
  <2>1. \A k \in K : new[k] = IF k \in DOMAIN Remembered THEN Remembered[k] ELSE old[k]
    BY <1>0, AppliedUpdated
  <2>2. Remembered = IF last THEN planned ELSE <<>>
    BY DEF Remembered
  <2> HIDE DEF new, old, planned, last
  <2> QED  BY <2>1, <2>2
<1>5. \A k : Doubted("config", k)' <=> (Doubted("config", k) /\ k \notin DOMAIN v)
  BY <1>0, DoubtTold
<1>6. \A k \in K : old[k] = Unset \/ old[k] <= source["config"][k]
  BY DEF MirrorsSound, ConfigVersions
<1>7. \A k \in K : old[k] \in 0 .. MaxValue \cup {Unset} /\ was[k] \in 0 .. MaxValue /\ source["config"][k] \in 0 .. MaxValue
  BY ChannelsApart DEF MirrorsSound, MirrorTables
<1>8. \A k \in DOMAIN planned : \/ k \in DOMAIN v
                                \/ Carries(Tail(pass.batch), k)
                                \/ planned[k] <= was[k]
                                \/ Doubted("config", k)
  BY <1>0, SettingsSent
<1>9. last <=> Tail(pass.batch) = <<>>
  BY <1>0, SettingsSent
<1>10. \A k \in K : "config" \in active /\ old[k] # Unset /\ ~Doubted("config", k) => old[k] <= was[k]
  BY ChannelsApart DEF MirrorsSound, Remembers
<1> HIDE DEF v, last, planned, old, new, was, is, K
<1>11. ConfigVersions'
  <2>1. \A k \in K : new[k] = Unset \/ new[k] <= source["config"][k]
    BY <1>1, <1>4, <1>6
  <2> QED  BY <1>0, <2>1 DEF ConfigVersions, new, K
<1>12. ASSUME NEW k \in K, new[k] # Unset, ~Doubted("config", k)', "config" \in active
       PROVE  new[k] <= is[k]
  <2>1. CASE k \in DOMAIN v
    <3>1. is[k] = planned[k] /\ k \in DOMAIN planned /\ planned[k] \in 0 .. MaxValue
      BY <1>1, <1>3, <2>1, <1>12
    <3>2. new[k] <= planned[k]
      BY <1>1, <1>4, <1>12, <3>1, SyncAssumption
    <3> QED  BY <3>1, <3>2
  <2>2. CASE k \notin DOMAIN v
    <3>1. is[k] = was[k] /\ ~Doubted("config", k)
      BY <1>3, <1>5, <1>12, <2>2
    <3>2. CASE last /\ k \in DOMAIN planned
      <4>1. new[k] = planned[k] /\ Tail(pass.batch) = <<>>
        BY <1>4, <1>9, <1>12, <3>2
      <4>2. ~Carries(Tail(pass.batch), k)
        BY <4>1 DEF Carries
      <4> QED  BY <1>8, <2>2, <3>1, <3>2, <4>1, <4>2
    <3>3. CASE ~(last /\ k \in DOMAIN planned)
      <4>1. new[k] = old[k]
        BY <1>4, <1>12, <3>3
      <4> QED  BY <1>10, <1>12, <3>1, <4>1
    <3> QED  BY <3>2, <3>3
  <2> QED  BY <2>1, <2>2
<1>13. Remembers'
  <2>1. \A c \in Mirrors \ {"config"} : applied'[c] = applied[c] /\ shown'[c] = shown[c]
    BY <1>0, ShownUpdated, AppliedUpdated DEF v
  <2>2. ASSUME NEW c \in Mirrors \ {"config"}, NEW k
        PROVE  Doubted(c, k)' <=> Doubted(c, k)
    BY <1>0, <2>2, DoubtTold
  <2>3. \A c \in (active \cap Mirrors) \ {"config"} : \A k \in KeysOf[c] :
            applied'[c][k] # Unset /\ ~Doubted(c, k)' => applied'[c][k] = shown'[c][k]
    BY <2>1, <2>2 DEF MirrorsSound, Remembers
  <2>4. "config" \in active => \A k \in K : new[k] # Unset /\ ~Doubted("config", k)' => new[k] <= is[k]
    BY <1>12
  <2> QED  BY <1>0, <2>3, <2>4 DEF Remembers, new, is, K
<1>14. BatchOf("config")' # <<>> => ConfigUnderWay(BatchOf("config"))'
  <2>1. PICK rest : rest = Tail(pass.batch)
    OBVIOUS
  <2>2. BatchOf("config")' = rest /\ (rest # <<>> => pass'.planned = planned)
    BY <1>0, <1>1, <2>1, PassPopped DEF planned
  <2> SUFFICES ASSUME rest # <<>> PROVE ConfigUnderWay(rest)'
    BY <2>2 DEF ConfigUnderWay
  <2>3. ~last /\ \A k \in K : new[k] = old[k]
    BY <1>4, <1>9, <2>1
  <2>4. \A k \in DOMAIN planned : \/ Carries(rest, k)
                                  \/ planned[k] <= is[k] \/ Doubted("config", k)'
    <3>1. ASSUME NEW k \in DOMAIN planned, k \in DOMAIN v PROVE planned[k] <= is[k]
      BY <1>1, <1>3, <3>1
    <3>2. ASSUME NEW k \in DOMAIN planned, k \notin DOMAIN v
          PROVE  Carries(rest, k) \/ planned[k] <= is[k] \/ Doubted("config", k)'
      BY <1>1, <1>3, <1>5, <1>8, <2>1, <3>2
    <3> QED  BY <3>1, <3>2
  <2>5. \A i \in DOMAIN rest : \A k \in DOMAIN rest[i].values : k \in DOMAIN planned /\ rest[i].values[k] = planned[k]
    BY <1>0, <2>1, SettingsSent DEF planned
  <2>6. pass'.planned = planned /\ source' = source
    BY <1>0, <2>2
  <2>7. \A k \in DOMAIN planned : new[k] = Unset \/ new[k] <= planned[k]
    BY <1>1, <2>3
  <2> QED  BY <1>1, <2>4, <2>5, <2>6, <2>7 DEF ConfigUnderWay, K, new, is
<1> QED  BY <1>2, <1>11, <1>13, <1>14 DEF MirrorsSound

(* An emission that throws, its event executed or not.                      *)
LEMMA ThrowKeepsMirrors ==
    ASSUME PassSound, MirrorsSound, emitServerEventThrows_Mirror
    PROVE  MirrorsSound'
<1> DEFINE v == Head(pass.batch).values
<1>0. /\ Busy(Mirrors) /\ UNCHANGED <<active, source, applied>> /\ pass' = Between /\ MirrorTables
      /\ \/ UNCHANGED <<shown, inDoubtOf>>
         \/ /\ shown' = [shown EXCEPT ![Channel] = Updated(@, v)]
            /\ inDoubtOf' = inDoubtOf \cup (IF Channel = "config" THEN {} ELSE Told)
  BY DEF emitServerEventThrows_Mirror, MirrorsSound, Faulty
<1>1. BatchOf("config")' = <<>>
  BY <1>0, PassCleared
<1>2. CASE UNCHANGED <<shown, inDoubtOf>>
  BY <1>0, <1>1, <1>2, MirrorsKept DEF mirrorState
<1>3. CASE /\ shown' = [shown EXCEPT ![Channel] = Updated(@, v)]
           /\ inDoubtOf' = inDoubtOf \cup (IF Channel = "config" THEN {} ELSE Told)
  <2>1. MirrorTables'
    BY <1>0, <1>3, ShownUpdated DEF MirrorTables
  <2>2. ConfigVersions'
    BY <1>0 DEF MirrorsSound, ConfigVersions
  <2>3. ASSUME NEW c \in active \cap Mirrors, NEW k \in KeysOf[c], applied[c][k] # Unset, ~Doubted(c, k)'
        PROVE  IF c = "config" THEN applied[c][k] <= shown'[c][k] ELSE applied[c][k] = shown'[c][k]
    <3>1. IF c = "config" THEN applied[c][k] <= shown[c][k] ELSE applied[c][k] = shown[c][k]
      BY <1>3, <2>3 DEF MirrorsSound, Remembers, Doubted
    <3>2. CASE c # Channel
      <4>1. shown'[c] = shown[c]
        BY <1>0, <1>3, <2>3, <3>2, ShownUpdated
      <4> QED  BY <3>1, <4>1
    <3>3. CASE c = Channel /\ k \notin DOMAIN v
      <4>1. shown'[c][k] = shown[c][k]
        BY <1>0, <1>3, <2>3, <3>3, ShownUpdated
      <4> QED  BY <3>1, <4>1
    <3>4. CASE c = Channel /\ k \in DOMAIN v
      <4>1. c = "config"
        BY <1>3, <2>3, <3>4, ToldAre DEF Doubted
      <4>2. shown'[c][k] = v[k]
        BY <1>0, <1>3, <2>3, <3>4, ShownUpdated
      <4>3. v[k] = pass.planned[k] /\ (applied["config"][k] = Unset \/ applied["config"][k] <= pass.planned[k])
        BY <1>0, <3>4, <4>1, SettingsSent DEF ConfigUnderWay
      <4> QED  BY <2>3, <4>1, <4>2, <4>3
    <3> QED  BY <3>2, <3>3, <3>4
  <2>4. Remembers'
    BY <1>0, <2>3 DEF Remembers
  <2> QED  BY <1>1, <2>1, <2>2, <2>4 DEF MirrorsSound
<1> QED  BY <1>0, <1>2, <1>3

-----------------------------------------------------------------------------
(***************************************************************************)
(* The queues.                                                             *)
(***************************************************************************)
LEMMA KeyIgnoresNumber ==
    ASSUME NEW c \in Queues, NEW d, NEW e, d.server = e.server, d.target = e.target, d.detail = e.detail
    PROVE  KeyOf(c, d) = KeyOf(c, e)
BY DEF Queues, KeyOf, menuRefreshTargetKey, replicatedStateUpdateKey, vehicleSpawnDispatchKey,
       vehicleRepairDispatchKey, worldStateUpdateKey, teleportDispatchKey, kickDispatchKey

LEMMA QueueParts ==
    ASSUME NEW c \in Queues
    PROVE  PartsOf(c) = [dispatches : Seq(SentOf(c))]
BY ChannelsApart DEF PartsOf

(* What an enqueueing call adds: numbered dispatches, under their keys.     *)
LEMMA QueuedRows ==
    ASSUME NEW c \in Queues, NEW dispatches \in SUBSET Inputs[c], work \in Nat, Enqueue(c, dispatches)
    PROVE  \E queued :
              /\ pending' = [pending EXCEPT ![c] = Updated(@, queued)]
              /\ IsFiniteSet(DOMAIN queued)
              /\ \A key \in DOMAIN queued :
                    queued[key] \in SentOf(c) /\ KeyOf(c, queued[key]) = key /\ queued[key].n = work
<1> DEFINE Keyed(key) == CHOOSE d \in dispatches : KeyOf(c, d) = key
           Numbered(d) == [server |-> d.server, target |-> d.target, detail |-> d.detail, n |-> work]
           keys == {KeyOf(c, d) : d \in dispatches}
           queued == [key \in keys |-> Numbered(Keyed(key))]
<1>1. pending' = [pending EXCEPT ![c] = Updated(@, queued)]
  BY DEF Enqueue
<1>2. IsFiniteSet(DOMAIN queued)
  <2> DEFINE f == [d \in dispatches |-> KeyOf(c, d)]
  <2>1. IsFiniteSet(dispatches)
    BY SyncAssumption, FS_Subset
  <2>2. keys = {f[d] : d \in dispatches}
    OBVIOUS
  <2> HIDE DEF f, keys
  <2>3. IsFiniteSet(keys)
    BY <2>1, <2>2, ImageIsFinite
  <2> QED  BY <2>3
<1>3. ASSUME NEW key \in keys
      PROVE  queued[key] \in SentOf(c) /\ KeyOf(c, queued[key]) = key /\ queued[key].n = work
  <2>1. PICK d \in dispatches : d = Keyed(key) /\ KeyOf(c, d) = key
    BY <1>3
  <2>2. queued[key] = [server |-> d.server, target |-> d.target, detail |-> d.detail, n |-> work]
    BY <1>3, <2>1
  <2>3. /\ queued[key].server = d.server /\ queued[key].target = d.target /\ queued[key].detail = d.detail
        /\ queued[key].n = work
    BY <2>2
  <2> HIDE DEF queued
  <2>4. KeyOf(c, queued[key]) = key
    BY <2>1, <2>3, KeyIgnoresNumber
  <2>5. d \in Inputs[c]
    BY <2>1
  <2>6. queued[key] \in SentOf(c)
    BY <2>2, <2>5 DEF SentOf
  <2> QED  BY <2>3, <2>4, <2>6
<1>4. DOMAIN queued = keys
  OBVIOUS
<1> HIDE DEF queued, keys
<1> QED  BY <1>1, <1>2, <1>3, <1>4

LEMMA EnqueueKeepsQueues ==
    ASSUME PassSound, QueuesSound, work \in Nat, EnqueueStep
    PROVE  QueuesSound'
<1>0. PICK c \in active \cap Queues : \E dispatches \in SUBSET Inputs[c] : Enqueue(c, dispatches)
  BY DEF EnqueueStep
<1>1. PICK dispatches \in SUBSET Inputs[c] : Enqueue(c, dispatches)
  BY <1>0
<1>2. UNCHANGED <<active, pass, delivered>> /\ work' = work + 1
  BY <1>1 DEF Enqueue, Working
<1>3. PICK queued :
        /\ pending' = [pending EXCEPT ![c] = Updated(@, queued)]
        /\ IsFiniteSet(DOMAIN queued)
        /\ \A key \in DOMAIN queued :
              queued[key] \in SentOf(c) /\ KeyOf(c, queued[key]) = key /\ queued[key].n = work
  BY <1>1, QueuedRows
<1>4. /\ DOMAIN pending' = Queues /\ DOMAIN pending'[c] = DOMAIN pending[c] \cup DOMAIN queued
      /\ \A key \in DOMAIN pending'[c] : pending'[c][key] = IF key \in DOMAIN queued THEN queued[key] ELSE pending[c][key]
      /\ \A e \in Queues \ {c} : pending'[e] = pending[e]
  BY <1>3 DEF QueuesSound, QueueTables, Updated
<1>5. \A e : BatchOf(e)' = BatchOf(e)
  BY <1>2, PassKept
<1>6. \A e \in Queues : \A key \in DOMAIN pending[e] : pending[e][key].n \in Nat /\ pending[e][key].n < work
  BY DEF QueuesSound, QueueTables, SentOf
<1>7. QueueTables'
  <2>1. IsFiniteSet(DOMAIN pending'[c])
    <3>1. \A S, T : IsFiniteSet(S) /\ IsFiniteSet(T) => IsFiniteSet(S \cup T)
      BY FS_Union
    <3>2. IsFiniteSet(DOMAIN pending[c])
      BY DEF QueuesSound, QueueTables
    <3> QED  BY <1>3, <1>4, <3>1, <3>2
  <2>2. \A key \in DOMAIN pending'[c] :
            pending'[c][key] \in SentOf(c) /\ KeyOf(c, pending'[c][key]) = key /\ pending'[c][key].n < work'
    BY <1>2, <1>3, <1>4, <1>6 DEF QueuesSound, QueueTables
  <2>3. \A e \in Queues : \A key \in DOMAIN delivered[e] : delivered[e][key] \in Nat /\ delivered[e][key] < work'
    BY <1>2 DEF QueuesSound, QueueTables
  <2>4. ASSUME NEW e \in Queues \ {c}
        PROVE  /\ IsFiniteSet(DOMAIN pending'[e])
               /\ \A key \in DOMAIN pending'[e] :
                     pending'[e][key] \in SentOf(e) /\ KeyOf(e, pending'[e][key]) = key /\ pending'[e][key].n < work'
    BY <1>2, <1>4, <1>6, <2>4 DEF QueuesSound, QueueTables
  <2>5. DOMAIN delivered' = Queues
    BY <1>2 DEF QueuesSound, QueueTables
  <2> QED  BY <1>2, <1>4, <2>1, <2>2, <2>3, <2>4, <2>5 DEF QueueTables, SentOf
<1>8. \A e, key : DeliveredOf(e, key)' = DeliveredOf(e, key)
  BY <1>2 DEF DeliveredOf
<1>9. \A e \in Queues : \A key : DeliveredOf(e, key) < work
  BY DEF DeliveredOf, QueuesSound, QueueTables
<1>10. ASSUME NEW e \in Queues
       PROVE  FlightSound(e, BatchOf(e))' /\ \A key \in DOMAIN pending'[e] : pending'[e][key].n > DeliveredOf(e, key)'
  <2>1. PICK batch : batch = BatchOf(e)
    OBVIOUS
  <2>2. FlightSound(e, batch)
    BY <1>10, <2>1 DEF QueuesSound
  <2>3. ASSUME NEW i \in DOMAIN batch, NEW d \in Range(batch[i].dispatches)
        PROVE  /\ d \in SentOf(e) /\ d.n < work' /\ d.n > DeliveredOf(e, KeyOf(e, d))
               /\ KeyOf(e, d) \in DOMAIN pending'[e] => pending'[e][KeyOf(e, d)].n > d.n
    <3>1. /\ d \in SentOf(e) /\ d.n < work /\ d.n > DeliveredOf(e, KeyOf(e, d))
          /\ KeyOf(e, d) \in DOMAIN pending[e] => pending[e][KeyOf(e, d)].n > d.n
      BY <2>2, <2>3 DEF FlightSound
    <3>2. d.n \in Nat
      BY <3>1 DEF SentOf
    <3>3. PICK key : key = KeyOf(e, d)
      OBVIOUS
    <3>4. key \in DOMAIN pending'[e] => pending'[e][key].n > d.n
      <4>1. CASE e = c /\ key \in DOMAIN queued
        BY <1>3, <1>4, <3>1, <4>1
      <4>2. CASE e = c /\ key \notin DOMAIN queued
        BY <1>4, <3>1, <3>3, <4>2
      <4>3. CASE e # c
        BY <1>4, <1>10, <3>1, <3>3, <4>3
      <4> QED  BY <4>1, <4>2, <4>3
    <3> QED  BY <1>2, <3>1, <3>2, <3>3, <3>4
  <2>4. FlightSound(e, batch)'
    BY <1>8, <2>2, <2>3 DEF FlightSound, OnePerKey, SentOf
  <2>5. ASSUME NEW key \in DOMAIN pending'[e] PROVE pending'[e][key].n > DeliveredOf(e, key)
    <3>1. DeliveredOf(e, key) < work /\ (key \in DOMAIN pending[e] => pending[e][key].n > DeliveredOf(e, key))
      BY <1>9, <1>10 DEF QueuesSound
    <3>2. CASE e = c /\ key \in DOMAIN queued
      BY <1>3, <1>4, <2>5, <3>1, <3>2
    <3>3. CASE ~(e = c /\ key \in DOMAIN queued)
      BY <1>4, <1>10, <2>5, <3>1, <3>3
    <3> QED  BY <3>2, <3>3
  <2>6. FlightSound(e, BatchOf(e))'
    BY <1>5, <2>1, <2>4 DEF FlightSound, OnePerKey
  <2> QED  BY <1>8, <2>5, <2>6
<1> QED  BY <1>7, <1>10 DEF QueuesSound

(* What a queue hands out is under way.                                     *)
LEMMA FlushIs ==
    ASSUME PassSound, QueuesSound, NEW c \in Queues, NEW events, PlansOnce(c, events), Flushes(c, events)
    PROVE  /\ PassSound' /\ \A e : BatchOf(e) = <<>>
           /\ \A e : BatchOf(e)' = IF e = c /\ Drained(c) # {} THEN events ELSE <<>>
           /\ Drained(c) # {} => \A i \in DOMAIN events : Range(events[i].dispatches) \subseteq Dispatches(c)
<1>1. PICK drained : drained = Drained(c)
  OBVIOUS
<1>2. /\ pass.at # 0 /\ pass.batch = <<>> /\ Channel = c /\ UNCHANGED active
      /\ pass' = IF drained = {} THEN NextStep ELSE [pass EXCEPT !.batch = events]
  BY <1>1 DEF Flushes, Here
<1>3. \A e : BatchOf(e) = <<>>
  BY <1>2, NothingUnderWay
<1>4. CASE drained = {}
  <2>1. PassSound' /\ \A e : BatchOf(e)' = <<>>
    BY <1>2, <1>4, PassCleared DEF NextStep
  <2> QED  BY <1>1, <1>3, <1>4, <2>1
<1>5. CASE drained # {}
  <2>1. events \in Seq([dispatches : Seq(Dispatches(c))])
    BY <1>1, <1>5 DEF PlansOnce
  <2>2. \A i \in DOMAIN events : Range(events[i].dispatches) \subseteq Dispatches(c)
    <3> SUFFICES ASSUME NEW i \in DOMAIN events PROVE Range(events[i].dispatches) \subseteq Dispatches(c)
      OBVIOUS
    <3>0. \A S : events \in Seq(S) => events[i] \in S
      BY ElementOfSeq
    <3>1. events[i].dispatches \in Seq(Dispatches(c))
      <4>1. events[i] \in [dispatches : Seq(Dispatches(c))]
        BY <2>1, <3>0
      <4> QED  BY <4>1
    <3>2. \A n \in DOMAIN events[i].dispatches : events[i].dispatches[n] \in Dispatches(c)
      BY <3>1, ElementOfSeq
    <3> QED  BY <3>2 DEF Range
  <2>3. events \in Seq(PartsOf(Channel))
    <3>1. Dispatches(c) \subseteq SentOf(c)
      BY DEF Dispatches, Drained, QueuesSound, QueueTables
    <3>2. [dispatches : Seq(Dispatches(c))] \subseteq [dispatches : Seq(SentOf(c))]
      BY <3>1
    <3>3. \A S, T : S \subseteq T /\ events \in Seq(S) => events \in Seq(T)
      OBVIOUS
    <3> QED  BY <1>2, <2>1, <3>2, <3>3, QueueParts
  <2>4. pass' = [at |-> pass.at, batch |-> events, planned |-> pass.planned]
    BY <1>2, <1>5, BatchesElsewhere
  <2>5. PassSound' /\ \A e : BatchOf(e)' = IF e = c THEN events ELSE <<>>
    BY <1>2, <2>3, <2>4, PassFilled
  <2> QED  BY <1>1, <1>3, <1>5, <2>2, <2>5
<1> QED  BY <1>4, <1>5

(* Draining hands out dispatches that no other of their key waits behind.   *)
LEMMA FlushKeepsQueues ==
    ASSUME PassSound, QueuesSound, work \in Nat, FlushStep
    PROVE  QueuesSound'
<1>1. PICK c \in Queues : \E events : PlansOnce(c, events) /\ Flushes(c, events)
  BY DEF FlushStep
<1>2. PICK events : PlansOnce(c, events) /\ Flushes(c, events)
  BY <1>1
<1>3. PICK drained : drained = Drained(c)
  OBVIOUS
<1>4. /\ pass.at # 0 /\ pass.batch = <<>> /\ Channel = c
      /\ pending' = [pending EXCEPT ![c] = [k \in DOMAIN @ \ drained |-> @[k]]]
      /\ pass' = IF drained = {} THEN NextStep ELSE [pass EXCEPT !.batch = events]
      /\ UNCHANGED <<active, delivered, work>>
  BY <1>2, <1>3 DEF Flushes, Here
<1>5. /\ DOMAIN pending' = Queues /\ DOMAIN pending'[c] = DOMAIN pending[c] \ drained
      /\ \A key \in DOMAIN pending'[c] : pending'[c][key] = pending[c][key]
      /\ \A e \in Queues \ {c} : pending'[e] = pending[e]
  BY <1>4 DEF QueuesSound, QueueTables
<1>6. QueueTables'
  <2>1. \A S : IsFiniteSet(DOMAIN pending[c]) /\ S \subseteq DOMAIN pending[c] => IsFiniteSet(S)
    BY FS_Subset
  <2>2. IsFiniteSet(DOMAIN pending'[c])
    BY <1>5, <2>1 DEF QueuesSound, QueueTables
  <2>3. ASSUME NEW e \in Queues, NEW key \in DOMAIN pending'[e]
        PROVE  /\ pending'[e][key] \in SentOf(e) /\ KeyOf(e, pending'[e][key]) = key /\ pending'[e][key].n < work
    BY <1>5, <2>3 DEF QueuesSound, QueueTables
  <2> QED  BY <1>4, <1>5, <2>2, <2>3 DEF QueuesSound, QueueTables, SentOf
<1>7. \A e, key : DeliveredOf(e, key)' = DeliveredOf(e, key)
  BY <1>4 DEF DeliveredOf
<1>8. \A e \in Queues : \A key \in DOMAIN pending'[e] : pending'[e][key].n > DeliveredOf(e, key)'
  BY <1>5, <1>7 DEF QueuesSound
<1>9. ASSUME NEW d \in Dispatches(c)
      PROVE  /\ d \in SentOf(c) /\ d.n < work /\ d.n > DeliveredOf(c, KeyOf(c, d)) /\ KeyOf(c, d) \notin DOMAIN pending'[c]
             /\ d = pending[c][KeyOf(c, d)]
  <2>1. PICK k \in drained : d = pending[c][k]
    BY <1>3, <1>9 DEF Dispatches
  <2>2. k \in DOMAIN pending[c]
    BY <1>3, <2>1 DEF Drained
  <2>3. KeyOf(c, d) = k /\ d \in SentOf(c) /\ d.n < work /\ d.n > DeliveredOf(c, k)
    BY <2>1, <2>2 DEF QueuesSound, QueueTables
  <2> QED  BY <1>5, <2>1, <2>3
<1>10. CASE drained = {}
  <2>1. \A e : BatchOf(e)' = <<>>
    BY <1>4, <1>10, PassCleared DEF NextStep
  <2>2. \A e \in Queues : FlightSound(e, BatchOf(e))'
    BY <2>1 DEF FlightSound, OnePerKey
  <2> QED  BY <1>6, <1>8, <2>2 DEF QueuesSound
<1>11. CASE drained # {}
  <2>1. /\ events \in Seq([dispatches : Seq(Dispatches(c))])
        /\ \A i, j \in DOMAIN events : \A d \in Range(events[i].dispatches) \cap Range(events[j].dispatches) : i = j
    BY <1>2, <1>3, <1>11 DEF PlansOnce
  <2>2. \A i \in DOMAIN events : Range(events[i].dispatches) \subseteq Dispatches(c)
    BY <1>2, <1>3, <1>11, FlushIs
  <2>3. \A e : BatchOf(e)' = IF e = c THEN events ELSE <<>>
    BY <1>2, <1>3, <1>11, FlushIs
  <2>4. OnePerKey(c, events)
    <3> SUFFICES ASSUME NEW i \in DOMAIN events, NEW j \in DOMAIN events, NEW d \in Range(events[i].dispatches),
                        NEW e \in Range(events[j].dispatches), KeyOf(c, d) = KeyOf(c, e)
                 PROVE  i = j /\ d = e
      BY DEF OnePerKey
    <3>1. d = pending[c][KeyOf(c, d)] /\ e = pending[c][KeyOf(c, e)]
      BY <1>9, <2>2
    <3> QED  BY <2>1, <3>1
  <2>5. FlightSound(c, events)'
    <3>1. ASSUME NEW i \in DOMAIN events, NEW d \in Range(events[i].dispatches)
          PROVE  /\ d \in SentOf(c) /\ d.n < work /\ d.n > DeliveredOf(c, KeyOf(c, d))
                 /\ KeyOf(c, d) \notin DOMAIN pending'[c]
      BY <1>9, <2>2, <3>1
    <3> QED  BY <1>4, <1>7, <2>4, <3>1 DEF FlightSound, OnePerKey, SentOf
  <2>6. ASSUME NEW e \in Queues PROVE FlightSound(e, BatchOf(e))'
    <3>1. CASE e = c
      BY <2>3, <2>5, <3>1 DEF FlightSound, OnePerKey
    <3>2. CASE e # c
      BY <2>3, <3>2 DEF FlightSound, OnePerKey
    <3> QED  BY <3>1, <3>2
  <2> QED  BY <1>6, <1>8, <2>6 DEF QueuesSound
<1> QED  BY <1>10, <1>11

(* FXServer executes the first event of a batch: each dispatch of it is the *)
(* last executed of its key.                                               *)
LEMMA Executes ==
    ASSUME PassSound, QueuesSound, work \in Nat, Busy(Queues), NEW c, c = Channel,
           delivered' = [delivered EXCEPT ![Channel] = Updated(@, Executed(Head(pass.batch)))]
    PROVE  /\ DOMAIN delivered' = Queues /\ \A e \in Queues \ {c} : delivered'[e] = delivered[e]
           /\ \A e \in Queues : \A key \in DOMAIN delivered'[e] : delivered'[e][key] \in Nat /\ delivered'[e][key] < work
           /\ \A d \in Range(Head(pass.batch).dispatches) : DeliveredOf(c, KeyOf(c, d))' = d.n
           /\ \A key : (\A d \in Range(Head(pass.batch).dispatches) : KeyOf(c, d) # key)
                       => DeliveredOf(c, key)' = DeliveredOf(c, key)
<1> DEFINE first == Range(Head(pass.batch).dispatches)
           keys == {KeyOf(Channel, d) : d \in first}
<1>1. /\ c \in Queues /\ BatchOf(c) = pass.batch /\ pass.batch \in Seq(PartsOf(c)) /\ pass.batch # <<>>
  BY BusyElsewhere
<1>2. FlightSound(c, pass.batch)
  BY <1>1 DEF QueuesSound
<1>3. 1 \in DOMAIN pass.batch /\ Head(pass.batch) = pass.batch[1]
  <2>1. Len(pass.batch) \in Nat \ {0}
    BY <1>1, EmptySeq
  <2> QED  BY <1>1, <2>1
<1>4. \A d \in first : \A e \in first : KeyOf(c, d) = KeyOf(c, e) => d = e
  BY <1>2, <1>3 DEF FlightSound, OnePerKey
<1>5. \A d \in first : d.n \in Nat /\ d.n < work
  <2>1. \A d \in first : d \in SentOf(c) /\ d.n < work
    BY <1>2, <1>3 DEF FlightSound
  <2> QED  BY <2>1 DEF SentOf
<1>6. /\ DOMAIN Executed(Head(pass.batch)) = keys
      /\ \A key \in keys : Executed(Head(pass.batch))[key] = (CHOOSE d \in first : KeyOf(Channel, d) = key).n
  BY DEF Executed
<1> HIDE DEF first
<1>7. \A d \in first : KeyOf(c, d) \in keys /\ Executed(Head(pass.batch))[KeyOf(c, d)] = d.n
  <2> SUFFICES ASSUME NEW d \in first
               PROVE  KeyOf(c, d) \in keys /\ Executed(Head(pass.batch))[KeyOf(c, d)] = d.n
    OBVIOUS
  <2>1. KeyOf(c, d) \in keys
    OBVIOUS
  <2>2. PICK e \in first : e = (CHOOSE x \in first : KeyOf(Channel, x) = KeyOf(c, d)) /\ KeyOf(c, e) = KeyOf(c, d)
    OBVIOUS
  <2>3. e = d
    BY <1>4, <2>2
  <2> HIDE DEF keys
  <2> QED  BY <1>6, <2>1, <2>2, <2>3
<1>8. \A key \in keys : \E d \in first : key = KeyOf(c, d)
  OBVIOUS
<1> HIDE DEF keys
<1>9. /\ DOMAIN delivered' = Queues /\ \A e \in Queues \ {c} : delivered'[e] = delivered[e]
      /\ DOMAIN delivered'[c] = DOMAIN delivered[c] \cup keys
      /\ \A key \in DOMAIN delivered'[c] :
            delivered'[c][key] = IF key \in keys THEN Executed(Head(pass.batch))[key] ELSE delivered[c][key]
  BY <1>1, <1>6 DEF QueuesSound, QueueTables, Updated
<1>10. \A e \in Queues : \A key \in DOMAIN delivered[e] : delivered[e][key] \in Nat /\ delivered[e][key] < work
  BY DEF QueuesSound, QueueTables
<1>11. \A key \in DOMAIN delivered'[c] : delivered'[c][key] \in Nat /\ delivered'[c][key] < work
  BY <1>1, <1>5, <1>7, <1>8, <1>9, <1>10
<1>12. \A e \in Queues : \A key \in DOMAIN delivered'[e] : delivered'[e][key] \in Nat /\ delivered'[e][key] < work
  BY <1>9, <1>10, <1>11
<1>13. \A d \in first : DeliveredOf(c, KeyOf(c, d))' = d.n
  BY <1>7, <1>9 DEF DeliveredOf
<1>14. \A key : (\A d \in first : KeyOf(c, d) # key) => DeliveredOf(c, key)' = DeliveredOf(c, key)
  <2> SUFFICES ASSUME NEW key, \A d \in first : KeyOf(c, d) # key
               PROVE  DeliveredOf(c, key)' = DeliveredOf(c, key)
    OBVIOUS
  <2>1. key \notin keys
    BY <1>8
  <2> QED  BY <1>9, <2>1 DEF DeliveredOf
<1> QED  BY <1>9, <1>12, <1>13, <1>14 DEF first

(* The rest of a batch is of other keys than its first event.               *)
LEMMA RestOfBatch ==
    ASSUME PassSound, QueuesSound, Busy(Queues), NEW c, c = Channel
    PROVE  /\ FlightSound(c, pass.batch) /\ 1 \in DOMAIN pass.batch /\ Head(pass.batch) = pass.batch[1]
           /\ \A i \in DOMAIN Tail(pass.batch) : i + 1 \in DOMAIN pass.batch /\ Tail(pass.batch)[i] = pass.batch[i + 1] /\ i \in Nat \ {0}
           /\ \A i \in DOMAIN pass.batch : i = 1 \/ (i - 1 \in DOMAIN Tail(pass.batch) /\ Tail(pass.batch)[i - 1] = pass.batch[i])
<1>1. PICK batch : batch = pass.batch
  OBVIOUS
<1>2. c \in Queues /\ BatchOf(c) = batch /\ batch \in Seq(PartsOf(c)) /\ batch # <<>>
  BY <1>1, BusyElsewhere
<1>3. FlightSound(c, batch)
  BY <1>2 DEF QueuesSound
<1>4. Len(batch) \in Nat \ {0}
  BY <1>2, EmptySeq
<1>5. /\ DOMAIN Tail(batch) = 1 .. (Len(batch) - 1) /\ DOMAIN batch = 1 .. Len(batch)
      /\ \A i \in 1 .. (Len(batch) - 1) : Tail(batch)[i] = batch[i + 1]
  <2>1. Tail(batch) \in Seq(PartsOf(c)) /\ Len(Tail(batch)) = Len(batch) - 1
        /\ \A i \in 1 .. (Len(batch) - 1) : Tail(batch)[i] = batch[i + 1]
    BY <1>2, HeadTailProperties
  <2> QED  BY <1>2, <2>1
<1>6. 1 \in DOMAIN batch /\ Head(batch) = batch[1]
  BY <1>2, <1>4, <1>5
<1>7. \A i \in DOMAIN Tail(batch) : i + 1 \in DOMAIN batch /\ Tail(batch)[i] = batch[i + 1] /\ i \in Nat \ {0}
  BY <1>4, <1>5
<1>8. \A i \in DOMAIN batch : i = 1 \/ (i - 1 \in DOMAIN Tail(batch) /\ Tail(batch)[i - 1] = batch[i])
  <2> SUFFICES ASSUME NEW i \in DOMAIN batch, i # 1
               PROVE  i - 1 \in DOMAIN Tail(batch) /\ Tail(batch)[i - 1] = batch[i]
    OBVIOUS
  <2>1. i \in Int /\ i - 1 \in 1 .. (Len(batch) - 1)
    BY <1>4, <1>5
  <2>2. (i - 1) + 1 = i
    BY <2>1
  <2> QED  BY <1>5, <2>1, <2>2
<1> QED  BY <1>1, <1>3, <1>6, <1>7, <1>8

LEMMA EmissionKeepsQueues ==
    ASSUME PassSound, QueuesSound, work \in Nat, Busy(Queues), UNCHANGED <<active, pending, work>>,
           delivered' = [delivered EXCEPT ![Channel] = Updated(@, Executed(Head(pass.batch)))],
           pass' = Rest \/ pass' = Between
    PROVE  QueuesSound'
<1>1. PICK c : c = Channel
  OBVIOUS
<1>2. PICK batch : batch = pass.batch
  OBVIOUS
<1> DEFINE first == Range(Head(batch).dispatches)
<1>3. /\ DOMAIN delivered' = Queues /\ \A e \in Queues \ {c} : delivered'[e] = delivered[e]
      /\ \A e \in Queues : \A key \in DOMAIN delivered'[e] : delivered'[e][key] \in Nat /\ delivered'[e][key] < work
      /\ \A d \in first : DeliveredOf(c, KeyOf(c, d))' = d.n
      /\ \A key : (\A d \in first : KeyOf(c, d) # key) => DeliveredOf(c, key)' = DeliveredOf(c, key)
  BY <1>1, <1>2, Executes
<1>4. /\ FlightSound(c, batch) /\ 1 \in DOMAIN batch /\ Head(batch) = batch[1]
      /\ \A i \in DOMAIN Tail(batch) : i + 1 \in DOMAIN batch /\ Tail(batch)[i] = batch[i + 1] /\ i \in Nat \ {0}
  BY <1>1, <1>2, RestOfBatch
<1>5. c \in Queues /\ pass.at # 0 /\ batch # <<>>
  BY <1>1, <1>2 DEF Busy
<1>6. \A e : BatchOf(e)' = <<>> \/ (e = c /\ BatchOf(e)' = Tail(batch))
  BY <1>1, <1>2, <1>5, PassPopped, PassCleared
<1>7. \A d \in first : d.n > DeliveredOf(c, KeyOf(c, d)) /\ (KeyOf(c, d) \in DOMAIN pending[c] => pending[c][KeyOf(c, d)].n > d.n)
  BY <1>4 DEF FlightSound
<1> HIDE DEF first
<1>8. QueueTables'
  BY <1>3 DEF QueuesSound, QueueTables, SentOf
<1>9. ASSUME NEW e \in Queues, NEW key \in DOMAIN pending[e]
      PROVE  pending[e][key].n > DeliveredOf(e, key)'
  <2>1. pending[e][key].n > DeliveredOf(e, key)
    BY <1>9 DEF QueuesSound
  <2>2. CASE e # c
    <3>1. DeliveredOf(e, key)' = DeliveredOf(e, key)
      BY <1>3, <1>9, <2>2 DEF DeliveredOf
    <3> QED  BY <2>1, <3>1
  <2>3. CASE e = c /\ \A d \in first : KeyOf(c, d) # key
    <3>1. DeliveredOf(c, key)' = DeliveredOf(c, key)
      BY <1>3, <2>3
    <3>2. DeliveredOf(e, key)' = DeliveredOf(e, key)
      BY <2>3, <3>1
    <3> QED  BY <2>1, <3>2
  <2>4. CASE e = c /\ \E d \in first : KeyOf(c, d) = key
    <3>1. PICK d \in first : KeyOf(c, d) = key
      BY <2>4
    <3>2. DeliveredOf(c, key)' = d.n /\ pending[c][key].n > d.n
      BY <1>3, <1>7, <1>9, <2>4, <3>1
    <3> QED  BY <2>4, <3>2
  <2> QED  BY <2>2, <2>3, <2>4
<1>10. FlightSound(c, Tail(batch))'
  <2>1. ASSUME NEW i \in DOMAIN Tail(batch), NEW d \in Range(Tail(batch)[i].dispatches)
        PROVE  /\ d \in SentOf(c) /\ d.n < work /\ d.n > DeliveredOf(c, KeyOf(c, d))'
               /\ KeyOf(c, d) \in DOMAIN pending[c] => pending[c][KeyOf(c, d)].n > d.n
    <3>1. i + 1 \in DOMAIN batch /\ Tail(batch)[i] = batch[i + 1] /\ i + 1 # 1
      BY <1>4, <2>1
    <3>2. /\ d \in SentOf(c) /\ d.n < work /\ d.n > DeliveredOf(c, KeyOf(c, d))
          /\ KeyOf(c, d) \in DOMAIN pending[c] => pending[c][KeyOf(c, d)].n > d.n
      BY <1>4, <2>1, <3>1 DEF FlightSound
    <3>3. \A e \in first : KeyOf(c, e) # KeyOf(c, d)
      BY <1>4, <2>1, <3>1 DEF FlightSound, OnePerKey, first
    <3>4. PICK key : key = KeyOf(c, d)
      OBVIOUS
    <3>5. DeliveredOf(c, key)' = DeliveredOf(c, key)
      BY <1>3, <3>3, <3>4
    <3> QED  BY <3>2, <3>4, <3>5
  <2>2. OnePerKey(c, Tail(batch))
    <3> SUFFICES ASSUME NEW i \in DOMAIN Tail(batch), NEW j \in DOMAIN Tail(batch),
                        NEW d \in Range(Tail(batch)[i].dispatches), NEW e \in Range(Tail(batch)[j].dispatches),
                        KeyOf(c, d) = KeyOf(c, e)
                 PROVE  i = j /\ d = e
      BY DEF OnePerKey
    <3>1. i + 1 \in DOMAIN batch /\ Tail(batch)[i] = batch[i + 1] /\ j + 1 \in DOMAIN batch /\ Tail(batch)[j] = batch[j + 1]
      BY <1>4
    <3>2. i + 1 = j + 1 /\ d = e
      BY <1>4, <3>1 DEF FlightSound, OnePerKey
    <3> QED  BY <1>4, <3>2
  <2> QED  BY <2>1, <2>2 DEF FlightSound, OnePerKey, SentOf
<1>11. ASSUME NEW e \in Queues PROVE FlightSound(e, BatchOf(e))'
  <2>1. CASE BatchOf(e)' = <<>>
    BY <2>1 DEF FlightSound, OnePerKey
  <2>2. CASE e = c /\ BatchOf(e)' = Tail(batch)
    BY <1>10, <2>2 DEF FlightSound, OnePerKey
  <2> QED  BY <1>6, <2>1, <2>2
<1>12. \A e \in Queues : \A key \in DOMAIN pending'[e] : pending'[e][key].n > DeliveredOf(e, key)'
  BY <1>9
<1> QED  BY <1>8, <1>11, <1>12 DEF QueuesSound

LEMMA ServiceRestartKeepsQueues ==
    ASSUME PassSound, QueuesSound, work \in Nat, ServiceRestarts
    PROVE  QueuesSound'
<1>1. /\ pending' = [c \in Queues |-> <<>>] /\ UNCHANGED <<active, delivered, work>> /\ pass' = Between
  BY DEF ServiceRestarts, Faulty
<1>2. \A c : BatchOf(c)' = <<>>
  BY <1>1, PassCleared
<1>3. DOMAIN pending' = Queues /\ \A c \in Queues : DOMAIN pending'[c] = {} /\ IsFiniteSet(DOMAIN pending'[c])
  BY <1>1, FS_EmptySet
<1>4. QueueTables'
  BY <1>1, <1>3 DEF QueuesSound, QueueTables
<1>5. \A c \in Queues : FlightSound(c, BatchOf(c))'
  BY <1>2 DEF FlightSound, OnePerKey
<1> QED  BY <1>3, <1>4, <1>5 DEF QueuesSound

-----------------------------------------------------------------------------
(***************************************************************************)
(* The drains.                                                             *)
(***************************************************************************)
(* An update joins the line, a line is fetched, its first update is stored. *)
LEMMA LineJoined ==
    ASSUME NEW c \in Drains, NEW batch \in Seq(UpdatesOf(c)), NEW queue \in Seq(UpdatesOf(c)), NEW last \in Int,
           NEW now \in Nat, NEW update \in UpdatesOf(c), update.n = now, last < now, LineSound(batch, queue, last, now)
    PROVE  LineSound(batch, Append(queue, update), last, now + 1)
<1> DEFINE longer == Append(queue, update)
<1>1. /\ longer \in Seq(UpdatesOf(c)) /\ DOMAIN longer = 1 .. (Len(queue) + 1) /\ DOMAIN queue = 1 .. Len(queue)
      /\ Len(queue) \in Nat /\ longer[Len(queue) + 1] = update /\ \A i \in DOMAIN queue : longer[i] = queue[i]
  BY AppendProperties
<1>2. \A j \in DOMAIN queue : queue[j].n \in Nat /\ queue[j].n > last /\ queue[j].n < now
  BY UpdatesNumbered DEF LineSound
<1>3. \A i \in DOMAIN batch : batch[i].n \in Nat /\ batch[i].n > last /\ batch[i].n < now
  BY UpdatesNumbered DEF LineSound
<1> HIDE DEF longer
<1>4. \A j \in DOMAIN longer : (j \in DOMAIN queue /\ longer[j] = queue[j]) \/ (j = Len(queue) + 1 /\ longer[j] = update)
  BY <1>1
<1>5. Rising(longer)
  <2> SUFFICES ASSUME NEW i \in DOMAIN longer, NEW j \in DOMAIN longer, i < j
               PROVE  longer[i].n < longer[j].n
    BY DEF Rising
  <2>1. i \in DOMAIN queue /\ longer[i] = queue[i]
    BY <1>1, <1>4
  <2>2. CASE j \in DOMAIN queue /\ longer[j] = queue[j]
    BY <2>1, <2>2 DEF LineSound, Rising
  <2>3. CASE j = Len(queue) + 1 /\ longer[j] = update
    BY <1>2, <2>1, <2>3
  <2> QED  BY <1>4, <2>2, <2>3
<1>6. \A j \in DOMAIN longer : longer[j].n > last /\ longer[j].n < now + 1
  BY <1>2, <1>4
<1>7. \A i \in DOMAIN batch, j \in DOMAIN longer : batch[i].n < longer[j].n
  BY <1>3, <1>4 DEF LineSound
<1>8. \A i \in DOMAIN batch : batch[i].n > last /\ batch[i].n < now + 1
  BY <1>3
<1> QED  BY <1>5, <1>6, <1>7, <1>8 DEF LineSound, longer

LEMMA LineFetched ==
    ASSUME NEW queue, NEW last, NEW now, LineSound(<<>>, queue, last, now)
    PROVE  LineSound(queue, <<>>, last, now)
BY DEF LineSound, Rising

LEMMA LineDropped ==
    ASSUME NEW batch, NEW queue, NEW last, NEW now, LineSound(batch, queue, last, now)
    PROVE  LineSound(<<>>, queue, last, now) /\ LineSound(batch, <<>>, last, now)
BY DEF LineSound, Rising

LEMMA TailOfLine ==
    ASSUME NEW S, NEW line \in Seq(S), line # <<>>
    PROVE  /\ Tail(line) \in Seq(S) /\ Head(line) = line[1] /\ 1 \in DOMAIN line /\ Head(line) \in S
           /\ Len(line) \in Nat \ {0} /\ Len(Tail(line)) = Len(line) - 1
           /\ \A i \in DOMAIN Tail(line) : i \in Nat \ {0} /\ i + 1 \in DOMAIN line /\ Tail(line)[i] = line[i + 1]
<1>1. Len(line) \in Nat \ {0} /\ DOMAIN line = 1 .. Len(line)
  BY EmptySeq
<1>2. /\ Tail(line) \in Seq(S) /\ Len(Tail(line)) = Len(line) - 1
      /\ \A i \in 1 .. (Len(line) - 1) : Tail(line)[i] = line[i + 1]
  BY HeadTailProperties
<1>3. DOMAIN Tail(line) = 1 .. (Len(line) - 1)
  BY <1>2
<1>4. \A i \in DOMAIN Tail(line) : i \in Nat \ {0} /\ i + 1 \in DOMAIN line /\ Tail(line)[i] = line[i + 1]
  BY <1>1, <1>2, <1>3
<1>5. Head(line) = line[1] /\ 1 \in DOMAIN line
  BY <1>1
<1>6. Head(line) \in S
  BY <1>1, <1>5, ElementOfSeq
<1> QED  BY <1>1, <1>2, <1>4, <1>5, <1>6

LEMMA LineStored ==
    ASSUME NEW c \in Drains, NEW batch \in Seq(UpdatesOf(c)), batch # <<>>, NEW queue \in Seq(UpdatesOf(c)),
           NEW last \in Int, NEW now \in Nat, LineSound(batch, queue, last, now)
    PROVE  LineSound(Tail(batch), queue, Head(batch).n, now)
<1>1. /\ Head(batch) = batch[1] /\ 1 \in DOMAIN batch
      /\ \A i \in DOMAIN Tail(batch) : i \in Nat \ {0} /\ i + 1 \in DOMAIN batch /\ Tail(batch)[i] = batch[i + 1]
  BY TailOfLine
<1>2. Rising(Tail(batch))
  BY <1>1 DEF LineSound, Rising
<1>3. \A i \in DOMAIN Tail(batch) : Tail(batch)[i].n > batch[1].n
  <2> SUFFICES ASSUME NEW i \in DOMAIN Tail(batch) PROVE Tail(batch)[i].n > batch[1].n
    OBVIOUS
  <2>1. i + 1 \in DOMAIN batch /\ 1 < i + 1 /\ Tail(batch)[i] = batch[i + 1]
    BY <1>1
  <2>2. batch[1].n < batch[i + 1].n
    BY <1>1, <2>1 DEF LineSound, Rising
  <2>3. batch[1].n \in Nat /\ batch[i + 1].n \in Nat
    BY <1>1, <2>1, UpdatesNumbered
  <2> QED  BY <2>1, <2>2, <2>3
<1>4. \A i \in DOMAIN Tail(batch) : Tail(batch)[i].n < now
  BY <1>1 DEF LineSound
<1>5. \A j \in DOMAIN queue : queue[j].n > batch[1].n /\ queue[j].n < now
  <2>1. \A j \in DOMAIN queue : queue[j].n \in Nat
    BY UpdatesNumbered
  <2>2. batch[1].n \in Nat
    BY <1>1, UpdatesNumbered
  <2> QED  BY <1>1, <2>1, <2>2 DEF LineSound
<1>6. \A i \in DOMAIN Tail(batch), j \in DOMAIN queue : Tail(batch)[i].n < queue[j].n
  BY <1>1 DEF LineSound
<1> QED  BY <1>1, <1>2, <1>3, <1>4, <1>5, <1>6 DEF LineSound

(* Changes of money, one after another.                                     *)
LEMMA BalanceIsNat ==
    ASSUME NEW before \in Nat, NEW update, update.operation \in {"add", "remove", "set"}, update.amount \in Nat
    PROVE  Balance(before, update) \in Nat
<1>1. CASE update.operation = "add"
  BY <1>1 DEF Balance
<1>2. CASE update.operation = "remove"
  <2>1. update.amount > before \/ before - update.amount \in Nat
    OBVIOUS
  <2> QED  BY <1>2, <2>1 DEF Balance
<1>3. CASE update.operation = "set"
  BY <1>3 DEF Balance
<1> QED  BY <1>1, <1>2, <1>3

LEMMA LeadsNowhere ==
    /\ \A x \in Nat : Leads(<<>>, x, x)
    /\ \A x, y : Leads(<<>>, x, y) => x = y /\ x \in Nat
<1>1. ASSUME NEW x \in Nat PROVE Leads(<<>>, x, x)
  <2>1. [i \in 0 .. 0 |-> x] \in [0 .. 0 -> Nat] /\ [i \in 0 .. 0 |-> x][0] = x
    OBVIOUS
  <2>2. Len(<<>>) = 0 /\ 1 .. 0 = {}
    OBVIOUS
  <2> QED  BY <2>1, <2>2 DEF Leads
<1>2. ASSUME NEW x, NEW y, Leads(<<>>, x, y) PROVE x = y /\ x \in Nat
  <2>1. PICK f : f \in [0 .. Len(<<>>) -> Nat] /\ f[0] = x /\ f[Len(<<>>)] = y
    BY <1>2 DEF Leads
  <2>2. Len(<<>>) = 0
    OBVIOUS
  <2> QED  BY <2>1, <2>2
<1> QED  BY <1>1, <1>2

LEMMA LeadsOn ==
    ASSUME NEW S, NEW line \in Seq(S), NEW update \in S, NEW x, NEW y, Leads(line, x, y), Balance(y, update) \in Nat
    PROVE  Leads(Append(line, update), x, Balance(y, update))
<1>1. PICK f : /\ f \in [0 .. Len(line) -> Nat]
               /\ f[0] = x /\ f[Len(line)] = y
               /\ \A i \in 1 .. Len(line) : f[i] = Balance(f[i - 1], line[i])
  BY DEF Leads
<1>2. PICK n \in Nat : n = Len(line)
  OBVIOUS
<1>3. PICK longer : longer = Append(line, update)
  OBVIOUS
<1>4. Len(longer) = n + 1 /\ longer[n + 1] = update /\ \A i \in 1 .. n : longer[i] = line[i]
  BY <1>2, <1>3, AppendProperties
<1> DEFINE g == [i \in 0 .. n + 1 |-> IF i = n + 1 THEN Balance(y, update) ELSE f[i]]
<1>5. g \in [0 .. n + 1 -> Nat] /\ g[0] = x /\ g[n + 1] = Balance(y, update) /\ \A i \in 0 .. n : g[i] = f[i]
  BY <1>1, <1>2
<1> HIDE DEF g
<1>6. ASSUME NEW i \in 1 .. (n + 1) PROVE g[i] = Balance(g[i - 1], longer[i])
  <2>1. i - 1 \in 0 .. n /\ g[i - 1] = f[i - 1]
    BY <1>5
  <2>2. CASE i = n + 1
    <3>1. g[i - 1] = y
      BY <1>1, <1>2, <2>1, <2>2
    <3> QED  BY <1>4, <1>5, <2>2, <3>1
  <2>3. CASE i # n + 1
    <3>1. i \in 1 .. n
      BY <2>3
    <3>2. g[i] = f[i] /\ f[i] = Balance(f[i - 1], line[i]) /\ longer[i] = line[i]
      BY <1>1, <1>2, <1>4, <1>5, <3>1
    <3> QED  BY <2>1, <3>2
  <2> QED  BY <2>2, <2>3
<1> QED  BY <1>3, <1>4, <1>5, <1>6 DEF Leads

LEMMA LeadsBack ==
    ASSUME NEW S, NEW line \in Seq(S), line # <<>>, NEW x, NEW y, Leads(line, x, y)
    PROVE  Leads(Tail(line), Balance(x, Head(line)), y)
<1>1. PICK f : /\ f \in [0 .. Len(line) -> Nat]
               /\ f[0] = x /\ f[Len(line)] = y
               /\ \A i \in 1 .. Len(line) : f[i] = Balance(f[i - 1], line[i])
  BY DEF Leads
<1>2. PICK rest : rest = Tail(line)
  OBVIOUS
<1>3. PICK n \in Nat : n = Len(line) - 1
  BY TailOfLine
<1>4. Len(line) = n + 1 /\ Len(rest) = n /\ Head(line) = line[1]
  BY <1>2, <1>3, TailOfLine
<1>5. \A i \in 1 .. n : rest[i] = line[i + 1]
  <2>1. \A i \in 1 .. (Len(line) - 1) : Tail(line)[i] = line[i + 1]
    BY HeadTailProperties
  <2> QED  BY <1>2, <1>3, <2>1
<1> DEFINE g == [i \in 0 .. n |-> f[i + 1]]
<1>6. g \in [0 .. n -> Nat] /\ g[0] = f[1] /\ g[n] = y
  BY <1>1, <1>4
<1>7. f[1] = Balance(x, Head(line))
  <2>1. 1 \in 1 .. Len(line) /\ 1 - 1 = 0
    BY <1>4
  <2>2. f[1] = Balance(f[1 - 1], line[1])
    BY <1>1, <2>1
  <2> QED  BY <1>1, <1>4, <2>1, <2>2
<1>8. ASSUME NEW i \in 1 .. n PROVE g[i] = Balance(g[i - 1], rest[i])
  <2>1. i + 1 \in 1 .. Len(line) /\ (i + 1) - 1 = i /\ i - 1 \in 0 .. n /\ (i - 1) + 1 = i
    BY <1>4
  <2>2. g[i] = f[i + 1] /\ g[i - 1] = f[i]
    BY <2>1
  <2>3. f[i + 1] = Balance(f[(i + 1) - 1], line[i + 1])
    BY <1>1, <2>1
  <2> QED  BY <1>5, <2>1, <2>2, <2>3
<1> HIDE DEF g
<1>9. /\ g \in [0 .. Len(rest) -> Nat] /\ g[0] = Balance(x, Head(line)) /\ g[Len(rest)] = y
      /\ \A i \in 1 .. Len(rest) : g[i] = Balance(g[i - 1], rest[i])
  BY <1>4, <1>6, <1>7, <1>8
<1>10. Leads(rest, Balance(x, Head(line)), y)
  BY <1>9 DEF Leads
<1> QED  BY <1>2, <1>10

LEMMA ShowsOn ==
    ASSUME NEW S, NEW line \in Seq(S), NEW update \in S, NEW data
    PROVE  Shows(Append(line, update), data) = update.data
<1>1. /\ Len(Append(line, update)) = Len(line) + 1 /\ Append(line, update)[Len(line) + 1] = update
      /\ Len(line) \in Nat /\ Append(line, update) \in Seq(S)
  BY AppendProperties
<1>2. Append(line, update) # <<>>
  BY <1>1, EmptySeq
<1> QED  BY <1>1, <1>2 DEF Shows

LEMMA ShowsBack ==
    ASSUME NEW S, NEW line \in Seq(S), line # <<>>, NEW data
    PROVE  Shows(line, data) = Shows(Tail(line), Head(line).data)
<1>1. /\ Tail(line) \in Seq(S) /\ Head(line) = line[1] /\ Len(line) \in Nat \ {0} /\ Len(Tail(line)) = Len(line) - 1
  BY TailOfLine
<1>4. Tail(line) = <<>> <=> Len(Tail(line)) = 0
  <2>1. \A rest \in Seq(S) : rest = <<>> <=> Len(rest) = 0
    BY EmptySeq
  <2> QED  BY <1>1, <2>1
<1>2. CASE Len(line) = 1
  <2>1. Tail(line) = <<>>
    BY <1>1, <1>2, <1>4
  <2> QED  BY <1>1, <1>2, <2>1 DEF Shows
<1>3. CASE Len(line) # 1
  <2>1. Tail(line) # <<>>
    BY <1>1, <1>3, <1>4
  <2>2. Tail(line)[Len(line) - 1] = line[(Len(line) - 1) + 1]
    <3>1. \A i \in 1 .. (Len(line) - 1) : Tail(line)[i] = line[i + 1]
      BY HeadTailProperties
    <3>2. Len(line) - 1 \in 1 .. (Len(line) - 1)
      BY <1>1, <1>3
    <3> QED  BY <3>1, <3>2
  <2>3. (Len(line) - 1) + 1 = Len(line)
    BY <1>1
  <2> QED  BY <1>1, <2>1, <2>2, <2>3 DEF Shows
<1> QED  BY <1>2, <1>3

LEMMA LinesAre ==
    ASSUME PassSound, DrainsSound, NEW c \in Drains
    PROVE  /\ BatchOf(c) \in Seq(UpdatesOf(c)) /\ gameQueue[c] \in Seq(UpdatesOf(c)) /\ stored[c] \in Int /\ stored[c] < work
           /\ LineSound(BatchOf(c), gameQueue[c], stored[c], work)
BY BatchTyped, DrainParts DEF DrainsSound, DrainTables, LinesSound

(* The game produces an update.                                             *)
LEMMA ProducedLines ==
    ASSUME PassSound, DrainsSound, work \in Nat, NEW c \in Drains, NEW update \in UpdatesOf(c), update.n = work, Produce(c, update)
    PROVE  /\ DrainTables' /\ LinesSound' /\ UNCHANGED <<db, cache, excuses>>
           /\ gameQueue'[c] = Append(gameQueue[c], update) /\ \A e \in Drains \ {c} : gameQueue'[e] = gameQueue[e]
           /\ \A e : BatchOf(e)' = BatchOf(e)
<1>1. /\ gameQueue' = [gameQueue EXCEPT ![c] = Append(@, update)] /\ work' = work + 1
      /\ UNCHANGED <<active, pass, db, cache, stored, excuses>>
  BY DEF Produce, Working
<1>2. \A e : BatchOf(e)' = BatchOf(e)
  BY <1>1, PassKept
<1>3. /\ DOMAIN gameQueue' = Drains /\ gameQueue'[c] = Append(gameQueue[c], update)
      /\ \A e \in Drains \ {c} : gameQueue'[e] = gameQueue[e]
  BY <1>1 DEF DrainsSound, DrainTables
<1>4. gameQueue'[c] \in Seq(UpdatesOf(c))
  BY <1>3, LinesAre, AppendProperties
<1>5. \A n \in Int : n < work => n < work'
  BY <1>1
<1>6. DrainTables'
  BY <1>1, <1>3, <1>4, <1>5 DEF DrainsSound, DrainTables, UpdatesOf
<1>7. ASSUME NEW e \in Drains PROVE LineSound(BatchOf(e), gameQueue[e], stored[e], work)'
  <2>1. PICK batch : batch = BatchOf(e)
    OBVIOUS
  <2>2. PICK queue : queue = gameQueue[e]
    OBVIOUS
  <2>3. /\ batch \in Seq(UpdatesOf(e)) /\ queue \in Seq(UpdatesOf(e)) /\ stored[e] \in Int /\ stored[e] < work
        /\ LineSound(batch, queue, stored[e], work)
    BY <1>7, <2>1, <2>2, LinesAre
  <2>4. CASE e = c
    <3>1. LineSound(batch, Append(queue, update), stored[e], work + 1)
      BY <2>3, <2>4, LineJoined
    <3> QED  BY <1>1, <1>2, <1>3, <2>1, <2>2, <2>4, <3>1
  <2>5. CASE e # c
    <3>1. LineSound(batch, queue, stored[e], work + 1)
      <4>1. \A n \in Nat : n < work => n < work + 1
        OBVIOUS
      <4>2. /\ \A i \in DOMAIN batch : batch[i].n \in Nat
            /\ \A j \in DOMAIN queue : queue[j].n \in Nat
        BY <1>7, <2>3, UpdatesNumbered
      <4> QED  BY <2>3, <4>1, <4>2 DEF LineSound
    <3> QED  BY <1>1, <1>2, <1>3, <1>7, <2>1, <2>2, <2>5, <3>1
  <2> QED  BY <2>4, <2>5
<1>8. LinesSound'
  BY <1>7 DEF LinesSound
<1> QED  BY <1>1, <1>2, <1>3, <1>6, <1>8

LEMMA GameKeepsDrains ==
    ASSUME PassSound, DrainsSound, work \in Nat, GameStep
    PROVE  DrainsSound'
<1>1. ASSUME NEW update \in MoneyInputs, GameChangesMoney(update)
      PROVE  DrainsSound'
  <2> DEFINE sent == [operation |-> update.operation, amount |-> update.amount,
                      place |-> Len(gameQueue["qbMoneyUpdates"]) + 1, n |-> work]
  <2>1. update.operation \in {"add", "remove", "set"} /\ update.amount \in Nat
    BY SyncAssumption
  <2>2. sent \in UpdatesOf("qbMoneyUpdates") /\ sent.n = work /\ sent.operation = update.operation /\ sent.amount = update.amount
    <3>1. Len(gameQueue["qbMoneyUpdates"]) + 1 \in Nat
      BY ChannelsApart, LinesAre
    <3> QED  BY <2>1, <3>1 DEF UpdatesOf
  <2>3. Produce("qbMoneyUpdates", sent) /\ gameView' = [gameView EXCEPT !.balance = Balance(@, update)]
    BY <1>1 DEF GameChangesMoney
  <2> HIDE DEF sent
  <2>4. /\ DrainTables' /\ LinesSound' /\ UNCHANGED <<db, cache, excuses>>
        /\ gameQueue'["qbMoneyUpdates"] = Append(gameQueue["qbMoneyUpdates"], sent)
        /\ \A e \in Drains \ {"qbMoneyUpdates"} : gameQueue'[e] = gameQueue[e]
        /\ \A e : BatchOf(e)' = BatchOf(e)
    BY <2>2, <2>3, ChannelsApart, ProducedLines
  <2>5. gameView.balance \in Nat /\ gameView.data \in Nat
    BY DEF DrainsSound, CharactersKnown, Characters
  <2>6. Balance(gameView.balance, update) \in Nat /\ Balance(gameView.balance, update) = Balance(gameView.balance, sent)
    <3>1. Balance(gameView.balance, update) = Balance(gameView.balance, sent)
      BY <2>2 DEF Balance
    <3> QED  BY <2>1, <2>5, <3>1, BalanceIsNat
  <2>7. gameView' \in Characters /\ gameView'.balance = Balance(gameView.balance, sent) /\ gameView'.data = gameView.data
    BY <2>3, <2>6 DEF DrainsSound, CharactersKnown, Characters
  <2>8. CharactersKnown'
    BY <2>4, <2>7 DEF DrainsSound, CharactersKnown, Characters
  <2>9. ASSUME excuses' = {} PROVE MoneyAgrees' /\ DataAgrees'
    <3>1. MoneyAgrees /\ DataAgrees
      BY <2>4, <2>9 DEF DrainsSound
    <3>2. PICK x \in Nat : Leads(BatchOf("qbMoneyUpdates"), db.balance, x) /\ Leads(gameQueue["qbMoneyUpdates"], x, gameView.balance)
      BY <3>1 DEF MoneyAgrees
    <3>3. gameQueue["qbMoneyUpdates"] \in Seq(UpdatesOf("qbMoneyUpdates"))
      BY ChannelsApart, LinesAre
    <3>4. Leads(Append(gameQueue["qbMoneyUpdates"], sent), x, Balance(gameView.balance, sent))
      BY <2>2, <2>6, <3>2, <3>3, LeadsOn
    <3>5. MoneyAgrees'
      BY <2>4, <2>7, <3>2, <3>4 DEF MoneyAgrees
    <3>6. DataAgrees'
      BY <2>4, <2>7, <3>1, ChannelsApart DEF DataAgrees
    <3> QED  BY <3>5, <3>6
  <2> QED  BY <2>4, <2>8, <2>9 DEF DrainsSound
<1>2. ASSUME NEW c \in {"qbInventoryUpdates", "qbCharacterSelections"}, Produce(c, [n |-> work]), UNCHANGED gameView
      PROVE  DrainsSound'
  <2> DEFINE sent == [n |-> work]
  <2>1. sent \in UpdatesOf(c) /\ sent.n = work /\ c \in Drains /\ c # "qbMoneyUpdates" /\ c # "qbCharacterUpdates"
    BY ChannelsApart DEF UpdatesOf
  <2>2. Produce(c, sent)
    BY <1>2
  <2> HIDE DEF sent
  <2>3. /\ DrainTables' /\ LinesSound' /\ UNCHANGED <<db, cache, excuses>>
        /\ \A e \in Drains \ {c} : gameQueue'[e] = gameQueue[e]
        /\ \A e : BatchOf(e)' = BatchOf(e)
    BY <2>1, <2>2, ProducedLines
  <2>4. CharactersKnown'
    BY <1>2, <2>3 DEF DrainsSound, CharactersKnown, Characters
  <2>5. (MoneyAgrees /\ DataAgrees) => (MoneyAgrees' /\ DataAgrees')
    BY <1>2, <2>1, <2>3, ChannelsApart DEF MoneyAgrees, DataAgrees
  <2> QED  BY <2>3, <2>4, <2>5 DEF DrainsSound
<1>3. ASSUME GameSavesCharacter PROVE DrainsSound'
  <2> DEFINE sent == [data |-> work + 1, n |-> work]
  <2>1. sent \in UpdatesOf("qbCharacterUpdates") /\ sent.n = work /\ sent.data = work + 1
    BY DEF UpdatesOf
  <2>2. Produce("qbCharacterUpdates", sent) /\ gameView' = [gameView EXCEPT !.data = work + 1]
    BY <1>3 DEF GameSavesCharacter
  <2> HIDE DEF sent
  <2>3. /\ DrainTables' /\ LinesSound' /\ UNCHANGED <<db, cache, excuses>>
        /\ gameQueue'["qbCharacterUpdates"] = Append(gameQueue["qbCharacterUpdates"], sent)
        /\ \A e \in Drains \ {"qbCharacterUpdates"} : gameQueue'[e] = gameQueue[e]
        /\ \A e : BatchOf(e)' = BatchOf(e)
    BY <2>1, <2>2, ChannelsApart, ProducedLines
  <2>4. gameView' \in Characters /\ gameView'.balance = gameView.balance /\ gameView'.data = work + 1
    BY <2>2 DEF DrainsSound, CharactersKnown, Characters
  <2>5. CharactersKnown'
    BY <2>3, <2>4 DEF DrainsSound, CharactersKnown, Characters
  <2>6. MoneyAgrees => MoneyAgrees'
    BY <2>3, <2>4, ChannelsApart DEF MoneyAgrees
  <2>7. DataAgrees'
    <3>1. gameQueue["qbCharacterUpdates"] \in Seq(UpdatesOf("qbCharacterUpdates"))
      BY ChannelsApart, LinesAre
    <3>2. \A data : Shows(Append(gameQueue["qbCharacterUpdates"], sent), data) = work + 1
      BY <2>1, <3>1, ShowsOn
    <3> QED  BY <2>3, <2>4, <3>2 DEF DataAgrees
  <2> QED  BY <2>3, <2>5, <2>6, <2>7 DEF DrainsSound
<1> QED  BY <1>1, <1>2, <1>3 DEF GameStep, GameChangesItems, GameSelectsCharacter

LEMMA CacheKeepsDrains ==
    ASSUME PassSound, DrainsSound, work \in Nat, CacheCatchesUp
    PROVE  DrainsSound'
<1>1. cache' = db /\ UNCHANGED <<active, pass, gameQueue, gameView, db, stored, excuses, work>>
  BY DEF CacheCatchesUp
<1>2. \A c : BatchOf(c)' = BatchOf(c)
  BY <1>1, PassKept
<1>3. DrainTables' /\ CharactersKnown' /\ LinesSound'
  BY <1>1, <1>2 DEF DrainsSound, DrainTables, CharactersKnown, Characters, LinesSound, UpdatesOf
<1>4. (MoneyAgrees /\ DataAgrees) => (MoneyAgrees' /\ DataAgrees')
  BY <1>1, <1>2 DEF MoneyAgrees, DataAgrees
<1> QED  BY <1>1, <1>3, <1>4 DEF DrainsSound

(* What the export hands out is under way, in the order it waited.          *)
LEMMA FetchKeepsDrains ==
    ASSUME PassSound, DrainsSound, work \in Nat, FetchStep
    PROVE  DrainsSound'
<1>1. PICK c \in Drains : Fetches(c)
  BY DEF FetchStep
<1>2. PICK queue : queue = gameQueue[c]
  OBVIOUS
<1>3. /\ pass.at # 0 /\ pass.batch = <<>> /\ Channel = c
      /\ gameQueue' = [gameQueue EXCEPT ![c] = <<>>]
      /\ pass' = IF queue = <<>> THEN NextStep ELSE [pass EXCEPT !.batch = queue]
      /\ UNCHANGED <<active, gameView, db, cache, stored, excuses, work>>
  BY <1>1, <1>2 DEF Fetches, Here
<1>4. /\ DOMAIN gameQueue' = Drains /\ gameQueue'[c] = <<>> /\ \A e \in Drains \ {c} : gameQueue'[e] = gameQueue[e]
  BY <1>3 DEF DrainsSound, DrainTables
<1>5. \A e : BatchOf(e) = <<>>
  BY <1>3, NothingUnderWay
<1>6. \A e : BatchOf(e)' = IF e = c THEN queue ELSE <<>>
  <2>1. CASE queue = <<>>
    BY <1>3, <2>1, PassCleared DEF NextStep
  <2>2. CASE queue # <<>>
    <3>1. queue \in Seq(PartsOf(Channel))
      BY <1>2, <1>3, LinesAre, DrainParts
    <3>2. pass' = [at |-> pass.at, batch |-> queue, planned |-> pass.planned]
      BY <1>3, <2>2, BatchesElsewhere
    <3> QED  BY <1>3, <3>1, <3>2, PassFilled
  <2> QED  BY <2>1, <2>2
<1>7. DrainTables' /\ CharactersKnown'
  <2>1. \A S : <<>> \in Seq(S)
    OBVIOUS
  <2>2. \A e \in Drains : gameQueue'[e] \in Seq(UpdatesOf(e))
    BY <1>4, <2>1 DEF DrainsSound, DrainTables
  <2> QED  BY <1>3, <1>4, <2>2 DEF DrainsSound, DrainTables, CharactersKnown, Characters, UpdatesOf
<1>8. ASSUME NEW e \in Drains PROVE LineSound(BatchOf(e), gameQueue[e], stored[e], work)'
  <2>1. LineSound(<<>>, gameQueue[e], stored[e], work)
    BY <1>5, <1>8, LinesAre
  <2>2. CASE e = c
    BY <1>2, <1>3, <1>4, <1>6, <2>1, <2>2, LineFetched
  <2>3. CASE e # c
    BY <1>3, <1>4, <1>6, <1>8, <2>1, <2>3
  <2> QED  BY <2>2, <2>3
<1>9. ASSUME MoneyAgrees PROVE MoneyAgrees'
  <2>1. CASE c = "qbMoneyUpdates"
    <3>1. PICK x \in Nat : Leads(<<>>, db.balance, x) /\ Leads(queue, x, gameView.balance)
      BY <1>2, <1>5, <1>9, <2>1 DEF MoneyAgrees
    <3>2. x = db.balance /\ gameView.balance \in Nat
      BY <3>1, LeadsNowhere DEF DrainsSound, CharactersKnown, Characters
    <3>3. Leads(queue, db.balance, gameView.balance) /\ Leads(<<>>, gameView.balance, gameView.balance)
      BY <3>1, <3>2, LeadsNowhere
    <3> QED  BY <1>3, <1>4, <1>6, <2>1, <3>2, <3>3 DEF MoneyAgrees
  <2>2. CASE c # "qbMoneyUpdates"
    BY <1>3, <1>4, <1>5, <1>6, <1>9, <2>2, ChannelsApart DEF MoneyAgrees
  <2> QED  BY <2>1, <2>2
<1>10. ASSUME DataAgrees PROVE DataAgrees'
  <2>1. CASE c = "qbCharacterUpdates"
    <3>1. gameView.data = Shows(queue, db.data)
      BY <1>2, <1>5, <1>10, <2>1 DEF DataAgrees, Shows
    <3> QED  BY <1>3, <1>4, <1>6, <2>1, <3>1 DEF DataAgrees, Shows
  <2>2. CASE c # "qbCharacterUpdates"
    BY <1>3, <1>4, <1>5, <1>6, <1>10, <2>2, ChannelsApart DEF DataAgrees
  <2> QED  BY <2>1, <2>2
<1> QED  BY <1>3, <1>7, <1>8, <1>9, <1>10 DEF DrainsSound, LinesSound

(* What is under way, or waits, is lost, and there is an excuse.            *)
LEMMA LossKeepsDrains ==
    ASSUME PassSound, DrainsSound, work \in Nat, UNCHANGED <<active, gameView, db, stored, work>>,
           cache' = cache \/ cache' = db, excuses' # {},
           DOMAIN gameQueue' = Drains, \A c \in Drains : gameQueue'[c] = gameQueue[c] \/ gameQueue'[c] = <<>>,
           \A c : BatchOf(c)' = BatchOf(c) \/ BatchOf(c)' = <<>>
    PROVE  DrainsSound'
<1>1. DrainTables' /\ CharactersKnown'
  <2>1. \A c \in Drains : gameQueue'[c] \in Seq(UpdatesOf(c))
    <3>1. \A S : <<>> \in Seq(S)
      OBVIOUS
    <3> QED  BY <3>1 DEF DrainsSound, DrainTables
  <2> QED  BY <2>1 DEF DrainsSound, DrainTables, CharactersKnown, Characters, UpdatesOf
<1>2. ASSUME NEW c \in Drains PROVE LineSound(BatchOf(c), gameQueue[c], stored[c], work)'
  <2>1. PICK batch : batch = BatchOf(c)
    OBVIOUS
  <2>2. PICK queue : queue = gameQueue[c]
    OBVIOUS
  <2>3. LineSound(batch, queue, stored[c], work)
    BY <1>2, <2>1, <2>2, LinesAre
  <2>4. LineSound(<<>>, queue, stored[c], work) /\ LineSound(batch, <<>>, stored[c], work)
    BY <2>3, LineDropped
  <2>5. LineSound(<<>>, <<>>, stored[c], work)
    BY <2>4, LineDropped
  <2>6. /\ BatchOf(c)' = batch \/ BatchOf(c)' = <<>>
        /\ gameQueue'[c] = queue \/ gameQueue'[c] = <<>>
    BY <1>2, <2>1, <2>2
  <2>7. LineSound(BatchOf(c)', gameQueue'[c], stored[c], work)
    BY <2>3, <2>4, <2>5, <2>6
  <2> QED  BY <2>7
<1> QED  BY <1>1, <1>2 DEF DrainsSound, LinesSound

LEMMA FaultsKeepDrains ==
    ASSUME PassSound, DrainsSound, work \in Nat,
           FetchAnswerLost \/ StoringThrows \/ FxServerRestarts \/ StoringRefused
    PROVE  DrainsSound'
<1>0. DOMAIN gameQueue = Drains
  BY DEF DrainsSound, DrainTables
<1>1. CASE FetchAnswerLost
  <2>1. PICK c \in Drains : c = Channel
    BY <1>1 DEF FetchAnswerLost
  <2>2. /\ pass.at # 0 /\ pass.batch = <<>> /\ pass' = Between /\ gameQueue' = [gameQueue EXCEPT ![c] = <<>>]
        /\ excuses' = excuses \cup (IF gameQueue[c] # <<>> THEN {"lost"} ELSE {})
        /\ UNCHANGED <<active, gameView, db, cache, posted, stored, work>>
    BY <1>1, <2>1 DEF FetchAnswerLost, Faulty
  <2>3. \A e : BatchOf(e)' = <<>> /\ BatchOf(e) = <<>>
    BY <2>2, PassCleared, NothingUnderWay
  <2>4. DOMAIN gameQueue' = Drains /\ \A e \in Drains : gameQueue'[e] = gameQueue[e] \/ gameQueue'[e] = <<>>
    BY <1>0, <2>2
  <2>5. CASE gameQueue[c] # <<>>
    BY <2>2, <2>3, <2>4, <2>5, LossKeepsDrains
  <2>6. CASE gameQueue[c] = <<>>
    <3>1. excuses' = excuses
      BY <2>2, <2>6
    <3>2. \A e \in Drains : gameQueue'[e] = gameQueue[e]
      BY <1>0, <2>2, <2>6
    <3>3. DrainTables' /\ CharactersKnown' /\ LinesSound'
      BY <2>2, <2>3, <2>4, <3>2 DEF DrainsSound, DrainTables, CharactersKnown, Characters, LinesSound, UpdatesOf
    <3>4. (MoneyAgrees /\ DataAgrees) => (MoneyAgrees' /\ DataAgrees')
      BY <2>2, <2>3, <3>2, ChannelsApart DEF MoneyAgrees, DataAgrees
    <3> QED  BY <3>1, <3>3, <3>4 DEF DrainsSound
  <2> QED  BY <2>5, <2>6
<1>2. CASE StoringThrows
  <2>1. /\ pass' = Between /\ excuses' = excuses \cup {"lost"}
        /\ UNCHANGED <<active, gameQueue, gameView, db, cache, posted, stored, work>>
    BY <1>2 DEF StoringThrows, Faulty
  <2>2. \A e : BatchOf(e)' = <<>>
    BY <2>1, PassCleared
  <2> QED  BY <1>0, <2>1, <2>2, LossKeepsDrains
<1>3. CASE StoringRefused
  <2>1. /\ pass' = Between /\ UNCHANGED <<active, gameQueue, gameView, db, cache, posted, stored, work>>
    BY <1>3 DEF StoringRefused
  <2>2. \A e : BatchOf(e)' = <<>>
    BY <2>1, PassCleared
  <2>3. excuses' # {}
    BY <1>3 DEF StoringRefused
  <2> QED  BY <1>0, <2>1, <2>2, <2>3, LossKeepsDrains
<1>4. CASE FxServerRestarts
  <2>1. /\ UNCHANGED <<active, pass, gameView, db, cache, posted, stored, work>> /\ excuses' = excuses \cup {"lost"}
        /\ gameQueue' = [c \in Drains |-> <<>>]
    BY <1>4 DEF FxServerRestarts, Faulty
  <2>2. \A e : BatchOf(e)' = BatchOf(e)
    BY <2>1, PassKept
  <2>3. DOMAIN gameQueue' = Drains /\ \A c \in Drains : gameQueue'[c] = <<>>
    BY <2>1
  <2>4. excuses' # {}
    BY <2>1
  <2> QED  BY <2>1, <2>2, <2>3, <2>4, LossKeepsDrains
<1> QED  BY <1>1, <1>2, <1>3, <1>4

LEMMA ServiceRestartKeepsDrains ==
    ASSUME PassSound, DrainsSound, work \in Nat, ServiceRestarts
    PROVE  DrainsSound'
<1>0. DOMAIN gameQueue = Drains
  BY DEF DrainsSound, DrainTables
<1>1. /\ pass' = Between /\ cache' = db /\ UNCHANGED <<active, gameQueue, gameView, db, posted, stored, work>>
      /\ excuses' = excuses \cup (IF pass # Between /\ Channel \in Drains /\ pass.batch # <<>> THEN {"lost"} ELSE {})
  BY DEF ServiceRestarts, Faulty
<1>2. \A e : BatchOf(e)' = <<>>
  BY <1>1, PassCleared
<1>3. CASE pass # Between /\ Channel \in Drains /\ pass.batch # <<>>
  <2>1. excuses' # {}
    BY <1>1, <1>3
  <2> QED  BY <1>0, <1>1, <1>2, <2>1, LossKeepsDrains
<1>4. CASE ~(pass # Between /\ Channel \in Drains /\ pass.batch # <<>>)
  <2>1. excuses' = excuses
    BY <1>1, <1>4
  <2>2. \A e \in Drains : BatchOf(e) = <<>>
    BY <1>4 DEF BatchOf, Between
  <2>3. DrainTables' /\ CharactersKnown' /\ LinesSound'
    BY <1>1, <1>2, <2>2 DEF DrainsSound, DrainTables, CharactersKnown, Characters, LinesSound, UpdatesOf
  <2>4. (MoneyAgrees /\ DataAgrees) => (MoneyAgrees' /\ DataAgrees')
    BY <1>1, <1>2, <2>2, ChannelsApart DEF MoneyAgrees, DataAgrees
  <2> QED  BY <2>1, <2>3, <2>4 DEF DrainsSound
<1> QED  BY <1>3, <1>4

(* The service stores the first update of a batch.                          *)
LEMMA StoredLines ==
    ASSUME PassSound, DrainsSound, work \in Nat, NEW c \in Drains, Busy({c}), Stored(Head(pass.batch))
    PROVE  /\ DrainTables' /\ LinesSound' /\ UNCHANGED <<gameQueue, gameView, cache, work>>
           /\ BatchOf(c) = pass.batch /\ BatchOf(c) \in Seq(UpdatesOf(c)) /\ BatchOf(c) # <<>>
           /\ Head(pass.batch) \in UpdatesOf(c)
           /\ \A e : BatchOf(e)' = IF e = c THEN Tail(BatchOf(c)) ELSE <<>>
           /\ \A e : e # c => BatchOf(e) = <<>>
<1>1. /\ stored' = [stored EXCEPT ![c] = Head(pass.batch).n] /\ pass' = Rest
      /\ UNCHANGED <<active, gameQueue, gameView, cache, work>>
      /\ Channel = c /\ pass.at # 0 /\ pass.batch # <<>>
  BY DEF Stored, Busy
<1>2. BatchOf(c) = pass.batch /\ \A e : e # c => BatchOf(e) = <<>>
  BY <1>1, BatchesElsewhere
<1>3. \A e : BatchOf(e)' = IF e = c THEN Tail(BatchOf(c)) ELSE <<>>
  BY <1>1, <1>2, PassPopped
<1>4. BatchOf(c) \in Seq(UpdatesOf(c)) /\ BatchOf(c) # <<>>
  BY <1>1, <1>2, LinesAre
<1>5. PICK batch : batch = BatchOf(c)
  OBVIOUS
<1>6. Head(batch) \in UpdatesOf(c) /\ 1 \in DOMAIN batch /\ Head(batch) = batch[1]
  BY <1>4, <1>5, TailOfLine
<1>7. Head(batch).n \in Nat /\ Head(batch).n < work
  <2>1. batch[1].n \in Nat
    BY <1>4, <1>5, <1>6, UpdatesNumbered
  <2>2. LineSound(batch, gameQueue[c], stored[c], work)
    BY <1>5, LinesAre
  <2> QED  BY <1>6, <2>1, <2>2 DEF LineSound
<1>8. DOMAIN stored' = Drains /\ stored'[c] = Head(batch).n /\ \A e \in Drains \ {c} : stored'[e] = stored[e]
  BY <1>1, <1>2, <1>5 DEF DrainsSound, DrainTables
<1>9. DrainTables'
  BY <1>1, <1>7, <1>8 DEF DrainsSound, DrainTables, UpdatesOf
<1>10. ASSUME NEW e \in Drains PROVE LineSound(BatchOf(e), gameQueue[e], stored[e], work)'
  <2>1. CASE e = c
    <3>1. LineSound(batch, gameQueue[c], stored[c], work) /\ gameQueue[c] \in Seq(UpdatesOf(c)) /\ stored[c] \in Int
      BY <1>5, LinesAre
    <3>2. LineSound(Tail(batch), gameQueue[c], Head(batch).n, work)
      BY <1>4, <1>5, <3>1, LineStored
    <3> QED  BY <1>1, <1>3, <1>5, <1>8, <2>1, <3>2
  <2>2. CASE e # c
    BY <1>1, <1>2, <1>3, <1>8, <1>10, <2>2, LinesAre
  <2> QED  BY <2>1, <2>2
<1> QED  BY <1>1, <1>2, <1>3, <1>4, <1>5, <1>6, <1>9, <1>10 DEF LinesSound

(* What is posted brings the balance in the database where the change       *)
(* brings the game's, unless a known key or a stale cache had a part in it.*)
LEMMA PostingAgrees ==
    ASSUME NEW update, update.operation \in {"add", "remove", "set"}, update.amount \in Nat \ {0},
           db.balance \in Nat, cache.balance \in Nat,
           Posting(update) # 0 => ~Repeats(update) /\ db.balance + Posting(update) >= 0,
           update.operation = "set" => cache.balance = db.balance
    PROVE  db.balance + Posting(update) = Balance(db.balance, update)
<1>1. CASE update.operation = "add"
  BY <1>1 DEF Posting, Balance
<1>2. CASE update.operation = "remove"
  <2>1. Posting(update) = -update.amount
    BY <1>2 DEF Posting
  <2>2. db.balance - update.amount >= 0
    BY <2>1
  <2> QED  BY <1>2, <2>1, <2>2 DEF Balance
<1>3. CASE update.operation = "set"
  BY <1>3 DEF Posting, Balance
<1> QED  BY <1>1, <1>2, <1>3

LEMMA MoneyKeepsDrains ==
    ASSUME PassSound, DrainsSound, work \in Nat, applyQbCoreRuntimeMoneyUpdates
    PROVE  DrainsSound'
<1>1. PICK update : update = Head(pass.batch)
  OBVIOUS
<1> DEFINE posts == Posting(update) # 0 /\ ~Repeats(update)
           c == "qbMoneyUpdates"
<1>2. /\ Busy({c}) /\ ~Refused(update) /\ Stored(Head(pass.batch)) /\ Channel = c
      /\ db' = [db EXCEPT !.balance = IF posts THEN @ + Posting(update) ELSE @]
      /\ excuses' = excuses
            \cup (IF Posting(update) # 0 /\ Repeats(update) THEN {"repeated key"} ELSE {})
            \cup (IF update.operation = "set" /\ cache.balance # db.balance THEN {"stale cache"} ELSE {})
  BY <1>1 DEF applyQbCoreRuntimeMoneyUpdates, Busy
<1>3. /\ DrainTables' /\ LinesSound' /\ UNCHANGED <<gameQueue, gameView, cache, work>>
      /\ BatchOf(c) = pass.batch /\ BatchOf(c) \in Seq(UpdatesOf(c)) /\ BatchOf(c) # <<>>
      /\ update \in UpdatesOf(c)
      /\ \A e : BatchOf(e)' = IF e = c THEN Tail(BatchOf(c)) ELSE <<>>
      /\ \A e : e # c => BatchOf(e) = <<>>
  BY <1>1, <1>2, ChannelsApart, StoredLines
<1>4. update.operation \in {"add", "remove", "set"} /\ update.amount \in Nat
  BY <1>3 DEF UpdatesOf
<1>5. /\ db \in Characters /\ db.balance \in Nat /\ db.data \in Nat /\ cache.balance \in Nat /\ gameView \in Characters /\ cache \in Characters
  BY DEF DrainsSound, CharactersKnown, Characters
<1>6. Posting(update) \in Int
  BY <1>4, <1>5 DEF Posting
<1>7. update.amount # 0 /\ (posts => db.balance + Posting(update) >= 0)
  <2>1. update.amount # 0 /\ (posts => ~(db.balance + Posting(update) < 0))
    BY <1>2 DEF Refused
  <2> QED  BY <1>5, <1>6, <2>1
<1>8. db'.balance = (IF posts THEN db.balance + Posting(update) ELSE db.balance) /\ db'.data = db.data /\ db' \in Characters
  <2>1. PICK balance : balance = IF posts THEN db.balance + Posting(update) ELSE db.balance
    OBVIOUS
  <2>2. balance \in Nat
    BY <1>5, <1>6, <1>7, <2>1
  <2>3. db' = [db EXCEPT !.balance = balance]
    BY <1>2, <2>1
  <2> QED  BY <1>5, <2>1, <2>2, <2>3 DEF Characters
<1>9. CharactersKnown'
  BY <1>3, <1>5, <1>8 DEF CharactersKnown, Characters
<1>10. ASSUME excuses' = {} PROVE MoneyAgrees' /\ DataAgrees'
  <2>1. /\ MoneyAgrees /\ DataAgrees /\ ~(Posting(update) # 0 /\ Repeats(update))
        /\ ~(update.operation = "set" /\ cache.balance # db.balance)
    BY <1>2, <1>10 DEF DrainsSound
  <2>2. db.balance + Posting(update) = Balance(db.balance, update)
    BY <1>4, <1>5, <1>7, <2>1, PostingAgrees
  <2>3. db'.balance = Balance(db.balance, update)
    <3>1. Posting(update) = 0 => db.balance + Posting(update) = db.balance
      BY <1>5
    <3> QED  BY <1>8, <2>1, <2>2, <3>1
  <2>4. PICK x \in Nat : Leads(BatchOf(c), db.balance, x) /\ Leads(gameQueue[c], x, gameView.balance)
    BY <2>1 DEF MoneyAgrees
  <2>5. Leads(Tail(BatchOf(c)), Balance(db.balance, Head(BatchOf(c))), x)
    BY <1>3, <2>4, LeadsBack
  <2>6. MoneyAgrees'
    BY <1>1, <1>3, <2>3, <2>4, <2>5 DEF MoneyAgrees
  <2>7. DataAgrees'
    BY <1>3, <1>8, <2>1 DEF DataAgrees
  <2> QED  BY <2>6, <2>7
<1> QED  BY <1>3, <1>9, <1>10 DEF DrainsSound

LEMMA ApplyKeepsDrains ==
    ASSUME PassSound, DrainsSound, work \in Nat, ApplyStep
    PROVE  DrainsSound'
<1>0. /\ db \in Characters /\ db.data \in Nat /\ cache.data \in Nat /\ gameView \in Characters /\ cache \in Characters
  BY DEF DrainsSound, CharactersKnown, Characters
<1>1. CASE applyQbCoreRuntimeInventoryUpdates
  <2> DEFINE c == "qbInventoryUpdates"
  <2>1. Busy({c}) /\ Stored(Head(pass.batch)) /\ UNCHANGED <<db, excuses>>
    BY <1>1 DEF applyQbCoreRuntimeInventoryUpdates
  <2>2. /\ DrainTables' /\ LinesSound' /\ UNCHANGED <<gameQueue, gameView, cache, work>>
        /\ \A e : e # c => BatchOf(e)' = <<>> /\ BatchOf(e) = <<>>
    BY <2>1, ChannelsApart, StoredLines
  <2>3. CharactersKnown'
    BY <2>1, <2>2, <1>0 DEF CharactersKnown, Characters
  <2>4. (MoneyAgrees /\ DataAgrees) => (MoneyAgrees' /\ DataAgrees')
    BY <2>1, <2>2 DEF MoneyAgrees, DataAgrees
  <2> QED  BY <2>1, <2>2, <2>3, <2>4 DEF DrainsSound
<1>2. CASE applyQbCoreRuntimeCharacterSelections
  <2> DEFINE c == "qbCharacterSelections"
  <2>1. /\ Busy({c}) /\ Stored(Head(pass.batch)) /\ db' = [db EXCEPT !.data = cache.data]
        /\ excuses' = excuses \cup (IF cache.data # db.data THEN {"stale cache"} ELSE {})
    BY <1>2 DEF applyQbCoreRuntimeCharacterSelections
  <2>2. /\ DrainTables' /\ LinesSound' /\ UNCHANGED <<gameQueue, gameView, cache, work>>
        /\ \A e : e # c => BatchOf(e)' = <<>> /\ BatchOf(e) = <<>>
    BY <2>1, ChannelsApart, StoredLines
  <2>3. CharactersKnown'
    BY <2>1, <2>2, <1>0 DEF CharactersKnown, Characters
  <2>4. ASSUME excuses' = {} PROVE excuses = {} /\ db'.balance = db.balance /\ db'.data = db.data
    BY <1>0, <2>1, <2>4 DEF Characters
  <2>5. ASSUME excuses' = {} PROVE MoneyAgrees' /\ DataAgrees'
    BY <2>2, <2>4, <2>5 DEF DrainsSound, MoneyAgrees, DataAgrees
  <2> QED  BY <2>2, <2>3, <2>5 DEF DrainsSound
<1>3. CASE applyQbCoreRuntimeCharacterUpdates
  <2> DEFINE c == "qbCharacterUpdates"
  <2>1. /\ Busy({c}) /\ Stored(Head(pass.batch)) /\ db' = [db EXCEPT !.data = Head(pass.batch).data] /\ UNCHANGED excuses
    BY <1>3 DEF applyQbCoreRuntimeCharacterUpdates
  <2>2. /\ DrainTables' /\ LinesSound' /\ UNCHANGED <<gameQueue, gameView, cache, work>>
        /\ BatchOf(c) = pass.batch /\ BatchOf(c) \in Seq(UpdatesOf(c)) /\ BatchOf(c) # <<>>
        /\ Head(pass.batch) \in UpdatesOf(c)
        /\ BatchOf(c)' = Tail(BatchOf(c)) /\ \A e : e # c => BatchOf(e)' = <<>> /\ BatchOf(e) = <<>>
    BY <2>1, ChannelsApart, StoredLines
  <2>3. Head(pass.batch).data \in Nat
    BY <2>2 DEF UpdatesOf
  <2>4. db' \in Characters /\ db'.balance = db.balance /\ db'.data = Head(BatchOf(c)).data
    BY <1>0, <2>1, <2>2, <2>3 DEF Characters
  <2>5. CharactersKnown'
    BY <1>0, <2>2, <2>4 DEF CharactersKnown, Characters
  <2>6. ASSUME excuses' = {} PROVE MoneyAgrees' /\ DataAgrees'
    <3>1. MoneyAgrees /\ DataAgrees
      BY <2>1, <2>6 DEF DrainsSound
    <3>2. MoneyAgrees'
      BY <2>2, <2>4, <3>1 DEF MoneyAgrees
    <3>3. Shows(BatchOf(c), db.data) = Shows(Tail(BatchOf(c)), Head(BatchOf(c)).data)
      BY <2>2, ShowsBack
    <3>4. DataAgrees'
      BY <2>2, <2>4, <3>1, <3>3 DEF DataAgrees
    <3> QED  BY <3>2, <3>4
  <2> QED  BY <2>2, <2>5, <2>6 DEF DrainsSound
<1>4. CASE applyQbCoreRuntimeMoneyUpdates
  BY <1>4, MoneyKeepsDrains
<1> QED  BY <1>1, <1>2, <1>3, <1>4 DEF ApplyStep

-----------------------------------------------------------------------------
(***************************************************************************)
(* Every step.                                                             *)
(***************************************************************************)
(* What a step that is not of its kind leaves of the queues and the drains. *)
LEMMA LeavesQueues ==
    ASSUME PassSound, QueuesSound, work \in Nat, UNCHANGED queueState, work' = work \/ work' = work + 1,
           \A c \in Queues : BatchOf(c)' = BatchOf(c) \/ BatchOf(c)' = <<>>
    PROVE  QueuesSound'
<1>1. work' \in Nat /\ work' >= work
  OBVIOUS
<1> QED  BY <1>1, QueuesKept

LEMMA LeavesDrains ==
    ASSUME PassSound, DrainsSound, work \in Nat, UNCHANGED qbState, work' = work \/ work' = work + 1,
           \A c \in Drains : BatchOf(c)' = BatchOf(c)
    PROVE  DrainsSound'
<1>1. work' \in Nat /\ work' >= work
  OBVIOUS
<1> QED  BY <1>1, DrainsKept

LEMMA StepsOfPasses ==
    ASSUME SyncInv, StartPass \/ ReadFails
    PROVE  SyncInv'
<1>1. /\ PassSound /\ MirrorsSound /\ QueuesSound /\ DrainsSound /\ work \in Nat
      /\ UNCHANGED <<active, mirrorState, queueState, qbState, work>>
      /\ pass = Between \/ pass.batch = <<>>
      /\ pass' = Between \/ pass' = StepAfter(0)
  BY SyncAssumption DEF SyncInv, Bounded, StartPass, ReadFails, Faulty
<1>2. PassSound' /\ \A c : BatchOf(c)' = <<>> /\ BatchOf(c) = <<>>
  BY <1>1, PassCleared, NothingUnderWay
<1>3. MirrorsSound' /\ QueuesSound' /\ DrainsSound'
  BY <1>1, <1>2, MirrorsKept, LeavesQueues, LeavesDrains
<1>4. Bounded'
  BY <1>1, SyncAssumption DEF SyncInv, Bounded, StartPass, ReadFails, Faulty
<1> QED  BY <1>1, <1>2, <1>3, <1>4 DEF SyncInv, Channels

LEMMA StepsOfMirrors ==
    ASSUME SyncInv, SnapshotStep \/ emitServerEvent_Mirror \/ emitServerEventThrows_Mirror
    PROVE  SyncInv'
<1>1. PassSound /\ MirrorsSound /\ MirrorTables /\ QueuesSound /\ DrainsSound /\ work \in Nat
  BY SyncAssumption DEF SyncInv, Bounded, MirrorsSound
<1>2. UNCHANGED <<active, queueState, qbState, work>> /\ Bounded' /\ PassSound'
      /\ \A c \in Queues \cup Drains : BatchOf(c)' = <<>> /\ BatchOf(c) = <<>>
  <2>1. CASE SnapshotStep
    <3>0. PICK c \in Mirrors : \E groups : PlansKeys(c, groups) /\ Emits(c, groups)
      BY <2>1 DEF SnapshotStep
    <3>1. PICK groups : PlansKeys(c, groups) /\ Emits(c, groups)
      BY <3>0
    <3>2. /\ PassSound' /\ UNCHANGED <<active, mirrorState, queueState, qbState, work, syncFaults>>
          /\ \A d : BatchOf(d) = <<>> /\ (d # c => BatchOf(d)' = <<>>)
      BY <1>1, <3>1, SnapshotPlans
    <3> QED  BY <3>2, ChannelsApart DEF SyncInv, Bounded
  <2>2. CASE emitServerEvent_Mirror
    <3>1. UNCHANGED <<active, queueState, qbState, work, syncFaults>> /\ Busy(Mirrors) /\ pass' = Rest
      BY <2>2 DEF emitServerEvent_Mirror
    <3>2. pass.at # 0 /\ pass.batch # <<>> /\ Channel \in Mirrors /\ \A c : c \notin Mirrors => BatchOf(c) = <<>>
      BY <1>1, <3>1, BusyElsewhere
    <3>3. PassSound' /\ \A c : BatchOf(c)' = IF c = Channel THEN Tail(pass.batch) ELSE <<>>
      BY <1>1, <3>1, <3>2, PassPopped
    <3> QED  BY <3>1, <3>2, <3>3, ChannelsApart DEF SyncInv, Bounded
  <2>3. CASE emitServerEventThrows_Mirror
    <3>1. UNCHANGED <<active, queueState, qbState, work>> /\ Busy(Mirrors) /\ pass' = Between /\ Faulty
      BY <2>3 DEF emitServerEventThrows_Mirror, Faulty
    <3>2. \A c : c \notin Mirrors => BatchOf(c) = <<>>
      BY <1>1, <3>1, BusyElsewhere
    <3>3. PassSound' /\ \A c : BatchOf(c)' = <<>>
      BY <3>1, PassCleared
    <3>4. Bounded'
      BY <3>1, SyncAssumption DEF SyncInv, Bounded, Faulty
    <3> QED  BY <3>1, <3>2, <3>3, <3>4, ChannelsApart
  <2> QED  BY <2>1, <2>2, <2>3
<1>3. MirrorsSound'
  BY <1>1, SnapshotKeepsMirrors, EmissionKeepsOthers, EmissionKeepsSettings, ThrowKeepsMirrors
<1>4. QueuesSound' /\ DrainsSound'
  BY <1>1, <1>2, LeavesQueues, LeavesDrains
<1> QED  BY <1>2, <1>3, <1>4 DEF SyncInv, Channels

LEMMA StepsOfQueues ==
    ASSUME SyncInv, FlushStep \/ emitServerEvent_Queue \/ emitServerEventThrows_Queue
    PROVE  SyncInv'
<1>1. PassSound /\ MirrorsSound /\ QueuesSound /\ DrainsSound /\ work \in Nat
  BY SyncAssumption DEF SyncInv, Bounded
<1>2. UNCHANGED <<active, mirrorState, qbState, work>> /\ Bounded' /\ PassSound'
      /\ QueuesSound' /\ \A c \in Mirrors \cup Drains : BatchOf(c)' = <<>> /\ BatchOf(c) = <<>>
  <2>1. CASE FlushStep
    <3>1. QueuesSound'
      BY <1>1, <2>1, FlushKeepsQueues
    <3>2. PICK c \in Queues : \E events : PlansOnce(c, events) /\ Flushes(c, events)
      BY <2>1 DEF FlushStep
    <3>3. PICK events : PlansOnce(c, events) /\ Flushes(c, events)
      BY <3>2
    <3>4. PassSound' /\ \A e : BatchOf(e) = <<>> /\ (e # c => BatchOf(e)' = <<>>)
      BY <1>1, <3>3, FlushIs
    <3>5. UNCHANGED <<active, mirrorState, qbState, work, syncFaults>>
      BY <3>3 DEF Flushes
    <3> QED  BY <3>1, <3>4, <3>5, ChannelsApart DEF SyncInv, Bounded
  <2>2. CASE emitServerEvent_Queue \/ emitServerEventThrows_Queue
    <3>1. /\ UNCHANGED <<active, mirrorState, pending, qbState, work>> /\ Busy(Queues)
          /\ pass' = Rest \/ pass' = Between
          /\ \/ UNCHANGED delivered /\ pass' = Between
             \/ delivered' = [delivered EXCEPT ![Channel] = Updated(@, Executed(Head(pass.batch)))]
      BY <2>2 DEF emitServerEvent_Queue, emitServerEventThrows_Queue, Faulty
    <3>2. pass.at # 0 /\ pass.batch # <<>> /\ Channel \in Queues /\ \A c : c \notin Queues => BatchOf(c) = <<>>
      BY <1>1, <3>1, BusyElsewhere
    <3>3. PassSound' /\ \A c : c # Channel => BatchOf(c)' = <<>>
      BY <1>1, <3>1, <3>2, PassPopped, PassCleared
    <3>4. QueuesSound'
      <4>1. CASE UNCHANGED delivered /\ pass' = Between
        <5>1. \A c : BatchOf(c)' = <<>>
          BY <3>1, <4>1, PassCleared
        <5> QED  BY <1>1, <3>1, <4>1, <5>1, LeavesQueues DEF queueState
      <4>2. CASE delivered' = [delivered EXCEPT ![Channel] = Updated(@, Executed(Head(pass.batch)))]
        BY <1>1, <3>1, <4>2, EmissionKeepsQueues
      <4> QED  BY <3>1, <4>1, <4>2
    <3>5. Bounded'
      BY <2>2, SyncAssumption DEF SyncInv, Bounded, Faulty, emitServerEvent_Queue, emitServerEventThrows_Queue
    <3> QED  BY <3>1, <3>2, <3>3, <3>4, <3>5, ChannelsApart
  <2> QED  BY <2>1, <2>2
<1>3. BatchOf("config")' = <<>>
  BY <1>2, ChannelsApart
<1>4. MirrorsSound' /\ DrainsSound'
  BY <1>1, <1>2, <1>3, MirrorsKept, LeavesDrains
<1> QED  BY <1>2, <1>4 DEF SyncInv, Channels

LEMMA StepsOfDrains ==
    ASSUME SyncInv, FetchStep \/ ApplyStep \/ StoringRefused \/ FetchAnswerLost \/ StoringThrows
    PROVE  SyncInv'
<1>1. PassSound /\ MirrorsSound /\ QueuesSound /\ DrainsSound /\ work \in Nat
  BY SyncAssumption DEF SyncInv, Bounded
<1>2. DrainsSound'
  BY <1>1, FetchKeepsDrains, ApplyKeepsDrains, FaultsKeepDrains
<1>3. UNCHANGED <<active, mirrorState, queueState, work>> /\ Bounded' /\ PassSound'
      /\ \A c \in Mirrors \cup Queues : BatchOf(c)' = <<>>
  <2>1. CASE FetchStep
    <3>1. PICK c \in Drains : Fetches(c)
      BY <2>1 DEF FetchStep
    <3>2. PICK queue : queue = gameQueue[c]
      OBVIOUS
    <3>3. /\ pass.at # 0 /\ pass.batch = <<>> /\ Channel = c
          /\ pass' = IF queue = <<>> THEN NextStep ELSE [pass EXCEPT !.batch = queue]
          /\ UNCHANGED <<active, mirrorState, queueState, work, syncFaults>>
      BY <3>1, <3>2 DEF Fetches, Here
    <3>4. PassSound' /\ \A e : e # c => BatchOf(e)' = <<>>
      <4>1. CASE queue = <<>>
        BY <3>3, <4>1, PassCleared DEF NextStep
      <4>2. CASE queue # <<>>
        <5>1. queue \in Seq(PartsOf(Channel))
          BY <1>1, <3>2, <3>3, LinesAre, DrainParts
        <5>2. pass' = [at |-> pass.at, batch |-> queue, planned |-> pass.planned]
          BY <1>1, <3>3, <4>2, BatchesElsewhere
        <5> QED  BY <1>1, <3>3, <5>1, <5>2, PassFilled
      <4> QED  BY <4>1, <4>2
    <3> QED  BY <3>3, <3>4, ChannelsApart DEF SyncInv, Bounded
  <2>2. CASE ApplyStep
    <3>1. /\ UNCHANGED <<active, mirrorState, queueState, work, syncFaults>> /\ Busy(Drains) /\ pass' = Rest
      BY <2>2, ChannelsApart DEF ApplyStep, applyQbCoreRuntimeMoneyUpdates, applyQbCoreRuntimeInventoryUpdates,
            applyQbCoreRuntimeCharacterSelections, applyQbCoreRuntimeCharacterUpdates, Stored, Busy
    <3>2. pass.at # 0 /\ pass.batch # <<>> /\ Channel \in Drains
      BY <3>1 DEF Busy
    <3>3. PassSound' /\ \A c : c # Channel => BatchOf(c)' = <<>>
      BY <1>1, <3>1, <3>2, PassPopped
    <3> QED  BY <3>1, <3>2, <3>3, ChannelsApart DEF SyncInv, Bounded
  <2>3. CASE StoringRefused \/ FetchAnswerLost \/ StoringThrows
    <3>1. UNCHANGED <<active, mirrorState, queueState, work>> /\ pass' = Between
      BY <2>3 DEF StoringRefused, FetchAnswerLost, StoringThrows, Faulty
    <3>2. PassSound' /\ \A c : BatchOf(c)' = <<>>
      BY <3>1, PassCleared
    <3>3. Bounded'
      <4>1. UNCHANGED <<work, syncFaults>> \/ Faulty
        BY <2>3 DEF StoringRefused, FetchAnswerLost, StoringThrows
      <4> QED  BY <4>1, SyncAssumption DEF SyncInv, Bounded, Faulty
    <3> QED  BY <3>1, <3>2, <3>3
  <2> QED  BY <2>1, <2>2, <2>3
<1>4. BatchOf("config")' = <<>>
  BY <1>3, ChannelsApart
<1>5. MirrorsSound' /\ QueuesSound'
  BY <1>1, <1>3, <1>4, MirrorsKept, LeavesQueues
<1> QED  BY <1>2, <1>3, <1>5 DEF SyncInv, Channels

LEMMA StepsOfOthers ==
    ASSUME SyncInv, SourceStep \/ EnqueueStep \/ GameStep \/ CacheCatchesUp
    PROVE  SyncInv'
<1>1. PassSound /\ MirrorsSound /\ QueuesSound /\ DrainsSound /\ work \in Nat
  BY SyncAssumption DEF SyncInv, Bounded
<1>2. /\ UNCHANGED <<active, pass>> /\ Bounded' /\ (work' = work \/ work' = work + 1)
      /\ SourceStep => UNCHANGED <<queueState, qbState>>
      /\ EnqueueStep => UNCHANGED <<mirrorState, qbState>>
      /\ GameStep => UNCHANGED <<mirrorState, queueState>>
      /\ CacheCatchesUp => UNCHANGED <<mirrorState, queueState>>
  <2>1. ASSUME Working PROVE UNCHANGED <<active, pass>> /\ Bounded' /\ work' = work + 1
    BY <2>1, SyncAssumption DEF SyncInv, Bounded, Working
  <2>2. ASSUME SourceStep PROVE Working /\ UNCHANGED <<queueState, qbState>>
    BY <2>2 DEF SourceStep, ChangeSource
  <2>3. ASSUME EnqueueStep PROVE Working /\ UNCHANGED <<mirrorState, qbState>>
    BY <2>3 DEF EnqueueStep, Enqueue
  <2>4. ASSUME GameStep PROVE Working /\ UNCHANGED <<mirrorState, queueState>>
    BY <2>4 DEF GameStep, GameChangesMoney, GameChangesItems, GameSelectsCharacter, GameSavesCharacter, Produce
  <2>5. ASSUME CacheCatchesUp PROVE UNCHANGED <<active, pass, work, syncFaults, mirrorState, queueState>>
    BY <2>5 DEF CacheCatchesUp
  <2>6. CASE CacheCatchesUp
    <3>1. Bounded'
      BY <2>5, <2>6 DEF SyncInv, Bounded
    <3> QED  BY <2>2, <2>3, <2>4, <2>5, <2>6, <3>1
  <2> QED  BY <2>1, <2>2, <2>3, <2>4, <2>5, <2>6
<1>3. PassSound' /\ \A c : BatchOf(c)' = BatchOf(c)
  BY <1>1, <1>2, PassKept
<1>4. MirrorsSound'
  BY <1>1, <1>2, <1>3, SourceKeepsMirrors, MirrorsKept
<1>5. QueuesSound'
  BY <1>1, <1>2, <1>3, EnqueueKeepsQueues, LeavesQueues
<1>6. DrainsSound'
  BY <1>1, <1>2, <1>3, GameKeepsDrains, CacheKeepsDrains, LeavesDrains
<1> QED  BY <1>2, <1>3, <1>4, <1>5, <1>6 DEF SyncInv, Channels

LEMMA StepsOfRestarts ==
    ASSUME SyncInv, FxServerRestarts \/ ServiceRestarts
    PROVE  SyncInv'
<1>1. PassSound /\ MirrorsSound /\ QueuesSound /\ DrainsSound /\ work \in Nat
  BY SyncAssumption DEF SyncInv, Bounded
<1>2. Faulty
  BY DEF FxServerRestarts, ServiceRestarts
<1>3. UNCHANGED <<active, work>> /\ Bounded'
  BY <1>2, SyncAssumption DEF SyncInv, Bounded, Faulty
<1>4. MirrorsSound' /\ DrainsSound'
  BY <1>1, ServiceRestartKeepsMirrors, FxRestartKeepsMirrors, ServiceRestartKeepsDrains, FaultsKeepDrains
<1>5. PassSound' /\ QueuesSound'
  <2>1. CASE ServiceRestarts
    <3>1. pass' = Between
      BY <2>1 DEF ServiceRestarts
    <3> QED  BY <1>1, <1>3, <2>1, <3>1, PassCleared, ServiceRestartKeepsQueues
  <2>2. CASE FxServerRestarts
    <3>1. UNCHANGED <<pass, queueState>>
      BY <2>2 DEF FxServerRestarts
    <3> QED  BY <1>1, <1>3, <3>1, PassKept, LeavesQueues
  <2> QED  BY <2>1, <2>2
<1> QED  BY <1>3, <1>4, <1>5 DEF SyncInv, Channels

LEMMA SyncStutter ==
    ASSUME SyncInv, UNCHANGED syncVars
    PROVE  SyncInv'
<1>1. /\ PassSound /\ MirrorsSound /\ QueuesSound /\ DrainsSound /\ work \in Nat
      /\ UNCHANGED <<active, mirrorState, queueState, qbState, work, syncFaults, pass>>
  BY SyncAssumption DEF SyncInv, Bounded, syncVars, mirrorState, queueState, qbState
<1>2. PassSound' /\ \A c : BatchOf(c)' = BatchOf(c)
  BY <1>1, PassKept
<1>3. MirrorsSound' /\ QueuesSound' /\ DrainsSound'
  BY <1>1, <1>2, MirrorsKept, LeavesQueues, LeavesDrains
<1> QED  BY <1>1, <1>2, <1>3 DEF SyncInv, Bounded, Channels

LEMMA SyncStarts ==
    ASSUME NEW chosen \in ActiveSets, SyncInit(chosen)
    PROVE  SyncInv
<1>1. \A c : BatchOf(c) = <<>>
  BY DEF SyncInit, BatchOf, Between
<1>2. active \subseteq Channels /\ active \in ActiveSets /\ Bounded /\ PassSound
  BY SyncAssumption DEF SyncInit, Channels, Bounded, PassSound
<1>3. 0 \in 0 .. MaxValue
  BY SyncAssumption
<1>4. MirrorTables /\ ConfigVersions /\ Remembers
  BY <1>3, ChannelsApart DEF SyncInit, MirrorTables, ConfigVersions, Remembers
<1>5. MirrorsSound
  BY <1>1, <1>4 DEF MirrorsSound
<1>6. QueuesSound
  <2>1. QueueTables
    BY FS_EmptySet DEF SyncInit, QueueTables
  <2>2. \A c \in Queues : DOMAIN pending[c] = {}
    BY DEF SyncInit
  <2> QED  BY <1>1, <2>1, <2>2 DEF QueuesSound, FlightSound, OnePerKey
<1>7. DrainTables /\ CharactersKnown
  <2>1. \A S : <<>> \in Seq(S)
    OBVIOUS
  <2>2. -1 \in Int /\ -1 < 0 /\ 0 \in Nat
    OBVIOUS
  <2> QED  BY <2>1, <2>2 DEF SyncInit, DrainTables, CharactersKnown, Characters
<1>8. LinesSound
  <2>1. \A c \in Drains : gameQueue[c] = <<>>
    BY DEF SyncInit
  <2> QED  BY <1>1, <2>1 DEF LinesSound, LineSound, Rising
<1>9. MoneyAgrees /\ DataAgrees
  <2>1. /\ gameQueue["qbMoneyUpdates"] = <<>> /\ gameQueue["qbCharacterUpdates"] = <<>>
        /\ gameView.balance = 0 /\ gameView.data = 0 /\ db = gameView
    BY ChannelsApart DEF SyncInit
  <2>2. Leads(<<>>, 0, 0)
    BY LeadsNowhere
  <2> QED  BY <1>1, <2>1, <2>2 DEF MoneyAgrees, DataAgrees, Shows
<1> QED  BY <1>2, <1>5, <1>6, <1>7, <1>8, <1>9 DEF SyncInv, DrainsSound

LEMMA SyncInductive ==
    ASSUME SyncInv, [SyncNext]_syncVars
    PROVE  SyncInv'
<1>1. CASE SyncNext
  <2>1. SyncSteps
    BY <1>1, SyncNextIs DEF SyncInv, QueuesSound, QueueTables
  <2> QED  BY <2>1, StepsOfPasses, StepsOfMirrors, StepsOfQueues, StepsOfDrains, StepsOfOthers, StepsOfRestarts DEF SyncSteps
<1>2. CASE UNCHANGED syncVars
  BY <1>2, SyncStutter
<1> QED  BY <1>1, <1>2

LEMMA SyncInvariant == SyncSpec => []SyncInv
<1>1. (\E chosen \in ActiveSets : SyncInit(chosen)) => SyncInv
  BY SyncStarts
<1> QED  BY <1>1, SyncInductive, PTL DEF SyncSpec

(* What the invariant says of what waits, in the queues and under way.      *)
LEMMA WaitingIs ==
    ASSUME PassSound, NEW c \in Queues
    PROVE  \A d : d \in Waiting(c) <=> \/ \E key \in DOMAIN pending[c] : d = pending[c][key]
                                      \/ \E i \in DOMAIN BatchOf(c) : d \in Range(BatchOf(c)[i].dispatches)
  BY DEF Waiting, InFlight, BatchOf, Range

LEMMA WaitingInOrder ==
    ASSUME SyncInv
    PROVE  DispatchesInOrder
<1> SUFFICES ASSUME NEW c \in active \cap Queues, NEW d \in Waiting(c)
             PROVE  d.n > DeliveredOf(c, KeyOf(c, d))
  BY DEF DispatchesInOrder
<1>1. PassSound /\ QueuesSound
  BY DEF SyncInv
<1>2. CASE \E key \in DOMAIN pending[c] : d = pending[c][key]
  <2>1. PICK key \in DOMAIN pending[c] : d = pending[c][key]
    BY <1>2
  <2>2. KeyOf(c, d) = key /\ pending[c][key].n > DeliveredOf(c, key)
    BY <1>1, <2>1 DEF QueuesSound, QueueTables
  <2> QED  BY <2>1, <2>2
<1>3. CASE \E i \in DOMAIN BatchOf(c) : d \in Range(BatchOf(c)[i].dispatches)
  BY <1>1, <1>3 DEF QueuesSound, FlightSound
<1> QED  BY <1>1, <1>2, <1>3, WaitingIs

LEMMA LinesInOrder ==
    ASSUME SyncInv
    PROVE  UpdatesStoredOnceInOrder
<1> SUFFICES ASSUME NEW c \in active \cap Drains
             PROVE  LET line == BatchOf(c) \o gameQueue[c]
                    IN  /\ \A i \in DOMAIN line : line[i].n > stored[c]
                        /\ \A i, j \in DOMAIN line : i < j => line[i].n < line[j].n
  BY DEF UpdatesStoredOnceInOrder, BatchOf
<1>1. PICK batch : batch = BatchOf(c)
  OBVIOUS
<1>2. PICK queue : queue = gameQueue[c]
  OBVIOUS
<1>3. /\ batch \in Seq(UpdatesOf(c)) /\ queue \in Seq(UpdatesOf(c))
      /\ LineSound(batch, queue, stored[c], work)
  BY <1>1, <1>2, LinesAre DEF SyncInv
<1>4. PICK line : line = batch \o queue
  OBVIOUS
<1>5. /\ DOMAIN line = 1 .. (Len(batch) + Len(queue)) /\ Len(batch) \in Nat /\ Len(queue) \in Nat
      /\ DOMAIN batch = 1 .. Len(batch) /\ DOMAIN queue = 1 .. Len(queue)
      /\ \A i \in DOMAIN line : line[i] = IF i <= Len(batch) THEN batch[i] ELSE queue[i - Len(batch)]
  <2>1. /\ Len(line) = Len(batch) + Len(queue) /\ line \in Seq(UpdatesOf(c))
        /\ \A i \in 1 .. (Len(batch) + Len(queue)) : line[i] = IF i <= Len(batch) THEN batch[i] ELSE queue[i - Len(batch)]
    BY <1>3, <1>4, ConcatProperties
  <2> QED  BY <1>3, <2>1
<1>6. \A i \in DOMAIN line : \/ i \in DOMAIN batch /\ line[i] = batch[i]
                             \/ i > Len(batch) /\ i - Len(batch) \in DOMAIN queue /\ line[i] = queue[i - Len(batch)]
  BY <1>5
<1>7. \A i \in DOMAIN line : line[i].n > stored[c]
  BY <1>3, <1>6 DEF LineSound
<1>8. ASSUME NEW i \in DOMAIN line, NEW j \in DOMAIN line, i < j
      PROVE  line[i].n < line[j].n
  <2>1. CASE i \in DOMAIN batch /\ line[i] = batch[i] /\ j \in DOMAIN batch /\ line[j] = batch[j]
    BY <1>3, <1>8, <2>1 DEF LineSound, Rising
  <2>2. CASE i \in DOMAIN batch /\ line[i] = batch[i] /\ j - Len(batch) \in DOMAIN queue /\ line[j] = queue[j - Len(batch)]
    BY <1>3, <2>2 DEF LineSound
  <2>3. CASE /\ i > Len(batch) /\ i - Len(batch) \in DOMAIN queue /\ line[i] = queue[i - Len(batch)]
             /\ j \in DOMAIN batch
    BY <1>5, <1>8, <2>3
  <2>4. CASE /\ i - Len(batch) \in DOMAIN queue /\ line[i] = queue[i - Len(batch)]
             /\ j - Len(batch) \in DOMAIN queue /\ line[j] = queue[j - Len(batch)]
    <3>1. i - Len(batch) < j - Len(batch)
      BY <1>5, <1>8
    <3> QED  BY <1>3, <2>4, <3>1 DEF LineSound, Rising
  <2> QED  BY <1>6, <1>8, <2>1, <2>2, <2>3, <2>4
<1> QED  BY <1>1, <1>2, <1>4, <1>7, <1>8

LEMMA InvImpliesOnce ==
    ASSUME SyncInv
    PROVE  OnceInOrder
<1>1. PassSound /\ MirrorsSound /\ QueuesSound /\ DrainsSound
  BY DEF SyncInv
<1>2. MirrorMemory
  BY <1>1 DEF MirrorsSound, Remembers, Doubted, MirrorMemory
<1>3. SyncTypeOK
  <2>1. active \in ActiveSets \cup {{}} /\ work \in 0 .. MaxWork /\ syncFaults \in 0 .. MaxSyncFaults
    BY DEF SyncInv, Bounded
  <2>2. \A c \in Mirrors :
            /\ source[c] \in [KeysOf[c] -> 0 .. MaxValue]
            /\ shown[c] \in [KeysOf[c] -> 0 .. MaxValue]
            /\ applied[c] \in [KeysOf[c] -> 0 .. MaxValue \cup {Unset}]
    BY <1>1 DEF MirrorsSound, MirrorTables
  <2>3. \A c \in Queues : \A key \in DOMAIN pending[c] : KeyOf(c, pending[c][key]) = key
    BY <1>1 DEF QueuesSound, QueueTables
  <2>4. gameView.balance \in Nat /\ db.balance \in Nat /\ cache.balance \in Nat
    BY <1>1 DEF DrainsSound, CharactersKnown, Characters
  <2>5. pass.at \in 0 .. Len(PassOrder) /\ (pass.batch # <<>> => pass.at # 0 /\ Channel \in active)
    <3>1. CASE pass = Between
      BY <3>1, Places DEF Between
    <3>2. CASE pass # Between
      BY <1>1, <3>2, Places DEF PassSound
    <3> QED  BY <3>1, <3>2
  <2> QED  BY <2>1, <2>2, <2>3, <2>4, <2>5 DEF SyncTypeOK
<1> QED  BY <1>2, <1>3, WaitingInOrder, LinesInOrder DEF OnceInOrder

(* Nothing crosses between game and service twice or out of order, and what *)
(* the connector remembers of it is what has crossed (the appliedX maps,    *)
(* the service's queues and the loops of applyQbCoreRuntimeX), whatever is  *)
(* lost, thrown or restarted.                                              *)
THEOREM CrossesOnceInOrder == SyncSpec => []OnceInOrder
BY SyncInvariant, InvImpliesOnce, PTL

LEMMA InvImpliesAgreement ==
    ASSUME SyncInv
    PROVE  GameAndStoreAgree
<1> SUFFICES ASSUME Quiet, excuses = {} PROVE db.balance = gameView.balance /\ db.data = gameView.data
  BY DEF GameAndStoreAgree
<1>1. MoneyAgrees /\ DataAgrees
  BY DEF SyncInv, DrainsSound
<1>2. \A c : BatchOf(c) = <<>>
  BY NothingUnderWay DEF Quiet
<1>3. gameQueue["qbMoneyUpdates"] = <<>> /\ gameQueue["qbCharacterUpdates"] = <<>>
  BY ChannelsApart DEF Quiet
<1>4. PICK x \in Nat : Leads(<<>>, db.balance, x) /\ Leads(<<>>, x, gameView.balance)
  BY <1>1, <1>2, <1>3 DEF MoneyAgrees
<1>5. db.balance = x /\ x = gameView.balance
  BY <1>4, LeadsNowhere
<1>6. gameView.data = db.data
  BY <1>1, <1>2, <1>3 DEF DataAgrees, Shows
<1> QED  BY <1>5, <1>6

(* With nothing under way, the database holds the money and the data the    *)
(* game shows, unless there is a reason on record why they differ           *)
(* (applyQbCoreRuntimeMoneyUpdates and its siblings): no order of changes,  *)
(* drains and writes loses or repeats one.                                 *)
THEOREM StoreFollowsGame == SyncSpec => []GameAndStoreAgree
BY SyncInvariant, InvImpliesAgreement, PTL

(* The same, of the next state.                                             *)
LEMMA WaitingWillBe ==
    ASSUME NEW c \in Queues
    PROVE  \A d : \/ \E key \in DOMAIN pending'[c] : d = pending'[c][key]
                  \/ \E i \in DOMAIN BatchOf(c)' : d \in Range(BatchOf(c)'[i].dispatches)
                  => d \in Waiting(c)'
BY DEF Waiting, InFlight, BatchOf, Range

(* Steps of others leave what waits where it is.                            *)
LEMMA QueuesLeft ==
    ASSUME SyncInv, \/ StartPass \/ SnapshotStep \/ FetchStep \/ emitServerEvent_Mirror \/ ApplyStep \/ StoringRefused
                    \/ SourceStep \/ GameStep \/ CacheCatchesUp \/ ReadFails \/ emitServerEventThrows_Mirror
                    \/ FetchAnswerLost \/ StoringThrows \/ FxServerRestarts
    PROVE  UNCHANGED <<pending, active>> /\ \A c \in Queues : BatchOf(c)' = BatchOf(c)
<1>1. PassSound /\ MirrorsSound /\ MirrorTables /\ DrainsSound
  BY DEF SyncInv, MirrorsSound
<1>2. CASE SourceStep \/ GameStep \/ CacheCatchesUp \/ FxServerRestarts
  <2>1. UNCHANGED <<pending, active, pass>>
    <3>1. CASE SourceStep
      BY <3>1 DEF SourceStep, ChangeSource, Working, queueState
    <3>2. CASE GameStep
      BY <3>2 DEF GameStep, GameChangesMoney, GameChangesItems, GameSelectsCharacter, GameSavesCharacter, Produce,
                  Working, queueState
    <3>3. CASE CacheCatchesUp \/ FxServerRestarts
      BY <3>3 DEF CacheCatchesUp, FxServerRestarts, Faulty, queueState
    <3> QED  BY <1>2, <3>1, <3>2, <3>3
  <2> QED  BY <1>1, <2>1, PassKept
<1>3. CASE StartPass \/ ReadFails \/ FetchAnswerLost
  <2>1. /\ UNCHANGED <<pending, active>>
        /\ pass = Between \/ pass.batch = <<>>
        /\ pass' = Between \/ pass' = StepAfter(0)
    BY <1>3 DEF StartPass, ReadFails, FetchAnswerLost, Faulty, queueState
  <2>2. \A c : BatchOf(c) = <<>>
    BY <2>1, NothingUnderWay
  <2>3. \A c : BatchOf(c)' = <<>>
    BY <2>1, PassCleared
  <2> QED  BY <2>1, <2>2, <2>3
<1>4. CASE SnapshotStep
  <2>1. PICK c \in Mirrors : \E groups : PlansKeys(c, groups) /\ Emits(c, groups)
    BY <1>4 DEF SnapshotStep
  <2>2. PICK groups : PlansKeys(c, groups) /\ Emits(c, groups)
    BY <2>1
  <2>3. /\ UNCHANGED <<active, mirrorState, queueState, qbState, work, syncFaults>>
        /\ \A e : BatchOf(e) = <<>> /\ (e # c => BatchOf(e)' = <<>>)
    BY <1>1, <2>2, SnapshotPlans
  <2> QED  BY <2>3, ChannelsApart DEF queueState
<1>5. CASE FetchStep
  <2>1. PICK c \in Drains : Fetches(c)
    BY <1>5 DEF FetchStep
  <2>2. PICK queue : queue = gameQueue[c]
    OBVIOUS
  <2>3. /\ pass.at # 0 /\ pass.batch = <<>> /\ Channel = c
        /\ pass' = IF queue = <<>> THEN NextStep ELSE [pass EXCEPT !.batch = queue]
        /\ UNCHANGED <<active, pending>>
    BY <2>1, <2>2 DEF Fetches, Here, queueState
  <2>4. \A e : e # c => BatchOf(e)' = <<>>
    <3>1. CASE queue = <<>>
      BY <2>3, <3>1, PassCleared DEF NextStep
    <3>2. CASE queue # <<>>
      <4>1. queue \in Seq(PartsOf(Channel))
        BY <1>1, <2>2, <2>3, LinesAre, DrainParts
      <4>2. pass' = [at |-> pass.at, batch |-> queue, planned |-> pass.planned]
        BY <1>1, <2>3, <3>2, BatchesElsewhere
      <4> QED  BY <1>1, <2>3, <4>1, <4>2, PassFilled
    <3> QED  BY <3>1, <3>2
  <2> QED  BY <2>3, <2>4, NothingUnderWay, ChannelsApart
<1>6. CASE emitServerEvent_Mirror \/ emitServerEventThrows_Mirror \/ ApplyStep \/ StoringRefused \/ StoringThrows
  <2>1. PICK S \in {Mirrors, Drains} : Busy(S) /\ UNCHANGED <<active, pending>> /\ (pass' = Rest \/ pass' = Between)
    <3>1. CASE emitServerEvent_Mirror \/ emitServerEventThrows_Mirror
      BY <3>1 DEF emitServerEvent_Mirror, emitServerEventThrows_Mirror, Faulty, queueState
    <3>2. CASE ApplyStep
      BY <3>2, ChannelsApart DEF ApplyStep, applyQbCoreRuntimeMoneyUpdates, applyQbCoreRuntimeInventoryUpdates,
            applyQbCoreRuntimeCharacterSelections, applyQbCoreRuntimeCharacterUpdates, Stored, Busy, queueState
    <3>3. CASE StoringRefused \/ StoringThrows
      BY <3>3 DEF StoringRefused, StoringThrows, Faulty, queueState
    <3> QED  BY <1>6, <3>1, <3>2, <3>3
  <2>2. pass.at # 0 /\ pass.batch # <<>> /\ Channel \in S /\ \A c : c \notin S => BatchOf(c) = <<>>
    BY <1>1, <2>1, BusyElsewhere
  <2>3. \A c : c # Channel => BatchOf(c)' = <<>>
    BY <1>1, <2>1, <2>2, PassPopped, PassCleared
  <2> QED  BY <2>1, <2>2, <2>3, ChannelsApart
<1> QED  BY <1>2, <1>3, <1>4, <1>5, <1>6

(* What becomes of a dispatch in one step.                                  *)
Followed(c, d) ==
    \/ d \in Waiting(c)'
    \/ DeliveredOf(c, KeyOf(c, d))' >= d.n
    \/ \E later \in Waiting(c)' : KeyOf(c, later) = KeyOf(c, d) /\ later.n > d.n
    \/ emitServerEventThrows_Queue /\ d \in InFlight(c)
    \/ ServiceRestarts

LEMMA EnqueueForgetsNothing ==
    ASSUME SyncInv, EnqueueStep, NEW c \in Queues, NEW d \in Waiting(c)
    PROVE  Followed(c, d)
<1>1. PassSound /\ QueuesSound /\ QueueTables /\ work \in Nat
  BY SyncAssumption DEF SyncInv, Bounded, QueuesSound
<1>2. PICK e \in Queues : \E dispatches \in SUBSET Inputs[e] : Enqueue(e, dispatches)
  BY DEF EnqueueStep
<1>3. PICK dispatches \in SUBSET Inputs[e] : Enqueue(e, dispatches)
  BY <1>2
<1>4. PICK queued :
        /\ pending' = [pending EXCEPT ![e] = Updated(@, queued)]
        /\ \A key \in DOMAIN queued :
              queued[key] \in SentOf(e) /\ KeyOf(e, queued[key]) = key /\ queued[key].n = work
  BY <1>1, <1>3, QueuedRows
<1>5. UNCHANGED <<active, pass>>
  BY <1>3 DEF Enqueue, Working
<1>6. BatchOf(c)' = BatchOf(c)
  BY <1>1, <1>5, PassKept
<1>7. CASE \E i \in DOMAIN BatchOf(c) : d \in Range(BatchOf(c)[i].dispatches)
  BY <1>6, <1>7, WaitingWillBe DEF Followed
<1>8. CASE \E key \in DOMAIN pending[c] : d = pending[c][key]
  <2>1. PICK key \in DOMAIN pending[c] : d = pending[c][key]
    BY <1>8
  <2>2. CASE e = c /\ key \in DOMAIN queued
    <3>1. key \in DOMAIN pending'[c] /\ pending'[c][key] = queued[key]
      BY <1>1, <1>4, <2>2 DEF QueueTables, Updated
    <3>2. queued[key] \in Waiting(c)'
      BY <3>1, WaitingWillBe
    <3>3. KeyOf(c, queued[key]) = KeyOf(c, d) /\ queued[key].n > d.n
      <4>1. KeyOf(c, d) = key /\ d.n < work /\ d \in SentOf(c)
        BY <1>1, <2>1 DEF QueueTables
      <4>2. d.n \in Nat
        BY <4>1 DEF SentOf
      <4> QED  BY <1>1, <1>4, <2>2, <4>1, <4>2
    <3> QED  BY <3>2, <3>3 DEF Followed
  <2>3. CASE ~(e = c /\ key \in DOMAIN queued)
    <3>1. key \in DOMAIN pending'[c] /\ pending'[c][key] = d
      BY <1>1, <1>4, <2>1, <2>3 DEF QueueTables, Updated
    <3> QED  BY <3>1, WaitingWillBe DEF Followed
  <2> QED  BY <2>2, <2>3
<1> QED  BY <1>1, <1>7, <1>8, WaitingIs

LEMMA FlushForgetsNothing ==
    ASSUME SyncInv, FlushStep, NEW c \in Queues, NEW d \in Waiting(c)
    PROVE  Followed(c, d)
<1>1. PassSound /\ QueuesSound /\ QueueTables
  BY DEF SyncInv, QueuesSound
<1>2. PICK e \in Queues : \E events : PlansOnce(e, events) /\ Flushes(e, events)
  BY DEF FlushStep
<1>3. PICK events : PlansOnce(e, events) /\ Flushes(e, events)
  BY <1>2
<1>4. PICK drained : drained = Drained(e)
  OBVIOUS
<1>5. pending' = [pending EXCEPT ![e] = [k \in DOMAIN @ \ drained |-> @[k]]]
  BY <1>3, <1>4 DEF Flushes
<1>6. BatchOf(c) = <<>> /\ BatchOf(c)' = IF c = e /\ drained # {} THEN events ELSE <<>>
  BY <1>1, <1>3, <1>4, FlushIs
<1>7. PICK key \in DOMAIN pending[c] : d = pending[c][key]
  BY <1>1, <1>6, WaitingIs
<1>8. CASE c = e /\ key \in drained
  <2>1. d \in Dispatches(c)
    BY <1>4, <1>7, <1>8 DEF Dispatches
  <2>2. \E i \in DOMAIN events : d \in Range(events[i].dispatches)
    BY <1>3, <1>4, <1>8, <2>1 DEF PlansOnce
  <2> QED  BY <1>6, <1>8, <2>2, WaitingWillBe DEF Followed
<1>9. CASE ~(c = e /\ key \in drained)
  <2>1. key \in DOMAIN pending'[c] /\ pending'[c][key] = d
    BY <1>1, <1>5, <1>7, <1>9 DEF QueueTables
  <2> QED  BY <2>1, WaitingWillBe DEF Followed
<1> QED  BY <1>8, <1>9

LEMMA EmissionForgetsNothing ==
    ASSUME SyncInv, emitServerEvent_Queue \/ emitServerEventThrows_Queue, NEW c \in Queues, NEW d \in Waiting(c)
    PROVE  Followed(c, d)
<1>1. PassSound /\ QueuesSound /\ work \in Nat
  BY SyncAssumption DEF SyncInv, Bounded
<1>2. Busy(Queues) /\ UNCHANGED <<active, pending>>
  BY DEF emitServerEvent_Queue, emitServerEventThrows_Queue, Faulty
<1>3. CASE \E key \in DOMAIN pending[c] : d = pending[c][key]
  BY <1>2, <1>3, WaitingWillBe DEF Followed
<1>4. CASE \E i \in DOMAIN BatchOf(c) : d \in Range(BatchOf(c)[i].dispatches)
  <2>1. PICK batch : batch = pass.batch
    OBVIOUS
  <2>2. /\ pass.at # 0 /\ batch # <<>> /\ Channel = c /\ BatchOf(c) = batch
    BY <1>1, <1>2, <1>4, <2>1, BusyElsewhere, BatchesElsewhere
  <2>3. PICK i \in DOMAIN batch : d \in Range(batch[i].dispatches)
    BY <1>4, <2>2
  <2>4. CASE emitServerEventThrows_Queue
    <3>1. d \in InFlight(c)
      BY <2>1, <2>2, <2>3 DEF InFlight
    <3> QED  BY <2>4, <3>1 DEF Followed
  <2>5. CASE emitServerEvent_Queue
    <3>1. /\ delivered' = [delivered EXCEPT ![Channel] = Updated(@, Executed(Head(pass.batch)))]
          /\ pass' = Rest
      BY <2>5 DEF emitServerEvent_Queue
    <3>2. /\ FlightSound(c, batch) /\ Head(batch) = batch[1]
          /\ i = 1 \/ (i - 1 \in DOMAIN Tail(batch) /\ Tail(batch)[i - 1] = batch[i])
      BY <1>1, <1>2, <2>1, <2>2, RestOfBatch
    <3>3. CASE i = 1
      <4>1. d \in Range(Head(batch).dispatches)
        BY <2>3, <3>2, <3>3
      <4>2. DeliveredOf(c, KeyOf(c, d))' = d.n
        BY <1>1, <1>2, <2>1, <2>2, <3>1, <4>1, Executes
      <4>3. d.n \in Nat
        BY <2>3, <3>2 DEF FlightSound, SentOf
      <4> QED  BY <4>2, <4>3 DEF Followed
    <3>4. CASE i # 1
      <4>1. BatchOf(c)' = Tail(batch)
        BY <1>1, <1>2, <2>1, <2>2, <3>1, PassPopped
      <4>2. \E j \in DOMAIN Tail(batch) : d \in Range(Tail(batch)[j].dispatches)
        BY <2>3, <3>2, <3>4
      <4> QED  BY <4>1, <4>2, WaitingWillBe DEF Followed
    <3> QED  BY <3>3, <3>4
  <2> QED  BY <2>4, <2>5
<1> QED  BY <1>1, <1>3, <1>4, WaitingIs

LEMMA StepsForgetNothing ==
    ASSUME SyncInv, SyncNext, NEW c \in Queues, NEW d \in Waiting(c)
    PROVE  Followed(c, d)
<1>1. SyncSteps /\ PassSound
  BY SyncNextIs DEF SyncInv, QueuesSound, QueueTables
<1>2. CASE UNCHANGED pending /\ BatchOf(c)' = BatchOf(c)
  BY <1>1, <1>2, WaitingIs, WaitingWillBe DEF Followed
<1>3. CASE ServiceRestarts
  BY <1>3 DEF Followed
<1> QED  BY <1>1, <1>2, <1>3, QueuesLeft, EnqueueForgetsNothing, FlushForgetsNothing, EmissionForgetsNothing DEF SyncSteps

(* A dispatch that is queued waits until FXServer executes it, a later one  *)
(* for its target replaces it, or a fault takes it (queueX, drainX and the  *)
(* plans of connectors/fivem-runtime.ts): draining for one server keeps     *)
(* what waits for another, and a plan holds all that was drained.           *)
THEOREM DispatchesAreFollowed == SyncSpec => NothingForgotten
<1>1. ASSUME SyncInv, [SyncNext]_syncVars
      PROVE  [\A c \in active \cap Queues : \A d \in Waiting(c) :
                \/ d \in Waiting(c)'
                \/ DeliveredOf(c, KeyOf(c, d))' >= d.n
                \/ \E later \in Waiting(c)' : KeyOf(c, later) = KeyOf(c, d) /\ later.n > d.n
                \/ emitServerEventThrows_Queue /\ d \in InFlight(c)
                \/ ServiceRestarts]_syncVars
  BY <1>1, StepsForgetNothing DEF Followed
<1> QED  BY <1>1, SyncInvariant, PTL DEF SyncSpec, NothingForgotten
=============================================================================
