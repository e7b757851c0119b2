---------------------------- MODULE ServicesProofs ----------------------------
(***************************************************************************)
(* What the services that clients talk to promise, whatever their number.  *)
(* OAuth logins: what is traded in, stored and told belongs to one login,  *)
(* a login that is over gives up its port, and saves that neither overlap  *)
(* nor are cut short lose no credential.  Event streams: a registered      *)
(* channel is open, so that it is closed once, and a stream that ended     *)
(* without a dropped event carried the whole run.  Workspaces: children    *)
(* keep out of each other's way, reviewers are given the outputs of        *)
(* others, and what a delegation made is gone when it returns.  Background *)
(* tasks: none works on the message or in the worktree of another, nor is  *)
(* listed as completed before its end.                                     *)
(***************************************************************************)
EXTENDS Login, TaskEvents, Workspaces, Background, SequenceTheorems, FiniteSetTheorems, WellFoundedInduction, TLAPS

(* ------------------------------ the store ------------------------------ *)

\* What saves that do not overlap keep: one of them at most has begun, what
\* it will write is what is saved with its own credential, and the file is
\* what is saved, but while a saver fills it.
OneSaves == \A s, t \in Savers : Begun(s) /\ Begun(t) => s = t
FileIsSaved == (\A s \in Savers : save[s].at # "fill") => file = saved
FilledFromEmpty == \A s \in Savers : save[s].at = "fill" => file = Empty
CopyIsSaved == \A s \in Savers : Begun(s) => save[s].copy = [saved EXCEPT ![save[s].account] = save[s].grant]
KeptInv == ~spoiled => OneSaves /\ FileIsSaved /\ FilledFromEmpty /\ CopyIsSaved

StoreInv == StoreTypeOK /\ KeptInv

LEMMA EmptyType == Empty \in [Accounts -> Nat]
BY DEF Empty

LEMMA SaveStates ==
  ASSUME NEW v \in Saves
  PROVE  /\ v.at \in {"idle", "load", "open", "fill", "stored", "failed"}
         /\ v.at \in {"load", "open", "fill"} => v.account \in Accounts /\ v.grant \in Nat
         /\ v.at \in {"open", "fill"} => v.copy \in [Accounts -> Nat]
BY DEF Saves, NotSaving

LEMMA StoreInitially == StoreInit => StoreInv
<1> SUFFICES ASSUME StoreInit
             PROVE  StoreInv
  OBVIOUS
<1>1. NotSaving \in Saves /\ NotSaving.at = "idle"
  BY DEF Saves, NotSaving
<1> HIDE DEF NotSaving
<1>2. StoreTypeOK
  BY <1>1, EmptyType DEF StoreInit, StoreTypeOK
<1>3. KeptInv
  BY <1>1 DEF StoreInit, KeptInv, OneSaves, FileIsSaved, FilledFromEmpty, CopyIsSaved, Begun
<1> QED BY <1>2, <1>3 DEF StoreInv

\* A saver becomes another one that has not begun, nor had it, or is through.
LEMMA SaverSteps ==
  ASSUME StoreInv, NEW s \in Savers, NEW v \in Saves,
         save' = [save EXCEPT ![s] = v], UNCHANGED <<file, saved>>,
         v.at \notin {"open", "fill"}, save[s].at # "fill", spoiled' = spoiled
  PROVE  StoreInv'
<1>1. save \in [Savers -> Saves]
  BY DEF StoreInv, StoreTypeOK
<1>2. save'[s] = v /\ \A t \in Savers \ {s} : save'[t] = save[t]
  BY <1>1
<1>3. StoreTypeOK'
  BY <1>1 DEF StoreInv, StoreTypeOK
<1>4. \A t \in Savers : Begun(t)' => t # s /\ Begun(t) /\ save'[t] = save[t]
  BY <1>2 DEF Begun
<1>5. ASSUME ~spoiled
      PROVE  (OneSaves /\ FilledFromEmpty /\ CopyIsSaved)'
  BY <1>4, <1>5 DEF StoreInv, KeptInv, OneSaves, FilledFromEmpty, CopyIsSaved, Begun
<1>6. ASSUME ~spoiled
      PROVE  FileIsSaved'
  <2> SUFFICES ASSUME \A t \in Savers : save'[t].at # "fill"
               PROVE  file = saved
    BY DEF FileIsSaved
  <2>1. \A t \in Savers : save[t].at # "fill"
    BY <1>2
  <2> QED BY <1>6, <2>1 DEF StoreInv, KeptInv, FileIsSaved
<1> QED BY <1>3, <1>5, <1>6 DEF StoreInv, KeptInv

\* The statements of a save, interleaved with those of others.
LEMMA StoreSteps ==
  ASSUME StoreInv, NEW s \in Savers, Store(s)
  PROVE  /\ StoreInv'
         /\ save[s].at \in {"load", "open", "fill"}
         /\ save'[s].at \in {"open", "fill", "stored", "failed"}
         /\ \A t \in Savers \ {s} : save'[t] = save[t]
<1>1. /\ save \in [Savers -> Saves] /\ save[s] \in Saves /\ spoiled \in BOOLEAN
      /\ saved \in [Accounts -> Nat] /\ file \in [Accounts -> Nat] \cup {Corrupt}
  BY DEF StoreInv, StoreTypeOK
<1>2. CASE Load(s)
  <2> DEFINE a    == save[s].account
             n    == save[s].grant
             read == IF file = Corrupt THEN Empty ELSE file
             copy == [read EXCEPT ![a] = n]
             v    == [at |-> "open", account |-> a, grant |-> n, copy |-> copy]
  <2>1. save[s].at = "load" /\ a \in Accounts /\ n \in Nat
    BY <1>1, <1>2, SaveStates DEF Load
  <2>2. read \in [Accounts -> Nat] /\ copy \in [Accounts -> Nat]
    BY <1>1, <2>1, EmptyType
  <2>3. save' = [save EXCEPT ![s] = v] /\ UNCHANGED <<file, saved>>
        /\ spoiled' = (spoiled \/ \E other \in Savers : Begun(other))
    BY <1>2 DEF Load
  <2> HIDE DEF read, copy, a, n
  <2>4. v \in Saves /\ v.at = "open" /\ v.account = a /\ v.grant = n /\ v.copy = copy
    BY <2>1, <2>2 DEF Saves
  <2> HIDE DEF v
  <2>5. save'[s] = v /\ \A t \in Savers \ {s} : save'[t] = save[t]
    BY <1>1, <2>3
  <2>6. StoreTypeOK'
    BY <1>1, <2>3, <2>4 DEF StoreTypeOK
  <2>7. ASSUME ~spoiled'
        PROVE  (OneSaves /\ FileIsSaved /\ FilledFromEmpty /\ CopyIsSaved)'
    <3>1. ~spoiled /\ \A other \in Savers : ~Begun(other)
      BY <2>3, <2>7, <1>1
    <3>2. \A t \in Savers : Begun(t)' => t = s
      BY <3>1, <2>5 DEF Begun
    <3>3. file = saved
      BY <3>1 DEF StoreInv, KeptInv, FileIsSaved, Begun
    <3>4. file # Corrupt
      BY <1>1, <2>1, <3>3 DEF Corrupt
    <3>5. copy = [saved EXCEPT ![a] = n]
      BY <3>3, <3>4 DEF copy, read
    <3>6. OneSaves'
      BY <3>2 DEF OneSaves
    <3>7. FileIsSaved'
      BY <3>3, <2>3 DEF FileIsSaved
    <3>8. FilledFromEmpty'
      <4>1. \A t \in Savers : save'[t].at # "fill"
        BY <3>2, <2>4, <2>5 DEF Begun
      <4> QED BY <4>1 DEF FilledFromEmpty
    <3>9. CopyIsSaved'
      BY <3>2, <3>5, <2>3, <2>4, <2>5 DEF CopyIsSaved
    <3> QED BY <3>6, <3>7, <3>8, <3>9
  <2> QED BY <2>1, <2>4, <2>5, <2>6, <2>7 DEF StoreInv, KeptInv
<1>3. CASE OpenFile(s)
  <2> DEFINE v == [save[s] EXCEPT !.at = "fill"]
  <2>1. save[s].at = "open" /\ file' = Empty /\ save' = [save EXCEPT ![s] = v] /\ UNCHANGED <<saved, spoiled>>
    BY <1>3 DEF OpenFile
  <2>2. v \in Saves /\ v.at = "fill" /\ v.account = save[s].account /\ v.grant = save[s].grant /\ v.copy = save[s].copy
    BY <1>1, <2>1 DEF Saves, NotSaving
  <2> HIDE DEF v
  <2>3. save'[s] = v /\ \A t \in Savers \ {s} : save'[t] = save[t]
    BY <1>1, <2>1
  <2>4. StoreTypeOK'
    BY <1>1, <2>1, <2>2, EmptyType DEF StoreTypeOK
  <2>5. ASSUME ~spoiled
        PROVE  (OneSaves /\ FileIsSaved /\ FilledFromEmpty /\ CopyIsSaved)'
    <3>1. \A t \in Savers : Begun(t)' <=> Begun(t)
      BY <2>1, <2>2, <2>3 DEF Begun
    <3>2. \A t \in Savers : Begun(t) => t = s
      BY <2>5, <2>1 DEF StoreInv, KeptInv, OneSaves, Begun
    <3>3. OneSaves'
      BY <3>1, <3>2 DEF OneSaves
    <3>4. FileIsSaved'
      BY <2>2, <2>3 DEF FileIsSaved
    <3>5. FilledFromEmpty'
      BY <2>1 DEF FilledFromEmpty, Empty
    <3>6. save[s].copy = [saved EXCEPT ![save[s].account] = save[s].grant]
      BY <2>5, <2>1 DEF StoreInv, KeptInv, CopyIsSaved, Begun
    <3>7. saved' = saved /\ v.copy = [saved EXCEPT ![v.account] = v.grant]
      BY <3>6, <2>1, <2>2
    <3>8. CopyIsSaved'
      BY <3>1, <3>2, <3>7, <2>3 DEF CopyIsSaved
    <3> QED BY <3>3, <3>4, <3>5, <3>8
  <2> QED BY <2>1, <2>2, <2>3, <2>4, <2>5 DEF StoreInv, KeptInv
<1>4. CASE Fill(s)
  <2> DEFINE v == [at |-> "stored"]
  <2>1. /\ save[s].at = "fill"
        /\ file' \in {save[s].copy} \cup (IF file = Empty THEN {} ELSE {Corrupt})
        /\ saved' = [saved EXCEPT ![save[s].account] = save[s].grant]
        /\ save' = [save EXCEPT ![s] = v] /\ spoiled' = spoiled
    BY <1>4 DEF Fill
  <2>2. v \in Saves /\ v.at = "stored"
    BY DEF Saves
  <2> HIDE DEF v
  <2>3. save[s].account \in Accounts /\ save[s].grant \in Nat /\ save[s].copy \in [Accounts -> Nat]
    BY <1>1, <2>1, SaveStates
  <2>4. save'[s] = v /\ \A t \in Savers \ {s} : save'[t] = save[t]
    BY <1>1, <2>1
  <2>5. StoreTypeOK'
    <3>1. saved' \in [Accounts -> Nat]
      BY <1>1, <2>1, <2>3
    <3>2. file' \in [Accounts -> Nat] \cup {Corrupt}
      BY <2>1, <2>3
    <3>3. save' \in [Savers -> Saves]
      BY <1>1, <2>1, <2>2
    <3> QED BY <1>1, <2>1, <3>1, <3>2, <3>3 DEF StoreTypeOK
  <2>6. ASSUME ~spoiled
        PROVE  (OneSaves /\ FileIsSaved /\ FilledFromEmpty /\ CopyIsSaved)'
    <3>1. \A t \in Savers : Begun(t) => t = s
      BY <2>6, <2>1 DEF StoreInv, KeptInv, OneSaves, Begun
    <3>2. \A t \in Savers : ~Begun(t)'
      BY <3>1, <2>2, <2>4 DEF Begun
    <3>3. file' = saved'
      <4>1. file = Empty /\ save[s].copy = saved'
        BY <2>6, <2>1 DEF StoreInv, KeptInv, FilledFromEmpty, CopyIsSaved, Begun
      <4> QED BY <2>1, <4>1
    <3> QED BY <3>2, <3>3 DEF OneSaves, FileIsSaved, FilledFromEmpty, CopyIsSaved, Begun
  <2> QED BY <2>1, <2>2, <2>4, <2>5, <2>6 DEF StoreInv, KeptInv
<1>5. CASE FailToWrite(s)
  <2> DEFINE v == [at |-> "failed"]
  <2>1. Begun(s) /\ save' = [save EXCEPT ![s] = v] /\ saved' = saved
    BY <1>5 DEF FailToWrite
  <2>2. v \in Saves /\ v.at = "failed"
    BY DEF Saves
  <2> HIDE DEF v
  <2>3. save'[s] = v /\ \A t \in Savers \ {s} : save'[t] = save[t]
    BY <1>1, <2>1
  <2>4. CASE save[s].at = "open"
    <3>1. StoreInv'
      BY <1>5, <2>1, <2>2, <2>4, SaverSteps DEF FailToWrite
    <3> QED BY <3>1, <2>2, <2>3, <2>4
  <2>5. CASE save[s].at # "open"
    <3>1. file' = Corrupt /\ spoiled' = TRUE /\ save[s].at = "fill"
      BY <1>5, <2>1, <2>5 DEF FailToWrite, Begun
    <3>2. StoreTypeOK'
      BY <1>1, <2>1, <2>2, <3>1 DEF StoreTypeOK, Corrupt
    <3> QED BY <2>2, <2>3, <3>1, <3>2 DEF StoreInv, KeptInv
  <2> QED BY <2>4, <2>5
<1> QED BY <1>2, <1>3, <1>4, <1>5 DEF Store

\* A process dies with its savers: what one was filling is cut short.
LEMMA KillKeeps ==
  ASSUME StoreInv, NEW S \in SUBSET Savers, KillSavers(S)
  PROVE  /\ StoreInv'
         /\ \A s \in Savers : save'[s] = save[s] \/ (save'[s].at = "idle" /\ save[s].at \in {"load", "open", "fill"})
<1>1. save \in [Savers -> Saves] /\ spoiled \in BOOLEAN /\ NotSaving \in Saves /\ NotSaving.at = "idle"
  BY DEF StoreInv, StoreTypeOK, Saves, NotSaving
<1>2. /\ save' = [s \in Savers |-> IF s \in S /\ save[s].at \in {"load", "open", "fill"} THEN NotSaving ELSE save[s]]
      /\ spoiled' = (spoiled \/ \E s \in S : save[s].at = "fill")
      /\ UNCHANGED <<file, saved>>
  BY DEF KillSavers
<1> HIDE DEF NotSaving
<1>3. \A s \in Savers : save'[s] = save[s] \/ (save'[s].at = "idle" /\ save[s].at \in {"load", "open", "fill"})
  BY <1>1, <1>2
<1>4. StoreTypeOK'
  <2>1. save' \in [Savers -> Saves]
    BY <1>1, <1>2
  <2> QED BY <1>1, <1>2, <2>1 DEF StoreInv, StoreTypeOK
<1>5. ASSUME ~spoiled'
      PROVE  (OneSaves /\ FileIsSaved /\ FilledFromEmpty /\ CopyIsSaved)'
  <2>1. ~spoiled /\ \A s \in S : save[s].at # "fill"
    BY <1>1, <1>2, <1>5
  <2>2. \A s \in Savers : Begun(s)' => Begun(s) /\ save'[s] = save[s]
    BY <1>3 DEF Begun
  <2>3. (OneSaves /\ FilledFromEmpty /\ CopyIsSaved)'
    BY <1>2, <2>1, <2>2 DEF StoreInv, KeptInv, OneSaves, FilledFromEmpty, CopyIsSaved, Begun
  <2>4. FileIsSaved'
    <3> SUFFICES ASSUME \A s \in Savers : save'[s].at # "fill"
                 PROVE  file = saved
      BY <1>2 DEF FileIsSaved
    <3>1. \A s \in Savers : save[s].at # "fill"
      BY <1>1, <1>2, <2>1
    <3> QED BY <2>1, <3>1 DEF StoreInv, KeptInv, FileIsSaved
  <2> QED BY <2>3, <2>4
<1> QED BY <1>3, <1>4, <1>5 DEF StoreInv, KeptInv

(* -------------------------------- logins ------------------------------- *)

Flows == {"none", "waits", "exchanges", "fails", "stores", "stops", "ended"}

\* A login that saves, or has, is past the exchange of its code.
SavesLate == \A l \in Logins : save[l].at # "idle" => flow[l] \in {"stores", "stops", "ended"}

\* The server has stopped when the flow is past its deferred stop.
ServerStopped ==
  \A l \in Logins : flow[l] = "ended" \/ (l \in Interactive /\ flow[l] = "stores") => server[l] \in {"none", "stopped"}

LoginInv == LoginTypeOK /\ KeptInv /\ SavesLate /\ OwnCallback /\ StatusTruthful /\ ServerStopped

\* Of one login: what the invariants say of it.
LoginFine(f, t, s, v, q, l, wasLapsed) ==
  /\ s.at # "idle" => f \in {"stores", "stops", "ended"}
  /\ f \in {"exchanges", "stores"} \/ s.at # "idle" => t = [state |-> l, error |-> FALSE]
  /\ f = "ended" \/ (l \in Interactive /\ f = "stores") => v \in {"none", "stopped"}
  /\ l \in Managed /\ f # "none" =>
       /\ q = "gone" => wasLapsed \/ s.at = "stored"
       /\ q = "error" => s.at # "stored" /\ f \in {"stops", "ended"}
       /\ q = "wait" => f \notin {"stops", "ended"}
Fine(l) == LoginFine(flow[l], took[l], save[l], server[l], session[l], l, l \in lapsed)

LEMMA InvariantByLogin ==
  LoginTypeOK => (LoginInv <=> KeptInv /\ \A l \in Logins : Fine(l))
<1> SUFFICES ASSUME LoginTypeOK
             PROVE  LoginInv <=> KeptInv /\ \A l \in Logins : Fine(l)
  OBVIOUS
<1>1. \A l \in Logins : session[l] \in {"gone", "wait", "error"}
  BY DEF LoginTypeOK
<1>2. StatusTruthful <=>
        \A l \in Managed : flow[l] # "none" =>
          /\ session[l] = "gone" => l \in lapsed \/ save[l].at = "stored"
          /\ session[l] = "error" => save[l].at # "stored" /\ flow[l] \in {"stops", "ended"}
          /\ session[l] = "wait" => flow[l] \notin {"stops", "ended"}
  BY <1>1 DEF StatusTruthful, Status, Logins
<1>3. Managed \subseteq Logins
  BY DEF Logins
<1> QED BY <1>2, <1>3 DEF LoginInv, SavesLate, OwnCallback, ServerStopped, Fine, LoginFine

LEMMA InvariantByLoginNext ==
  (LoginTypeOK => (LoginInv <=> KeptInv /\ \A l \in Logins : Fine(l)))'
BY InvariantByLogin, PTL

LEMMA LoginsInitially == LoginInit => LoginInv
<1> SUFFICES ASSUME LoginInit
             PROVE  LoginInv
  OBVIOUS
<1>1. StoreInv
  BY StoreInitially DEF LoginInit
<1>2. <<>> \in Seq(Callbacks) /\ NoCallback \in Callbacks
  BY EmptySeq DEF NoCallback, Callbacks
<1>3. LoginTypeOK
  BY <1>1, <1>2, EmptyType DEF LoginInit, LoginTypeOK, StoreInv
<1>4. \A l \in Logins : flow[l] = "none" /\ save[l].at = "idle"
  BY LoginAssumption DEF LoginInit, StoreInit, NotSaving
<1>5. \A l \in Logins : Fine(l)
  BY <1>4 DEF Fine, LoginFine
<1> QED BY <1>1, <1>3, <1>5, InvariantByLogin DEF StoreInv

\* Of the logins: one of them, at most, changes.
OneChanges(l) ==
  \A k \in Logins \ {l} :
    /\ flow'[k] = flow[k] /\ took'[k] = took[k] /\ save'[k] = save[k]
    /\ server'[k] = server[k] /\ session'[k] = session[k] /\ (k \in lapsed => k \in lapsed')

LEMMA ByLogin ==
  ASSUME LoginInv, LoginTypeOK', KeptInv', NEW l \in Logins, OneChanges(l), Fine(l)'
  PROVE  LoginInv'
<1>1. \A k \in Logins : Fine(k)
  BY InvariantByLogin DEF LoginInv
<1>2. ASSUME NEW k \in Logins \ {l}
      PROVE  Fine(k)'
  BY <1>1, <1>2 DEF OneChanges, Fine, LoginFine
<1>3. \A k \in Logins : Fine(k)'
  BY <1>2
<1> QED BY <1>3, InvariantByLoginNext

LEMMA StoreUntouched ==
  ASSUME LoginInv, UNCHANGED storeVars
  PROVE  StoreTypeOK' /\ KeptInv'
<1>1. UNCHANGED <<file, save, saved, spoiled>> /\ StoreTypeOK /\ KeptInv
  BY DEF storeVars, LoginInv, LoginTypeOK
<1>2. StoreTypeOK'
  BY <1>1 DEF StoreTypeOK
<1>3. KeptInv'
  BY <1>1 DEF KeptInv, OneSaves, FileIsSaved, FilledFromEmpty, CopyIsSaved, Begun, Empty
<1> QED BY <1>2, <1>3

\* What is offered to a channel, or taken from it.
LEMMA ChannelTypes ==
  ASSUME NEW c \in Seq(Callbacks), NEW v \in Callbacks
  PROVE  Offer(c, v) \in Seq(Callbacks) /\ (c # <<>> => Head(c) \in Callbacks) /\ <<>> \in Seq(Callbacks)
<1>1. <<v>> \in Seq(Callbacks)
  OBVIOUS
<1>2. c # <<>> => Head(c) \in Callbacks
  BY HeadTailProperties
<1>3. <<>> \in Seq(Callbacks)
  BY EmptySeq
<1> QED BY <1>1, <1>2, <1>3 DEF Offer

\* Servers, browsers and clients: callbacks come in, and sessions run out.
LEMMA OutsideSteps ==
  ASSUME LoginInv, NEW l \in Logins,
         \/ Listen(l) \/ SubmitManagedLoginCallback(l) \/ ExpireSession(l)
         \/ \E k \in Logins : HandleCallback(k, l)
  PROVE  LoginInv'
<1>1. LoginTypeOK /\ Fine(l)
  BY InvariantByLogin DEF LoginInv
<1>2. CASE Listen(l)
  <2> DEFINE s == IF \E k \in Logins : Listening(k, Of[l]) THEN "failed" ELSE "listening"
  <2>1. /\ server[l] = "starting" /\ server' = [server EXCEPT ![l] = s]
        /\ UNCHANGED <<storeVars, flow, took, callbacks, errors, manual, session, lapsed, held, sent, grants, crashes>>
    BY <1>2 DEF Listen, Counters
  <2>2. s \in {"failed", "listening"}
    OBVIOUS
  <2> HIDE DEF s
  <2>3. StoreTypeOK' /\ KeptInv'
    BY <2>1, StoreUntouched
  <2>4. LoginTypeOK'
    BY <1>1, <2>1, <2>2, <2>3 DEF LoginTypeOK
  <2>5. OneChanges(l) /\ Fine(l)'
    BY <1>1, <2>1, <2>2 DEF OneChanges, Fine, LoginFine, LoginTypeOK, storeVars
  <2> QED BY <2>3, <2>4, <2>5, ByLogin
<1>3. CASE SubmitManagedLoginCallback(l)
  <2>1. PICK error \in BOOLEAN : manual' = [manual EXCEPT ![l] = Offer(manual[l], [state |-> l, error |-> error])]
    BY <1>3 DEF SubmitManagedLoginCallback
  <2>2. /\ sent' = [sent EXCEPT ![l] = sent[l] + 1]
        /\ UNCHANGED <<storeVars, flow, took, server, callbacks, errors, session, lapsed, held, grants, crashes>>
    BY <1>3 DEF SubmitManagedLoginCallback, CanCall
  <2>3. StoreTypeOK' /\ KeptInv'
    BY <2>2, StoreUntouched
  <2> DEFINE o == Offer(manual[l], [state |-> l, error |-> error])
  <2>4. o \in Seq(Callbacks)
    <3>1. manual[l] \in Seq(Callbacks) /\ [state |-> l, error |-> error] \in Callbacks
      BY <1>1 DEF LoginTypeOK, Callbacks
    <3> QED BY <3>1, ChannelTypes
  <2> HIDE DEF o
  <2>5. manual' \in [Logins -> Seq(Callbacks)] /\ sent' \in [Logins -> Nat]
    <3>1. manual' = [manual EXCEPT ![l] = o]
      BY <2>1 DEF o
    <3> QED BY <1>1, <2>2, <2>4, <3>1 DEF LoginTypeOK
  <2>6. LoginTypeOK'
    BY <1>1, <2>2, <2>3, <2>5 DEF LoginTypeOK
  <2>7. OneChanges(l) /\ Fine(l)'
    BY <1>1, <2>2 DEF OneChanges, Fine, LoginFine, storeVars
  <2> QED BY <2>3, <2>6, <2>7, ByLogin
<1>4. CASE ExpireSession(l)
  <2>1. /\ session' = [session EXCEPT ![l] = "gone"] /\ lapsed' = lapsed \cup {l}
        /\ UNCHANGED <<storeVars, flow, took, server, callbacks, errors, manual, held, sent, grants, crashes>>
    BY <1>4 DEF ExpireSession, Counters
  <2>2. StoreTypeOK' /\ KeptInv'
    BY <2>1, StoreUntouched
  <2>3. LoginTypeOK'
    BY <1>1, <2>1, <2>2 DEF LoginTypeOK
  <2>4. OneChanges(l) /\ Fine(l)'
    BY <1>1, <2>1 DEF OneChanges, Fine, LoginFine, LoginTypeOK, storeVars
  <2> QED BY <2>2, <2>3, <2>4, ByLogin
<1>5. ASSUME NEW k \in Logins, HandleCallback(k, l)
      PROVE  LoginInv'
  <2> DEFINE o == Offer(callbacks[k], [state |-> l, error |-> FALSE])
  <2>1. /\ errors' = [errors EXCEPT ![k] = TRUE] \/ errors' = errors
        /\ callbacks' = [callbacks EXCEPT ![k] = o] \/ callbacks' = callbacks
        /\ sent' = [sent EXCEPT ![l] = sent[l] + 1]
        /\ UNCHANGED <<storeVars, flow, took, server, manual, session, lapsed, held, grants, crashes>>
    BY <1>5 DEF HandleCallback, CanCall
  <2>2. StoreTypeOK' /\ KeptInv'
    BY <2>1, StoreUntouched
  <2>3. o \in Seq(Callbacks)
    <3>1. callbacks[k] \in Seq(Callbacks) /\ [state |-> l, error |-> FALSE] \in Callbacks
      BY <1>1 DEF LoginTypeOK, Callbacks
    <3> QED BY <3>1, ChannelTypes
  <2> HIDE DEF o
  <2>4. errors' \in [Logins -> BOOLEAN]
    BY <1>1, <2>1 DEF LoginTypeOK
  <2>5. callbacks' \in [Logins -> Seq(Callbacks)]
    BY <1>1, <2>1, <2>3 DEF LoginTypeOK
  <2>6. sent' \in [Logins -> Nat]
    BY <1>1, <2>1 DEF LoginTypeOK
  <2>7. LoginTypeOK'
    BY <1>1, <2>1, <2>2, <2>4, <2>5, <2>6 DEF LoginTypeOK
  <2>8. OneChanges(l) /\ Fine(l)'
    BY <1>1, <2>1 DEF OneChanges, Fine, LoginFine, storeVars
  <2> QED BY <2>2, <2>7, <2>8, ByLogin
<1> QED BY <1>2, <1>3, <1>4, <1>5

\* A login begins, and takes a callback, an error or its time-out.
LEMMA WaitSteps ==
  ASSUME LoginInv, NEW l \in Logins,
         \/ BeginManagedLogin(l) \/ LoginInteractive(l)
         \/ TakeCallback(l) \/ TakeManual(l) \/ TakeError(l) \/ TimeOut(l)
  PROVE  LoginInv'
<1>1. LoginTypeOK /\ Fine(l)
  BY InvariantByLogin DEF LoginInv
<1>2. ASSUME NEW registered \in {"wait", "gone"}, Begin(l, registered), l \in Managed => registered = "wait"
      PROVE  LoginInv'
  <2> DEFINE s == IF Of[l] \in Served THEN "starting" ELSE "none"
  <2>1. /\ flow[l] = "none" /\ flow' = [flow EXCEPT ![l] = "waits"] /\ server' = [server EXCEPT ![l] = s]
        /\ session' = [session EXCEPT ![l] = registered]
        /\ UNCHANGED <<storeVars, took, callbacks, errors, manual, lapsed, held, sent, grants, crashes>>
    BY <1>2 DEF Begin, Counters
  <2>2. s \in {"starting", "none"}
    OBVIOUS
  <2> HIDE DEF s
  <2>3. StoreTypeOK' /\ KeptInv'
    BY <2>1, StoreUntouched
  <2>4. LoginTypeOK'
    BY <1>1, <2>1, <2>2, <2>3 DEF LoginTypeOK
  <2>5. OneChanges(l)
    BY <1>1, <2>1 DEF OneChanges, LoginTypeOK, storeVars
  <2>6. Fine(l)'
    BY <1>1, <1>2, <2>1 DEF Fine, LoginFine, LoginTypeOK, storeVars
  <2> QED BY <2>3, <2>4, <2>5, <2>6, ByLogin
<1>3. ASSUME NEW c \in Callbacks, flow[l] = "waits", Take(l, c),
             callbacks' \in [Logins -> Seq(Callbacks)], manual' \in [Logins -> Seq(Callbacks)],
             UNCHANGED <<storeVars, server, errors, session, lapsed, Counters>>
      PROVE  LoginInv'
  <2> DEFINE f == IF Accepted(l, c) THEN "exchanges" ELSE "fails"
  <2>1. took' = [took EXCEPT ![l] = c] /\ flow' = [flow EXCEPT ![l] = f]
        /\ UNCHANGED <<storeVars, server, errors, session, lapsed, held, sent, grants, crashes>>
    BY <1>3 DEF Take, GoesOn, Counters
  <2>2. f \in {"exchanges", "fails"} /\ (f = "exchanges" => c = [state |-> l, error |-> FALSE])
    BY DEF Accepted, Callbacks
  <2> HIDE DEF f
  <2>3. StoreTypeOK' /\ KeptInv'
    BY <2>1, StoreUntouched
  <2>4. LoginTypeOK'
    BY <1>1, <1>3, <2>1, <2>2, <2>3 DEF LoginTypeOK
  <2>5. OneChanges(l)
    BY <1>1, <2>1 DEF OneChanges, LoginTypeOK, storeVars
  <2>6. Fine(l)'
    BY <1>1, <1>3, <2>1, <2>2 DEF Fine, LoginFine, LoginTypeOK, storeVars
  <2> QED BY <2>3, <2>4, <2>5, <2>6, ByLogin
<1>4. ASSUME flow[l] = "waits", GoesOn(l, "fails"), errors' \in [Logins -> BOOLEAN],
             UNCHANGED <<storeVars, took, server, callbacks, manual, session, lapsed, Counters>>
      PROVE  LoginInv'
  <2>1. flow' = [flow EXCEPT ![l] = "fails"]
        /\ UNCHANGED <<storeVars, took, server, callbacks, manual, session, lapsed, held, sent, grants, crashes>>
    BY <1>4 DEF GoesOn, Counters
  <2>2. StoreTypeOK' /\ KeptInv'
    BY <2>1, StoreUntouched
  <2>3. LoginTypeOK'
    BY <1>1, <1>4, <2>1, <2>2 DEF LoginTypeOK
  <2>4. OneChanges(l) /\ Fine(l)'
    BY <1>1, <1>4, <2>1 DEF OneChanges, Fine, LoginFine, LoginTypeOK, storeVars
  <2> QED BY <2>2, <2>3, <2>4, ByLogin
<1>5. CASE BeginManagedLogin(l)
  BY <1>2, <1>5 DEF BeginManagedLogin
<1>6. CASE LoginInteractive(l)
  BY <1>2, <1>6, LoginAssumption DEF LoginInteractive
<1>7. CASE TakeCallback(l)
  <2>1. callbacks[l] \in Seq(Callbacks) /\ callbacks[l] # <<>>
    BY <1>1, <1>7 DEF TakeCallback, LoginTypeOK
  <2>2. Head(callbacks[l]) \in Callbacks /\ <<>> \in Seq(Callbacks)
    BY <2>1, HeadTailProperties, EmptySeq
  <2>3. callbacks' \in [Logins -> Seq(Callbacks)] /\ manual' \in [Logins -> Seq(Callbacks)]
    BY <1>1, <1>7, <2>2 DEF TakeCallback, LoginTypeOK
  <2> QED BY <1>3, <1>7, <2>2, <2>3 DEF TakeCallback
<1>8. CASE TakeManual(l)
  <2>1. manual[l] \in Seq(Callbacks) /\ manual[l] # <<>>
    BY <1>1, <1>8 DEF TakeManual, LoginTypeOK
  <2>2. Head(manual[l]) \in Callbacks /\ <<>> \in Seq(Callbacks)
    BY <2>1, HeadTailProperties, EmptySeq
  <2>3. callbacks' \in [Logins -> Seq(Callbacks)] /\ manual' \in [Logins -> Seq(Callbacks)]
    BY <1>1, <1>8, <2>2 DEF TakeManual, LoginTypeOK
  <2> QED BY <1>3, <1>8, <2>2, <2>3 DEF TakeManual
<1>9. CASE TakeError(l)
  <2>1. errors' \in [Logins -> BOOLEAN]
    BY <1>1, <1>9 DEF TakeError, LoginTypeOK
  <2> QED BY <1>4, <1>9, <2>1 DEF TakeError
<1>10. CASE TimeOut(l)
  <2>1. errors' \in [Logins -> BOOLEAN]
    BY <1>1, <1>10 DEF TimeOut, LoginTypeOK
  <2> QED BY <1>4, <1>10, <2>1 DEF TimeOut
<1> QED BY <1>5, <1>6, <1>7, <1>8, <1>9, <1>10

\* A saver that is idle begins to store what it was granted.
LEMMA BeginsKeeps ==
  ASSUME StoreInv, NEW s \in Savers, NEW a \in Accounts, grants \in Nat, save[s].at # "fill", Begins(s, a)
  PROVE  /\ StoreInv' /\ grants' \in Nat
         /\ save'[s].at = "load" /\ \A t \in Savers \ {s} : save'[t] = save[t]
<1> DEFINE v == Storing(a, grants')
<1>1. grants' \in Nat /\ save' = [save EXCEPT ![s] = v] /\ UNCHANGED <<file, saved, spoiled>>
  BY DEF Begins
<1>2. v \in Saves /\ v.at = "load"
  BY <1>1 DEF Storing, Saves
<1> HIDE DEF v
<1>3. StoreInv'
  BY <1>1, <1>2, SaverSteps
<1>4. save \in [Savers -> Saves]
  BY DEF StoreInv, StoreTypeOK
<1> QED BY <1>1, <1>2, <1>3, <1>4

\* A login trades in its code, stores what it is granted, tells its client
\* and stops its server.
LEMMA EndSteps ==
  ASSUME LoginInv, NEW l \in Logins,
         FailLogin(l) \/ Exchange(l) \/ StoreStep(l) \/ Stored(l) \/ StopServer(l)
  PROVE  LoginInv'
<1>1. LoginTypeOK /\ Fine(l) /\ StoreInv
  BY InvariantByLogin DEF LoginInv, LoginTypeOK, StoreInv
<1>2. l \in Savers /\ (l \in Managed <=> l \notin Interactive)
  BY LoginAssumption DEF Logins
<1>3. CASE FailLogin(l)
  <2> DEFINE q == IF session[l] = "gone" THEN session[l] ELSE "error"
  <2>1. /\ flow[l] = "fails" /\ flow' = [flow EXCEPT ![l] = "stops"] /\ session' = [session EXCEPT ![l] = q]
        /\ UNCHANGED <<storeVars, took, server, callbacks, errors, manual, lapsed, held, sent, grants, crashes>>
    BY <1>3 DEF FailLogin, SetError, GoesOn, Counters
  <2>2. q \in {"gone", "error"} /\ (q = "gone" => session[l] = "gone")
    OBVIOUS
  <2> HIDE DEF q
  <2>3. StoreTypeOK' /\ KeptInv'
    BY <2>1, StoreUntouched
  <2>4. LoginTypeOK'
    BY <1>1, <2>1, <2>2, <2>3 DEF LoginTypeOK
  <2>5. OneChanges(l) /\ Fine(l)'
    BY <1>1, <1>2, <2>1, <2>2 DEF OneChanges, Fine, LoginFine, LoginTypeOK, storeVars
  <2> QED BY <2>3, <2>4, <2>5, ByLogin
<1>4. CASE Exchange(l)
  <2>1. flow[l] = "exchanges" /\ UNCHANGED <<took, server, callbacks, errors, manual, session, lapsed, held, sent, crashes>>
    BY <1>4 DEF Exchange
  <2>2. save[l].at = "idle"
    BY <1>1, <2>1 DEF Fine, LoginFine
  <2>3. ASSUME NEW a \in Accounts, Begins(l, a), GoesOn(l, IF l \in Managed THEN "stores" ELSE "stops")
        PROVE  LoginInv'
    <3> DEFINE f == IF l \in Managed THEN "stores" ELSE "stops"
    <3>1. StoreInv' /\ grants' \in Nat /\ save'[l].at = "load" /\ \A t \in Savers \ {l} : save'[t] = save[t]
      BY <1>1, <1>2, <2>2, <2>3, BeginsKeeps DEF LoginTypeOK
    <3>2. flow' = [flow EXCEPT ![l] = f] /\ f \in {"stores", "stops"} /\ (l \in Managed <=> f = "stores")
      BY <2>3 DEF GoesOn
    <3> HIDE DEF f
    <3>3. LoginTypeOK' /\ KeptInv'
      BY <1>1, <2>1, <3>1, <3>2 DEF LoginTypeOK, StoreInv
    <3>4. OneChanges(l)
      BY <1>1, <2>1, <3>1, <3>2, LoginAssumption DEF OneChanges, LoginTypeOK
    <3>5. Fine(l)'
      BY <1>1, <1>2, <2>1, <2>2, <3>1, <3>2 DEF Fine, LoginFine, LoginTypeOK
    <3> QED BY <3>3, <3>4, <3>5, ByLogin
  <2>4. CASE GoesOn(l, "fails") /\ UNCHANGED <<storeVars, grants>>
    <3>1. flow' = [flow EXCEPT ![l] = "fails"]
      BY <2>4 DEF GoesOn
    <3>2. StoreTypeOK' /\ KeptInv'
      BY <2>4, StoreUntouched
    <3>3. LoginTypeOK'
      BY <1>1, <2>1, <2>4, <3>1, <3>2 DEF LoginTypeOK
    <3>4. OneChanges(l) /\ Fine(l)'
      BY <1>1, <2>1, <2>2, <2>4, <3>1 DEF OneChanges, Fine, LoginFine, LoginTypeOK, storeVars
    <3> QED BY <3>2, <3>3, <3>4, ByLogin
  <2> QED BY <1>4, <2>3, <2>4 DEF Exchange
<1>5. CASE StoreStep(l)
  <2>1. flow[l] = "stores" /\ Store(l)
        /\ UNCHANGED <<flow, took, server, callbacks, errors, manual, session, lapsed, held, sent, grants, crashes>>
    BY <1>5 DEF StoreStep, flowVars, Counters
  <2>2. StoreInv' /\ save[l].at \in {"load", "open", "fill"} /\ \A t \in Savers \ {l} : save'[t] = save[t]
    BY <1>1, <1>2, <2>1, StoreSteps
  <2>3. LoginTypeOK' /\ KeptInv'
    BY <1>1, <2>1, <2>2 DEF LoginTypeOK, StoreInv
  <2>4. OneChanges(l)
    BY <2>1, <2>2, LoginAssumption DEF OneChanges
  <2>5. Fine(l)'
    BY <1>1, <2>1, <2>2 DEF Fine, LoginFine, LoginTypeOK
  <2> QED BY <2>3, <2>4, <2>5, ByLogin
<1>6. CASE Stored(l)
  <2> DEFINE q == IF save[l].at = "stored" THEN "gone" ELSE IF session[l] = "gone" THEN session[l] ELSE "error"
             f == IF l \in Managed THEN "stops" ELSE "ended"
  <2>1. /\ flow[l] = "stores" /\ save[l].at \in {"stored", "failed"}
        /\ flow' = [flow EXCEPT ![l] = f] /\ session' = [session EXCEPT ![l] = q]
        /\ UNCHANGED <<storeVars, took, server, callbacks, errors, manual, lapsed, held, sent, grants, crashes>>
    BY <1>6 DEF Stored, Complete, SetError, GoesOn, Counters
  <2>2. /\ q \in {"gone", "error"} /\ (q = "gone" => session[l] = "gone" \/ save[l].at = "stored")
        /\ q = "error" => save[l].at # "stored"
        /\ f \in {"stops", "ended"} /\ (l \in Managed <=> f = "stops")
    OBVIOUS
  <2> HIDE DEF q, f
  <2>3. StoreTypeOK' /\ KeptInv'
    BY <2>1, StoreUntouched
  <2>4. LoginTypeOK'
    BY <1>1, <2>1, <2>2, <2>3 DEF LoginTypeOK
  <2>5. OneChanges(l)
    BY <1>1, <2>1 DEF OneChanges, LoginTypeOK, storeVars
  <2>6. Fine(l)'
    BY <1>1, <1>2, <2>1, <2>2 DEF Fine, LoginFine, LoginTypeOK, storeVars
  <2> QED BY <2>3, <2>4, <2>5, <2>6, ByLogin
<1>7. CASE StopServer(l)
  <2> DEFINE v == IF server[l] = "none" THEN server[l] ELSE "stopped"
             f == IF l \in Interactive /\ save[l].at = "load" THEN "stores" ELSE "ended"
  <2>1. /\ flow[l] = "stops" /\ server' = [server EXCEPT ![l] = v] /\ flow' = [flow EXCEPT ![l] = f]
        /\ UNCHANGED <<storeVars, took, callbacks, errors, manual, session, lapsed, held, sent, grants, crashes>>
    BY <1>7 DEF StopServer, GoesOn, Counters
  <2>2. /\ v \in {"none", "stopped"} /\ f \in {"stores", "ended"}
        /\ f = "stores" => l \in Interactive /\ save[l].at = "load"
    OBVIOUS
  <2> HIDE DEF v, f
  <2>3. StoreTypeOK' /\ KeptInv'
    BY <2>1, StoreUntouched
  <2>4. LoginTypeOK'
    BY <1>1, <2>1, <2>2, <2>3 DEF LoginTypeOK
  <2>5. OneChanges(l)
    BY <1>1, <2>1 DEF OneChanges, LoginTypeOK, storeVars
  <2>6. Fine(l)'
    BY <1>1, <1>2, <2>1, <2>2 DEF Fine, LoginFine, LoginTypeOK, storeVars
  <2> QED BY <2>3, <2>4, <2>5, <2>6, ByLogin
<1> QED BY <1>3, <1>4, <1>5, <1>6, <1>7

\* The refresh of a provider is a saver of its own, and no login's.
LEMMA RefreshSteps ==
  ASSUME LoginInv, NEW p \in LoginProviders, StoreRefreshed(p) \/ \E a \in Accounts : Refresh(p, a)
  PROVE  LoginInv'
<1>1. LoginTypeOK /\ StoreInv /\ p \in Savers /\ p \notin Logins /\ Logins \subseteq Savers
  BY LoginAssumption DEF LoginInv, LoginTypeOK, StoreInv
<1>2. /\ StoreInv' /\ held' \in [Accounts -> Nat] /\ grants' \in Nat
      /\ \A t \in Savers \ {p} : save'[t] = save[t]
      /\ UNCHANGED <<flow, took, server, callbacks, errors, manual, session, lapsed, sent, crashes>>
  <2>1. CASE StoreRefreshed(p)
    <3>1. UNCHANGED <<flow, took, server, callbacks, errors, manual, session, lapsed, held, sent, grants, crashes>>
      BY <2>1 DEF StoreRefreshed, flowVars, Counters
    <3>2. CASE Store(p)
      BY <1>1, <3>1, <3>2, StoreSteps DEF LoginTypeOK
    <3>3. CASE /\ save[p].at \in {"stored", "failed"}
               /\ save' = [save EXCEPT ![p] = NotSaving]
               /\ UNCHANGED <<file, saved, spoiled>>
      <4>1. NotSaving \in Saves /\ NotSaving.at = "idle"
        BY DEF Saves, NotSaving
      <4> HIDE DEF NotSaving
      <4>2. StoreInv'
        BY <1>1, <3>3, <4>1, SaverSteps
      <4>3. save \in [Savers -> Saves]
        BY <1>1 DEF StoreInv, StoreTypeOK
      <4> QED BY <1>1, <3>1, <3>3, <4>2, <4>3 DEF LoginTypeOK
    <3> QED BY <2>1, <3>2, <3>3 DEF StoreRefreshed
  <2>2. ASSUME NEW a \in Accounts, Refresh(p, a)
        PROVE  /\ StoreInv' /\ held' \in [Accounts -> Nat] /\ grants' \in Nat
               /\ \A t \in Savers \ {p} : save'[t] = save[t]
               /\ UNCHANGED <<flow, took, server, callbacks, errors, manual, session, lapsed, sent, crashes>>
    <3>1. /\ save[p].at = "idle" /\ Begins(p, a) /\ held' = [held EXCEPT ![a] = grants']
          /\ UNCHANGED <<flow, took, server, callbacks, errors, manual, session, lapsed, sent, crashes>>
      BY <2>2 DEF Refresh, flowVars
    <3>2. StoreInv' /\ grants' \in Nat /\ \A t \in Savers \ {p} : save'[t] = save[t]
      BY <1>1, <3>1, BeginsKeeps DEF LoginTypeOK
    <3>3. held' \in [Accounts -> Nat]
      BY <1>1, <3>1, <3>2 DEF LoginTypeOK
    <3> QED BY <3>1, <3>2, <3>3
  <2> QED BY <2>1, <2>2
<1>3. LoginTypeOK' /\ KeptInv'
  BY <1>1, <1>2 DEF LoginTypeOK, StoreInv
<1>4. \A l \in Logins : Fine(l)
  BY <1>1, InvariantByLogin DEF LoginInv
<1>5. \A l \in Logins : Fine(l)'
  <2> SUFFICES ASSUME NEW l \in Logins
               PROVE  Fine(l)'
    OBVIOUS
  <2>1. save'[l] = save[l]
    BY <1>1, <1>2
  <2> QED BY <1>2, <1>4, <2>1 DEF Fine, LoginFine
<1> QED BY <1>3, <1>5, InvariantByLoginNext

\* The server process ends and its successor begins: what it had been doing
\* is over, and its clients are told of logins that are unknown.
LEMMA RestartKeeps ==
  ASSUME LoginInv, RestartServer
  PROVE  LoginInv'
<1>1. LoginTypeOK /\ StoreInv /\ Logins \subseteq Savers /\ Managed \cup LoginProviders \subseteq Savers
  BY LoginAssumption DEF LoginInv, LoginTypeOK, StoreInv, Logins
<1>2. /\ StoreInv'
      /\ \A s \in Savers : save'[s] = save[s] \/ (save'[s].at = "idle" /\ save[s].at \in {"load", "open", "fill"})
  BY <1>1, KillKeeps DEF RestartServer
<1>3. LoginTypeOK'
  <2>1. <<>> \in Seq(Callbacks)
    BY EmptySeq
  <2>2. flow' \in [Logins -> Flows] /\ server' \in [Logins -> {"none", "starting", "listening", "failed", "stopped"}]
    BY <1>1 DEF RestartServer, LoginTypeOK, Flows
  <2>3. callbacks' \in [Logins -> Seq(Callbacks)] /\ manual' \in [Logins -> Seq(Callbacks)]
    BY <1>1, <2>1 DEF RestartServer, LoginTypeOK
  <2>4. errors' \in [Logins -> BOOLEAN]
    BY <1>1 DEF RestartServer, LoginTypeOK
  <2>5. session' \in [Logins -> {"gone", "wait", "error"}] /\ lapsed' \subseteq Logins
    BY <1>1 DEF RestartServer, LoginTypeOK, Logins
  <2>6. held' \in [Accounts -> Nat]
    <3>1. file \in [Accounts -> Nat] \cup {Corrupt} /\ held' = IF file = Corrupt THEN Empty ELSE file
      BY <1>1 DEF RestartServer, StoreInv, StoreTypeOK
    <3> QED BY <3>1, EmptyType
  <2>7. took' = took /\ sent' = sent /\ grants' = grants /\ crashes' = crashes + 1
    BY DEF RestartServer
  <2> QED BY <1>1, <1>2, <2>2, <2>3, <2>4, <2>5, <2>6, <2>7 DEF LoginTypeOK, StoreInv, Flows
<1>4. ASSUME NEW l \in Logins
      PROVE  Fine(l)'
  <2>1. Fine(l)
    BY <1>1, InvariantByLogin DEF LoginInv
  <2>2. save'[l] = save[l] \/ (save'[l].at = "idle" /\ save[l].at \in {"load", "open", "fill"})
    BY <1>1, <1>2
  <2>3. /\ flow'[l] = IF l \in Managed /\ flow[l] # "none" THEN "ended" ELSE flow[l]
        /\ server'[l] = IF l \in Managed /\ server[l] # "none" THEN "stopped" ELSE server[l]
        /\ took'[l] = took[l] /\ session'[l] = "gone"
        /\ l \in Managed => (l \in lapsed' <=> l \in lapsed \/ session[l] # "gone")
    BY DEF RestartServer
  <2>4. l \in Managed <=> l \notin Interactive
    BY LoginAssumption DEF Logins
  <2> QED BY <2>1, <2>2, <2>3, <2>4 DEF Fine, LoginFine
<1> QED BY <1>2, <1>3, <1>4, InvariantByLoginNext DEF StoreInv

(* -------------------------------- results ------------------------------ *)

LEMMA LoginsHoldAlways == LoginSpec => []LoginInv
<1>1. LoginInit => LoginInv
  BY LoginsInitially
<1>2. LoginInv /\ [LoginNext]_loginVars => LoginInv'
  <2> SUFFICES ASSUME LoginInv, [LoginNext]_loginVars
               PROVE  LoginInv'
    OBVIOUS
  <2>1. CASE UNCHANGED loginVars
    <3>1. /\ UNCHANGED storeVars
          /\ UNCHANGED <<flow, took, server, callbacks, errors, manual, session, lapsed, held, sent, grants, crashes>>
      BY <2>1 DEF loginVars, flowVars
    <3>2. StoreTypeOK' /\ KeptInv'
      BY <3>1, StoreUntouched
    <3>3. LoginTypeOK' /\ \A l \in Logins : Fine(l)'
      BY <3>1, <3>2, InvariantByLogin DEF LoginInv, LoginTypeOK, Fine, LoginFine, storeVars
    <3> QED BY <3>2, <3>3, InvariantByLoginNext
  <2>2. ASSUME NEW l \in Logins, Continues(l)
        PROVE  LoginInv'
    BY <2>2, WaitSteps, EndSteps DEF Continues
  <2> QED BY <2>1, <2>2, OutsideSteps, WaitSteps, RefreshSteps, RestartKeeps DEF LoginNext
<1> QED BY <1>1, <1>2, PTL DEF LoginSpec

\* Flows, servers, channels, sessions and the store have their types.
THEOREM LoginsTypeCorrect == LoginSpec => []LoginTypeOK
<1>1. LoginInv => LoginTypeOK
  BY DEF LoginInv
<1> QED BY <1>1, LoginsHoldAlways, PTL

\* The code that a login trades in came with its own callback, and a client
\* is told of its login what is true: for any number of logins that share a
\* port, whichever of them listens and whenever the process ends.
THEOREM LoginsAreHeld == LoginSpec => []LoginsHold
<1>1. LoginInv => LoginsHold
  BY DEF LoginInv, LoginsHold
<1> QED BY <1>1, LoginsHoldAlways, PTL

\* Saves by any number of processes lose no credential as long as they do not
\* overlap and none is cut short.
THEOREM CredentialsAreKept == LoginSpec => []CredentialsKept
<1>1. LoginInv => CredentialsKept
  BY DEF LoginInv, KeptInv, FileIsSaved, CredentialsKept
<1> QED BY <1>1, LoginsHoldAlways, PTL

\* However a login ends, its callback server gives up the port.
THEOREM PortsAreReleased == LoginSpec => []PortReleased
<1>1. LoginInv => PortReleased
  BY DEF LoginInv, ServerStopped, PortReleased
<1> QED BY <1>1, LoginsHoldAlways, PTL


(* ------------------------------- sequences ----------------------------- *)

LEMMA ToSetOfAppend ==
  ASSUME NEW S, NEW s \in Seq(S), NEW e \in S
  PROVE  Append(s, e) \in Seq(S) /\ ToSet(Append(s, e)) = ToSet(s) \cup {e}
<1>1. /\ Append(s, e) \in Seq(S)
      /\ Len(Append(s, e)) = Len(s) + 1
      /\ Append(s, e)[Len(s) + 1] = e
      /\ \A i \in 1..Len(s) : Append(s, e)[i] = s[i]
  BY AppendProperties
<1>2. DOMAIN s = 1..Len(s) /\ DOMAIN Append(s, e) = 1..(Len(s) + 1) /\ Len(s) \in Nat
  BY <1>1
<1>3. ASSUME NEW x \in ToSet(Append(s, e))
      PROVE  x \in ToSet(s) \cup {e}
  <2>1. PICK i \in 1..(Len(s) + 1) : Append(s, e)[i] = x
    BY <1>2, <1>3 DEF ToSet
  <2>2. i \in 1..Len(s) \/ i = Len(s) + 1
    BY <1>2
  <2> QED BY <1>1, <1>2, <2>1, <2>2 DEF ToSet
<1>4. ASSUME NEW x \in ToSet(s)
      PROVE  x \in ToSet(Append(s, e))
  <2>1. PICK i \in 1..Len(s) : s[i] = x
    BY <1>2, <1>4 DEF ToSet
  <2>2. i \in 1..(Len(s) + 1) /\ Append(s, e)[i] = x
    BY <1>1, <1>2, <2>1
  <2> QED BY <1>2, <2>2 DEF ToSet
<1>5. e \in ToSet(Append(s, e))
  BY <1>1, <1>2, Len(s) + 1 \in 1..(Len(s) + 1) DEF ToSet
<1> QED BY <1>1, <1>3, <1>4, <1>5

LEMMA ToSetOfTail ==
  ASSUME NEW S, NEW s \in Seq(S), s # <<>>
  PROVE  /\ Head(s) \in S /\ Tail(s) \in Seq(S) /\ Len(Tail(s)) = Len(s) - 1
         /\ ToSet(s) = {Head(s)} \cup ToSet(Tail(s))
<1>1. /\ Head(s) \in S
      /\ Tail(s) \in Seq(S)
      /\ Len(Tail(s)) = Len(s) - 1
      /\ \A i \in 1..Len(Tail(s)) : Tail(s)[i] = s[i + 1]
  BY HeadTailProperties
<1>2. DOMAIN s = 1..Len(s) /\ DOMAIN Tail(s) = 1..(Len(s) - 1) /\ Len(s) \in Nat /\ Len(s) > 0 /\ Head(s) = s[1]
  BY <1>1, EmptySeq
<1>3. ASSUME NEW x \in ToSet(s)
      PROVE  x \in {Head(s)} \cup ToSet(Tail(s))
  <2>1. PICK i \in 1..Len(s) : s[i] = x
    BY <1>2, <1>3 DEF ToSet
  <2>2. CASE i = 1
    BY <1>2, <2>1, <2>2
  <2>3. CASE i # 1
    <3>1. i - 1 \in 1..(Len(s) - 1) /\ Tail(s)[i - 1] = x
      BY <1>1, <1>2, <2>1, <2>3
    <3> QED BY <1>2, <3>1 DEF ToSet
  <2> QED BY <2>2, <2>3
<1>4. ASSUME NEW x \in ToSet(Tail(s))
      PROVE  x \in ToSet(s)
  <2>1. PICK i \in 1..(Len(s) - 1) : Tail(s)[i] = x
    BY <1>2, <1>4 DEF ToSet
  <2>2. i + 1 \in 1..Len(s) /\ s[i + 1] = x
    BY <1>1, <1>2, <2>1
  <2> QED BY <1>2, <2>2 DEF ToSet
<1>5. Head(s) \in ToSet(s)
  BY <1>2, 1 \in 1..Len(s) DEF ToSet
<1> QED BY <1>1, <1>3, <1>4, <1>5

(* --------------------------------- types ------------------------------- *)

\* EventsNext, one disjunct for each kind of step; the proofs split on it.
LEMMA NextCases ==
  ASSUME EventsNext
  PROVE  \/ \E c \in Clients : Subscribe(c) \/ Receive(c) \/ ReceiveDone(c) \/ Leave(c)
         \/ \E r \in Runs : StartRun(r) \/ Publish(r) \/ Sent(r) \/ FailRun(r) \/ Finish(r)
         \/ \E r \in Runs, c \in Clients : Send(r, c)
BY DEF EventsNext, Handler, Runner

LEMMA OneEvent == 1 \in 1..ErrorEvent
BY EventsAssumption DEF ErrorEvent

\* What a step may make of a run.
LEMMA RunMoves ==
  ASSUME NEW s \in RunState, NEW pc \in {"idle", "ready", "send", "finish", "over"}, NEW n \in 1..ErrorEvent
  PROVE  /\ [s EXCEPT !.pc = pc] \in RunState
         /\ [s EXCEPT !.next = n] \in RunState
         /\ [s EXCEPT !.pc = pc, !.next = n] \in RunState
<1>1. [s EXCEPT !.pc = pc] \in RunState
  BY DEF RunState
<1>2. [s EXCEPT !.next = n] \in RunState
  BY DEF RunState
<1>3. [s EXCEPT !.pc = pc, !.next = n] \in RunState
  BY DEF RunState
<1> QED BY <1>1, <1>2, <1>3

LEMMA RunTargets ==
  ASSUME NEW s \in RunState, NEW T \in SUBSET Clients
  PROVE  /\ [s EXCEPT !.targets = T] \in RunState
         /\ [s EXCEPT !.pc = "send", !.targets = T] \in RunState
<1>1. [s EXCEPT !.targets = T] \in RunState
  BY DEF RunState
<1>2. [s EXCEPT !.pc = "send", !.targets = T] \in RunState
  BY DEF RunState
<1> QED BY <1>1, <1>2

LEMMA TypesInit == EventsInit => EventsTypeOK
<1> SUFFICES ASSUME EventsInit
             PROVE  EventsTypeOK
  OBVIOUS
<1>1. <<>> \in Seq(Event) /\ Len(<<>>) = 0
  BY EmptySeq
<1>2. [buffer |-> <<>>, closed |-> FALSE] \in Channel
  BY <1>1 DEF Channel
<1>3. [pc |-> "idle", next |-> 1, targets |-> {}] \in RunState
  BY EventsAssumption DEF RunState, ErrorEvent
<1>4. channel \in [Clients -> Channel] /\ \A c \in Clients : Len(channel[c].buffer) <= Cap
  BY <1>1, <1>2, EventsAssumption DEF EventsInit
<1>5. run \in [Runs -> RunState]
  BY <1>3 DEF EventsInit
<1> QED BY <1>1, <1>4, <1>5 DEF EventsInit, EventsTypeOK

LEMMA TypesStep == EventsTypeOK /\ [EventsNext]_eventVars => EventsTypeOK'
<1> SUFFICES ASSUME EventsTypeOK, [EventsNext]_eventVars
             PROVE  EventsTypeOK'
  OBVIOUS
<1> USE EventsAssumption DEF EventsTypeOK
<1>1. ASSUME NEW c \in Clients, Subscribe(c)
      PROVE  EventsTypeOK'
  BY <1>1 DEF Subscribe, history
<1>2. ASSUME NEW c \in Clients, Receive(c)
      PROVE  EventsTypeOK'
  <2>1. channel[c].buffer \in Seq(Event) /\ channel[c].buffer # <<>> /\ seen[c] \in Seq(Event)
    BY <1>2 DEF Receive, Channel
  <2>2. /\ Head(channel[c].buffer) \in Event
        /\ Tail(channel[c].buffer) \in Seq(Event)
        /\ Len(Tail(channel[c].buffer)) = Len(channel[c].buffer) - 1
    BY <2>1, ToSetOfTail
  <2>3. Append(seen[c], Head(channel[c].buffer)) \in Seq(Event)
    BY <2>1, <2>2, ToSetOfAppend
  <2>4. seen' \in [Clients -> Seq(Event)]
    BY <1>2, <2>3 DEF Receive
  <2>5. channel' = [channel EXCEPT ![c].buffer = Tail(@)]
    BY <1>2 DEF Receive
  <2>6. Len(Tail(channel[c].buffer)) <= Cap
    BY <2>1, <2>2
  <2>7. channel' \in [Clients -> Channel]
    BY <2>2, <2>5 DEF Channel
  <2>8. \A d \in Clients : Len(channel'[d].buffer) <= Cap
    BY <2>5, <2>6 DEF Channel
  <2> QED BY <1>2, <2>4, <2>7, <2>8 DEF Receive
<1>3. ASSUME NEW c \in Clients, ReceiveDone(c) \/ Leave(c)
      PROVE  EventsTypeOK'
  <2>1. client' \in [Clients -> {"absent", "reading", "done", "left"}]
    BY <1>3 DEF ReceiveDone, Leave
  <2>2. Cancel(c)
    BY <1>3 DEF ReceiveDone, Leave
  <2>3. channel' \in [Clients -> Channel] /\ \A d \in Clients : Len(channel'[d].buffer) <= Cap
    <3>1. CASE channel' = channel
      BY <3>1
    <3>2. CASE channel' = [channel EXCEPT ![c].closed = TRUE]
      BY <3>2 DEF Channel
    <3> QED BY <2>2, <3>1, <3>2 DEF Cancel
  <2>4. listeners' \in SUBSET Clients /\ panicked' \in BOOLEAN
    BY <2>2 DEF Cancel, Channel
  <2> QED BY <1>3, <2>1, <2>3, <2>4 DEF ReceiveDone, Leave, history
<1>4. ASSUME NEW r \in Runs, StartRun(r)
      PROVE  EventsTypeOK'
  <2>1. [run[r] EXCEPT !.pc = "ready"] \in RunState
    BY RunMoves, OneEvent
  <2> QED BY <1>4, <2>1 DEF StartRun
<1>5. ASSUME NEW r \in Runs, Publish(r)
      PROVE  EventsTypeOK'
  <2>1. [run[r] EXCEPT !.pc = "send", !.targets = listeners] \in RunState
    BY RunTargets
  <2> QED BY <1>5, <2>1 DEF Publish, history
<1>6. ASSUME NEW r \in Runs, NEW c \in Clients, Send(r, c)
      PROVE  EventsTypeOK'
  <2> DEFINE e == [run |-> r, n |-> run[r].next]
  <2>1. run' \in [Runs -> RunState] /\ panicked' \in BOOLEAN
    BY <1>6 DEF Send, RunState, Channel
  <2>2. e \in Event
    BY DEF Event, RunState
  <2> HIDE DEF e
  <2>3. CASE channel[c].closed \/ Len(channel[c].buffer) = Cap
    <3>1. channel' = channel
      BY <1>6, <2>3 DEF Send
    <3> QED BY <1>6, <2>1, <3>1 DEF Send
  <2>4. CASE ~(channel[c].closed \/ Len(channel[c].buffer) = Cap)
    <3>1. channel' = [channel EXCEPT ![c].buffer = Append(@, e)]
      BY <1>6, <2>4 DEF Send, e
    <3>2. channel[c].buffer \in Seq(Event)
      BY DEF Channel
    <3>3. /\ Append(channel[c].buffer, e) \in Seq(Event)
          /\ Len(Append(channel[c].buffer, e)) = Len(channel[c].buffer) + 1
          /\ Len(channel[c].buffer) \in Nat
      BY <2>2, <3>2, AppendProperties
    <3>4. Len(Append(channel[c].buffer, e)) <= Cap
      BY <2>4, <3>3
    <3>5. channel' \in [Clients -> Channel]
      BY <3>1, <3>3 DEF Channel
    <3>6. \A d \in Clients : Len(channel'[d].buffer) <= Cap
      BY <3>1, <3>4 DEF Channel
    <3> QED BY <1>6, <2>1, <3>5, <3>6 DEF Send
  <2> QED BY <2>3, <2>4
<1>7. ASSUME NEW r \in Runs, Sent(r)
      PROVE  EventsTypeOK'
  <2>1. run[r].next < Final => run[r].next + 1 \in 1..ErrorEvent
    BY DEF ErrorEvent, RunState
  <2>2. PICK pc \in {"ready", "finish", "over"} :
          run' = [run EXCEPT ![r] = [run[r] EXCEPT !.pc = pc, !.next = IF @ < Final THEN @ + 1 ELSE @]]
    <3>1. (CASE run[r].next < Final -> "ready" [] run[r].next = Final -> "finish" [] OTHER -> "over")
             \in {"ready", "finish", "over"}
      OBVIOUS
    <3> QED BY <1>7, <3>1, Zenon DEF Sent
  <2> DEFINE next == IF run[r].next < Final THEN run[r].next + 1 ELSE run[r].next
  <2>4. next \in 1..ErrorEvent
    BY <2>1 DEF RunState
  <2>3. [run[r] EXCEPT !.pc = pc, !.next = next] \in RunState
    <3> HIDE DEF next
    <3> QED BY <2>4, RunMoves
  <2> QED BY <1>7, <2>2, <2>3 DEF Sent, history
<1>8. ASSUME NEW r \in Runs, FailRun(r)
      PROVE  EventsTypeOK'
  <2>1. ErrorEvent \in 1..ErrorEvent
    BY DEF ErrorEvent
  <2>2. [run[r] EXCEPT !.next = ErrorEvent] \in RunState
    BY <2>1, RunMoves
  <2> QED BY <1>8, <2>2 DEF FailRun, history
<1>9. ASSUME NEW r \in Runs, Finish(r)
      PROVE  EventsTypeOK'
  <2>1. channel' \in [Clients -> Channel] /\ \A c \in Clients : Len(channel'[c].buffer) <= Cap
    <3>1. \A c \in Clients : LET d == [channel[c] EXCEPT !.closed = TRUE]
                            IN  d \in Channel /\ d.buffer = channel[c].buffer
      BY DEF Channel
    <3> QED BY <1>9, <3>1 DEF Finish
  <2>2. run' \in [Runs -> RunState]
    BY <1>9, RunMoves, OneEvent DEF Finish
  <2>3. panicked' \in BOOLEAN
    BY <1>9 DEF Finish
  <2>4. ender' \in [Clients -> SUBSET Runs]
    BY <1>9 DEF Finish
  <2> QED BY <1>9, <2>1, <2>2, <2>3, <2>4 DEF Finish
<1>10. CASE UNCHANGED eventVars
  BY <1>10 DEF eventVars, history
<1> QED
  BY <1>1, <1>2, <1>3, <1>4, <1>5, <1>6, <1>7, <1>8, <1>9, <1>10, NextCases

(* Channels, handlers, runs and histories keep their types, and no buffer  *)
(* exceeds its capacity (manager.go, SubscribeTask and publish).            *)
THEOREM EventsTypeCorrect == EventsSpec => []EventsTypeOK
BY TypesInit, TypesStep, PTL DEF EventsSpec

(* ------------------------- the inductive invariant --------------------- *)

Ev(r, n) == [run |-> r, n |-> n]

\* The client was sent the event, or will be: it is in the buffer.
Got(c, e) == e \in ToSet(seen[c]) \cup ToSet(channel[c].buffer)

\* A registered channel is open and read; one whose client did not come yet is
\* open, and no run was there for it; a stream that ended is empty and closed.
ClientInv(c) ==
    /\ c \in listeners => client[c] = "reading" /\ ~channel[c].closed
    /\ client[c] = "absent" => ~channel[c].closed /\ since[c] = {} /\ ender[c] = {}
    /\ client[c] = "done" => channel[c].buffer = <<>> /\ channel[c].closed

RunInv(r) ==
    /\ run[r].pc = "idle" => run[r].next = 1
    /\ run[r].pc = "finish" => run[r].next = Final

\* A client registered since before the run, and with no dropped event, got
\* every event that the run is done with.
Published(r, c, n) ==
    \/ n < run[r].next
    \/ n = run[r].next /\ (run[r].pc = "finish" \/ (run[r].pc = "send" /\ c \notin run[r].targets))

Delivered(r, c) ==
    r \in since[c] /\ c \in listeners /\ c \notin missed /\ run[r].next <= Final =>
        \A n \in 1..Final : Published(r, c, n) => Got(c, Ev(r, n))

\* A run that closed a channel is over, and left the whole of it behind.
Whole(r, c) ==
    r \in ender[c] =>
        /\ run[r].pc = "over"
        /\ r \in since[c] /\ c \notin missed => \A n \in 1..Final : Got(c, Ev(r, n))

EventsInv ==
    /\ \A c \in Clients : ClientInv(c)
    /\ \A r \in Runs : RunInv(r)
    /\ \A r \in Runs, c \in Clients : Delivered(r, c) /\ Whole(r, c)

LEMMA InvInit == EventsInit => EventsInv
BY EventsAssumption DEF EventsInit, EventsInv, ClientInv, RunInv, Delivered, Whole

\* Cancel closes the channel of a registered client and forgets it.
LEMMA CancelEffect ==
  ASSUME EventsTypeOK, NEW c \in Clients, Cancel(c)
  PROVE  /\ \A d \in Clients : channel'[d].buffer = channel[d].buffer
         /\ \A d \in Clients : channel[d].closed => channel'[d].closed
         /\ \A d \in Clients \ {c} : channel'[d] = channel[d]
         /\ listeners' = listeners \ {c}
BY DEF Cancel, EventsTypeOK, Channel

\* Finish closes the registered channels and forgets them.
LEMMA FinishEffect ==
  ASSUME EventsTypeOK, NEW r \in Runs, Finish(r)
  PROVE  /\ \A d \in Clients : channel'[d].buffer = channel[d].buffer
         /\ \A d \in Clients : channel[d].closed => channel'[d].closed
         /\ \A d \in Clients \ listeners : channel'[d] = channel[d]
         /\ listeners' = {}
<1>1. \A d \in Clients : channel'[d] = IF d \in listeners THEN [channel[d] EXCEPT !.closed = TRUE] ELSE channel[d]
  BY DEF Finish
<1>2. \A d \in Clients : LET x == [channel[d] EXCEPT !.closed = TRUE] IN x.buffer = channel[d].buffer /\ x.closed
  BY DEF EventsTypeOK, Channel
<1> QED BY <1>1, <1>2 DEF Finish

\* The send appends to an open buffer that is not full, and otherwise changes
\* no channel.
LEMMA SendEffect ==
  ASSUME EventsTypeOK, NEW r \in Runs, NEW c \in Clients, Send(r, c)
  PROVE  LET e == Ev(r, run[r].next) IN
         /\ e \in Event
         /\ \/ channel' = channel /\ (channel[c].closed \/ c \in missed')
            \/ /\ ~channel[c].closed
               /\ channel' = [channel EXCEPT ![c].buffer = Append(@, e)]
               /\ channel'[c].closed = channel[c].closed
               /\ channel'[c].buffer = Append(channel[c].buffer, e)
               /\ \A d \in Clients \ {c} : channel'[d] = channel[d]
<1> DEFINE e == Ev(r, run[r].next)
<1>1. e \in Event
  BY DEF Ev, Event, EventsTypeOK, RunState
<1>2. CASE channel[c].closed \/ Len(channel[c].buffer) = Cap
  BY <1>1, <1>2 DEF Send
<1>3. CASE ~(channel[c].closed \/ Len(channel[c].buffer) = Cap)
  <2>1. channel' = [channel EXCEPT ![c].buffer = Append(@, e)]
    BY <1>3 DEF Send, Ev
  <2> HIDE DEF e
  <2>2. /\ channel'[c].closed = channel[c].closed
        /\ channel'[c].buffer = Append(channel[c].buffer, e)
        /\ \A d \in Clients \ {c} : channel'[d] = channel[d]
    BY <2>1 DEF EventsTypeOK, Channel
  <2> QED BY <1>1, <1>3, <2>1, <2>2 DEF e
<1> QED BY <1>2, <1>3

\* The handler moves the first event of the buffer to what the client saw.
LEMMA ReceiveEffect ==
  ASSUME EventsTypeOK, NEW c \in Clients, Receive(c)
  PROVE  /\ \A e : Got(c, e) => Got(c, e)'
         /\ channel'[c].closed = channel[c].closed
         /\ \A d \in Clients \ {c} : channel'[d] = channel[d] /\ seen'[d] = seen[d]
<1> DEFINE b == channel[c].buffer
<1>1. b \in Seq(Event) /\ b # <<>> /\ seen[c] \in Seq(Event)
  BY DEF Receive, EventsTypeOK, Channel
<1>2. /\ channel'[c].buffer = Tail(b) /\ channel'[c].closed = channel[c].closed
      /\ seen'[c] = Append(seen[c], Head(b))
      /\ \A d \in Clients \ {c} : channel'[d] = channel[d] /\ seen'[d] = seen[d]
  BY DEF Receive, EventsTypeOK, Channel
<1> HIDE DEF b
<1>3. Head(b) \in Event /\ ToSet(b) = {Head(b)} \cup ToSet(Tail(b))
  BY <1>1, ToSetOfTail
<1>4. ToSet(Append(seen[c], Head(b))) = ToSet(seen[c]) \cup {Head(b)}
  BY <1>1, <1>3, ToSetOfAppend
<1> QED BY <1>2, <1>3, <1>4 DEF Got, b

\* Nothing that was sent to a client, or waits for it, is lost on the way.
LEMMA GotKept ==
  ASSUME EventsTypeOK, [EventsNext]_eventVars, NEW d \in Clients, NEW e, Got(d, e)
  PROVE  Got(d, e)'
<1>1. ASSUME NEW c \in Clients, Subscribe(c)
      PROVE  Got(d, e)'
  BY <1>1 DEF Subscribe, history, Got
<1>2. ASSUME NEW c \in Clients, Receive(c)
      PROVE  Got(d, e)'
  <2>1. CASE d = c
    BY <1>2, <2>1, ReceiveEffect
  <2>2. CASE d # c
    BY <1>2, <2>2, ReceiveEffect DEF Got
  <2> QED BY <2>1, <2>2
<1>3. ASSUME NEW c \in Clients, ReceiveDone(c) \/ Leave(c)
      PROVE  Got(d, e)'
  BY <1>3, CancelEffect DEF ReceiveDone, Leave, history, Got
<1>4. ASSUME NEW r \in Runs, StartRun(r) \/ Publish(r) \/ Sent(r) \/ FailRun(r)
      PROVE  Got(d, e)'
  <2>1. UNCHANGED <<channel, seen>>
    BY <1>4 DEF StartRun, Publish, Sent, FailRun, history
  <2> QED BY <2>1 DEF Got
<1>5. ASSUME NEW r \in Runs, Finish(r)
      PROVE  Got(d, e)'
  BY <1>5, FinishEffect DEF Finish, Got
<1>6. ASSUME NEW r \in Runs, NEW c \in Clients, Send(r, c)
      PROVE  Got(d, e)'
  <2>1. seen' = seen
    BY <1>6 DEF Send
  <2>2. channel[c].buffer \in Seq(Event)
    BY DEF EventsTypeOK, Channel
  <2>3. ToSet(channel[d].buffer) \subseteq ToSet(channel'[d].buffer)
    <3>1. CASE channel' = channel
      BY <3>1
    <3>2. CASE channel' # channel
      <4>1. channel'[c].buffer = Append(channel[c].buffer, Ev(r, run[r].next)) /\ Ev(r, run[r].next) \in Event
        BY <1>6, <3>2, SendEffect
      <4>2. ToSet(channel[c].buffer) \subseteq ToSet(channel'[c].buffer)
        BY <2>2, <4>1, ToSetOfAppend
      <4>3. d # c => channel'[d] = channel[d]
        BY <1>6, <3>2, SendEffect
      <4> QED BY <4>2, <4>3
    <3> QED BY <3>1, <3>2
  <2> QED BY <2>1, <2>3 DEF Got
<1>7. CASE UNCHANGED eventVars
  BY <1>7 DEF eventVars, history, Got
<1> QED
  BY <1>1, <1>2, <1>3, <1>4, <1>5, <1>6, <1>7, NextCases

LEMMA ClientStep ==
  ASSUME EventsTypeOK, [EventsNext]_eventVars, EventsInv, NEW d \in Clients
  PROVE  ClientInv(d)'
<1>0. ClientInv(d)
  BY DEF EventsInv
<1>1. ASSUME NEW c \in Clients, Subscribe(c)
      PROVE  ClientInv(d)'
  <2>1. /\ UNCHANGED <<channel, since, ender>> /\ listeners' = listeners \cup {c}
        /\ client' = [client EXCEPT ![c] = "reading"] /\ client[c] = "absent"
    BY <1>1 DEF Subscribe, history
  <2>2. CASE d = c
    <3>1. client'[d] = "reading"
      BY <2>1, <2>2 DEF EventsTypeOK
    <3> QED BY <1>0, <2>1, <2>2, <3>1 DEF ClientInv
  <2>3. CASE d # c
    <3>1. client'[d] = client[d]
      BY <2>1, <2>3 DEF EventsTypeOK
    <3> QED BY <1>0, <2>1, <2>3, <3>1 DEF ClientInv
  <2> QED BY <2>2, <2>3
<1>2. ASSUME NEW c \in Clients, Receive(c)
      PROVE  ClientInv(d)'
  <2>1. /\ channel'[c].closed = channel[c].closed
        /\ d # c => channel'[d] = channel[d]
    BY <1>2, ReceiveEffect
  <2>2. client[c] = "reading" /\ UNCHANGED <<listeners, client, since, ender>>
    BY <1>2 DEF Receive
  <2> QED BY <1>0, <2>1, <2>2 DEF ClientInv
<1>3. ASSUME NEW c \in Clients, ReceiveDone(c) \/ Leave(c)
      PROVE  ClientInv(d)'
  <2>1. /\ client[c] = "reading" /\ UNCHANGED <<since, ender>>
        /\ \/ client' = [client EXCEPT ![c] = "done"] /\ channel[c].buffer = <<>> /\ channel[c].closed
           \/ client' = [client EXCEPT ![c] = "left"]
    BY <1>3 DEF ReceiveDone, Leave, history
  <2>2. /\ channel'[d].buffer = channel[d].buffer
        /\ channel[d].closed => channel'[d].closed
        /\ d # c => channel'[d] = channel[d]
        /\ listeners' = listeners \ {c}
    BY <1>3, CancelEffect DEF ReceiveDone, Leave
  <2>3. CASE d = c
    <3>1. d \notin listeners' /\ client'[d] \in {"done", "left"}
      BY <2>1, <2>2, <2>3 DEF EventsTypeOK
    <3>2. client'[d] = "done" => channel[d].buffer = <<>> /\ channel[d].closed
      BY <2>1, <2>3 DEF EventsTypeOK
    <3> QED BY <2>2, <3>1, <3>2 DEF ClientInv
  <2>4. CASE d # c
    <3>1. client'[d] = client[d]
      BY <2>1, <2>4 DEF EventsTypeOK
    <3> QED BY <1>0, <2>1, <2>2, <2>4, <3>1 DEF ClientInv
  <2> QED BY <2>3, <2>4
<1>4. ASSUME NEW r \in Runs, StartRun(r)
      PROVE  ClientInv(d)'
  <2>1. /\ UNCHANGED <<listeners, channel, client, ender>>
        /\ d \notin listeners => since'[d] = since[d]
    BY <1>4 DEF StartRun
  <2> QED BY <1>0, <2>1 DEF ClientInv
<1>5. ASSUME NEW r \in Runs, Publish(r) \/ Sent(r) \/ FailRun(r)
      PROVE  ClientInv(d)'
  <2>1. UNCHANGED <<listeners, channel, client, since, ender>>
    BY <1>5 DEF Publish, Sent, FailRun, history
  <2> QED BY <1>0, <2>1 DEF ClientInv
<1>6. ASSUME NEW r \in Runs, NEW c \in Clients, Send(r, c)
      PROVE  ClientInv(d)'
  <2>1. UNCHANGED <<listeners, client, since, ender>>
    BY <1>6 DEF Send
  <2>2. /\ channel'[d].closed = channel[d].closed
        /\ channel[d].closed => channel'[d] = channel[d]
    BY <1>6, SendEffect
  <2> QED BY <1>0, <2>1, <2>2 DEF ClientInv
<1>7. ASSUME NEW r \in Runs, Finish(r)
      PROVE  ClientInv(d)'
  <2>1. /\ client' = client /\ since' = since
        /\ d \notin listeners => ender'[d] = ender[d]
    BY <1>7 DEF Finish
  <2>2. /\ channel'[d].buffer = channel[d].buffer
        /\ channel[d].closed => channel'[d].closed
        /\ d \notin listeners => channel'[d] = channel[d]
        /\ listeners' = {}
    BY <1>7, FinishEffect
  <2> QED BY <1>0, <2>1, <2>2 DEF ClientInv
<1>8. CASE UNCHANGED eventVars
  BY <1>0, <1>8 DEF eventVars, history, ClientInv
<1> QED
  BY <1>1, <1>2, <1>3, <1>4, <1>5, <1>6, <1>7, <1>8, NextCases

\* What a step of a run makes of the run; no other step changes it.
LEMMA RunEffect ==
  ASSUME EventsTypeOK, NEW r \in Runs, StartRun(r) \/ Publish(r) \/ Sent(r) \/ FailRun(r) \/ Finish(r)
  PROVE  /\ \A s \in Runs \ {r} : run'[s] = run[s]
         /\ StartRun(r) => run[r].pc = "idle" /\ run'[r].pc = "ready" /\ run'[r].next = run[r].next
         /\ Publish(r) => /\ run[r].pc = "ready" /\ run'[r].pc = "send" /\ run'[r].next = run[r].next
                          /\ run'[r].targets = listeners
         /\ Sent(r) => /\ run[r].pc = "send" /\ run[r].targets = {}
                       /\ run[r].next < Final => run'[r].pc = "ready" /\ run'[r].next = run[r].next + 1
                       /\ run[r].next = Final => run'[r].pc = "finish" /\ run'[r].next = Final
                       /\ run[r].next > Final => run'[r].pc = "over" /\ run'[r].next = run[r].next
         /\ FailRun(r) => run[r].pc = "ready" /\ run'[r].pc = "ready" /\ run'[r].next = ErrorEvent
         /\ Finish(r) => run[r].pc = "finish" /\ run'[r].pc = "over" /\ run'[r].next = run[r].next
<1> USE DEF EventsTypeOK, RunState
<1>0. run[r].next \in Nat /\ Final \in Nat
  BY EventsAssumption
<1>1. \A s \in Runs \ {r} : run'[s] = run[s]
  BY DEF StartRun, Publish, Sent, FailRun, Finish
<1>2. StartRun(r) => run[r].pc = "idle" /\ run'[r].pc = "ready" /\ run'[r].next = run[r].next
  BY DEF StartRun
<1>3. Publish(r) => /\ run[r].pc = "ready" /\ run'[r].pc = "send" /\ run'[r].next = run[r].next
                    /\ run'[r].targets = listeners
  BY DEF Publish
<1>4. ASSUME Sent(r)
      PROVE  /\ run[r].pc = "send" /\ run[r].targets = {}
             /\ run[r].next < Final => run'[r].pc = "ready" /\ run'[r].next = run[r].next + 1
             /\ run[r].next = Final => run'[r].pc = "finish" /\ run'[r].next = Final
             /\ run[r].next > Final => run'[r].pc = "over" /\ run'[r].next = run[r].next
  <2>1. /\ run'[r].pc = CASE run[r].next < Final -> "ready"
                         [] run[r].next = Final -> "finish"
                         [] OTHER -> "over"
        /\ run'[r].next = IF run[r].next < Final THEN run[r].next + 1 ELSE run[r].next
    BY <1>4 DEF Sent
  <2> QED BY <1>0, <1>4, <2>1 DEF Sent
<1>5. FailRun(r) => run[r].pc = "ready" /\ run'[r].pc = "ready" /\ run'[r].next = ErrorEvent
  BY DEF FailRun
<1>6. Finish(r) => run[r].pc = "finish" /\ run'[r].pc = "over" /\ run'[r].next = run[r].next
  BY DEF Finish
<1> QED BY <1>1, <1>2, <1>3, <1>4, <1>5, <1>6

LEMMA RunStep ==
  ASSUME EventsTypeOK, [EventsNext]_eventVars, EventsInv, NEW s \in Runs
  PROVE  RunInv(s)'
<1>0. RunInv(s)
  BY DEF EventsInv
<1>1. ASSUME UNCHANGED run
      PROVE  RunInv(s)'
  BY <1>0, <1>1 DEF RunInv
<1>2. ASSUME NEW r \in Runs, StartRun(r) \/ Publish(r) \/ Sent(r) \/ FailRun(r) \/ Finish(r)
      PROVE  RunInv(s)'
  <2>1. s # r => run'[s] = run[s]
    BY <1>2, RunEffect
  <2>2. run[r].next \in Nat /\ Final \in Nat
    BY EventsAssumption DEF EventsTypeOK, RunState
  <2>3. run'[r].pc # "idle" /\ (run'[r].pc = "finish" => run'[r].next = Final)
    BY <1>2, <2>2, RunEffect
  <2> QED BY <1>0, <2>1, <2>3 DEF RunInv
<1>3. ASSUME NEW r \in Runs, NEW c \in Clients, Send(r, c)
      PROVE  RunInv(s)'
  BY <1>0, <1>3 DEF Send, RunInv, EventsTypeOK, RunState
<1>4. ASSUME NEW c \in Clients, Subscribe(c) \/ Receive(c) \/ ReceiveDone(c) \/ Leave(c)
      PROVE  UNCHANGED run
  BY <1>4 DEF Subscribe, Receive, ReceiveDone, Leave
<1>5. CASE UNCHANGED eventVars
  BY <1>1, <1>5 DEF eventVars
<1> QED BY <1>1, <1>2, <1>3, <1>4, <1>5, NextCases

LEMMA DeliveredStep ==
  ASSUME EventsTypeOK, [EventsNext]_eventVars, EventsInv, NEW s \in Runs, NEW d \in Clients
  PROVE  Delivered(s, d)'
<1>0. Delivered(s, d) /\ ClientInv(d) /\ RunInv(s)
  BY DEF EventsInv
<1>1. \A e : Got(d, e) => Got(d, e)'
  BY GotKept
<1>2. run[s].next \in Nat /\ run[s].next >= 1 /\ Final \in Nat
  BY EventsAssumption DEF EventsTypeOK, RunState, ErrorEvent
<1>3. ASSUME run'[s] = run[s], d \in listeners' => d \in listeners \/ since'[d] = {},
             s \in since'[d] => s \in since[d], missed \subseteq missed'
      PROVE  Delivered(s, d)'
  BY <1>0, <1>1, <1>3 DEF Delivered, Published
<1>4. ASSUME NEW c \in Clients, Subscribe(c)
      PROVE  Delivered(s, d)'
  <2>1. ClientInv(c) /\ client[c] = "absent"
    BY <1>4 DEF EventsInv, Subscribe
  <2>2. UNCHANGED <<run, since, missed>> /\ listeners' = listeners \cup {c} /\ since[c] = {}
    BY <1>4, <2>1 DEF Subscribe, history, ClientInv
  <2> QED BY <1>3, <2>2
<1>5. ASSUME NEW c \in Clients, Receive(c) \/ ReceiveDone(c) \/ Leave(c)
      PROVE  Delivered(s, d)'
  <2>1. UNCHANGED <<run, since, missed>> /\ listeners' \subseteq listeners
    BY <1>5 DEF Receive, ReceiveDone, Leave, Cancel, history
  <2> QED BY <1>3, <2>1
<1>6. ASSUME NEW r \in Runs, StartRun(r) \/ Publish(r) \/ Sent(r) \/ FailRun(r) \/ Finish(r), s # r
      PROVE  Delivered(s, d)'
  <2>1. run'[s] = run[s]
    BY <1>6, RunEffect
  <2>2. listeners' \subseteq listeners /\ missed' = missed /\ (s \in since'[d] => s \in since[d])
    BY <1>6 DEF StartRun, Publish, Sent, FailRun, Finish, history
  <2> QED BY <1>3, <2>1, <2>2
<1>7. CASE StartRun(s)
  <2>1. run'[s].next = 1 /\ run'[s].pc = "ready"
    BY <1>0, <1>7, RunEffect DEF RunInv
  <2>2. \A n \in 1..Final : ~Published(s, d, n)'
    BY <2>1, <1>2 DEF Published
  <2> QED BY <2>2 DEF Delivered
<1>8. CASE Publish(s)
  <2>1. run'[s].pc = "send" /\ run'[s].next = run[s].next /\ run'[s].targets = listeners
    BY <1>8, RunEffect
  <2>2. UNCHANGED <<listeners, since, missed>>
    BY <1>8 DEF Publish, history
  <2>3. ASSUME NEW n \in 1..Final, Published(s, d, n)', d \in listeners
        PROVE  Published(s, d, n)
    BY <2>1, <2>3 DEF Published
  <2> QED BY <1>0, <1>1, <2>1, <2>2, <2>3 DEF Delivered
<1>9. CASE Sent(s)
  <2>1. UNCHANGED <<listeners, since, missed>>
    BY <1>9 DEF Sent, history
  <2>2. run'[s].next <= Final => run[s].next <= Final
    BY <1>2, <1>9, RunEffect
  <2>3. ASSUME NEW n \in 1..Final, Published(s, d, n)', run'[s].next <= Final
        PROVE  Published(s, d, n)
    <3>1. n < run[s].next \/ n = run[s].next
      <4>1. CASE run[s].next < Final
        BY <1>2, <1>9, <2>3, <4>1, RunEffect DEF Published
      <4>2. CASE run[s].next = Final
        BY <1>2, <1>9, <2>3, <4>2, RunEffect DEF Published
      <4> QED BY <1>2, <2>2, <2>3, <4>1, <4>2
    <3> QED BY <1>9, <3>1, RunEffect DEF Published
  <2> QED BY <1>0, <1>1, <2>1, <2>2, <2>3 DEF Delivered
<1>10. CASE FailRun(s)
  <2>1. run'[s].next = ErrorEvent /\ ~(ErrorEvent <= Final)
    BY <1>2, <1>10, RunEffect DEF ErrorEvent
  <2> QED BY <2>1 DEF Delivered
<1>11. CASE Finish(s)
  <2>1. listeners' = {}
    BY <1>11 DEF Finish
  <2> QED BY <2>1 DEF Delivered
<1>12. ASSUME NEW r \in Runs, NEW c \in Clients, Send(r, c)
       PROVE  Delivered(s, d)'
  <2>1. /\ UNCHANGED <<listeners, since>> /\ missed \subseteq missed'
        /\ run[r].pc = "send" /\ run' = [run EXCEPT ![r].targets = @ \ {c}]
    BY <1>12 DEF Send
  <2>2. CASE s # r
    BY <1>3, <2>1, <2>2
  <2>3. CASE s = r /\ d # c
    <3>1. /\ run'[s].pc = run[s].pc /\ run'[s].next = run[s].next
          /\ d \in run'[s].targets <=> d \in run[s].targets
      BY <2>1, <2>3 DEF EventsTypeOK, RunState
    <3>2. \A n \in 1..Final : Published(s, d, n)' => Published(s, d, n)
      BY <3>1 DEF Published
    <3> QED BY <1>0, <1>1, <2>1, <3>1, <3>2 DEF Delivered
  <2>4. CASE s = r /\ d = c
    <3>1. /\ run'[s].pc = run[s].pc /\ run'[s].next = run[s].next
      BY <2>1, <2>4 DEF EventsTypeOK, RunState
    <3>2. SUFFICES ASSUME s \in since[d], d \in listeners, d \notin missed', run[s].next <= Final
                   PROVE  \A n \in 1..Final : Published(s, d, n)' => Got(d, Ev(s, n))'
      BY <2>1, <3>1 DEF Delivered
    <3>3. /\ Ev(s, run[s].next) \in Event
          /\ channel'[d].buffer = Append(channel[d].buffer, Ev(s, run[s].next))
      BY <1>0, <1>12, <2>4, <3>2, SendEffect DEF ClientInv
    <3>4. Ev(s, run[s].next) \in ToSet(channel'[d].buffer)
      <4>1. channel[d].buffer \in Seq(Event)
        BY DEF EventsTypeOK, Channel
      <4> QED BY <3>3, <4>1, ToSetOfAppend
    <3>5. Got(d, Ev(s, run[s].next))'
      BY <3>1, <3>4 DEF Got, Ev
    <3>6. ASSUME NEW n \in 1..Final, n < run[s].next
          PROVE  Got(d, Ev(s, n))'
      <4>1. Got(d, Ev(s, n))
        BY <1>0, <2>1, <3>2, <3>6 DEF Delivered, Published
      <4> QED BY <1>1, <4>1 DEF Got, Ev
    <3> QED BY <3>1, <3>5, <3>6 DEF Published
  <2> QED BY <2>2, <2>3, <2>4
<1>13. CASE UNCHANGED eventVars
  BY <1>3, <1>13 DEF eventVars, history
<1> QED
  BY <1>4, <1>5, <1>6, <1>7, <1>8, <1>9, <1>10, <1>11, <1>12, <1>13, NextCases

LEMMA WholeStep ==
  ASSUME EventsTypeOK, [EventsNext]_eventVars, EventsInv, NEW s \in Runs, NEW d \in Clients
  PROVE  Whole(s, d)'
<1>0. Whole(s, d) /\ Delivered(s, d) /\ ClientInv(d) /\ RunInv(s)
  BY DEF EventsInv
<1>1. \A n : Got(d, Ev(s, n)) => Got(d, Ev(s, n))'
  BY GotKept
<1>2. ASSUME run'[s].pc = run[s].pc, ender'[d] = ender[d],
             s \in since'[d] => s \in since[d], missed \subseteq missed'
      PROVE  Whole(s, d)'
  BY <1>0, <1>1, <1>2 DEF Whole, Ev
<1>3. ASSUME NEW c \in Clients, Subscribe(c) \/ Receive(c) \/ ReceiveDone(c) \/ Leave(c)
      PROVE  Whole(s, d)'
  BY <1>2, <1>3 DEF Subscribe, Receive, ReceiveDone, Leave, history
<1>4. ASSUME NEW r \in Runs, StartRun(r) \/ Publish(r) \/ Sent(r) \/ FailRun(r), s # r
      PROVE  Whole(s, d)'
  <2>1. run'[s] = run[s]
    BY <1>4, RunEffect
  <2>2. ender' = ender /\ missed' = missed /\ (s \in since'[d] => s \in since[d])
    BY <1>4 DEF StartRun, Publish, Sent, FailRun, history
  <2> QED BY <1>2, <2>1, <2>2
<1>5. CASE StartRun(s) \/ Publish(s) \/ Sent(s) \/ FailRun(s)
  <2>1. s \notin ender[d]
    BY <1>0, <1>5, RunEffect DEF Whole
  <2>2. ender' = ender
    BY <1>5 DEF StartRun, Publish, Sent, FailRun, history
  <2> QED BY <2>1, <2>2 DEF Whole
<1>6. ASSUME NEW r \in Runs, NEW c \in Clients, Send(r, c)
      PROVE  Whole(s, d)'
  <2>1. run'[s].pc = run[s].pc /\ UNCHANGED <<ender, since>> /\ missed \subseteq missed'
    BY <1>6 DEF Send, EventsTypeOK, RunState
  <2> QED BY <1>2, <2>1
<1>7. ASSUME NEW r \in Runs, Finish(r), s # r
      PROVE  Whole(s, d)'
  <2>1. run'[s] = run[s] /\ UNCHANGED <<since, missed>> /\ (s \in ender'[d] => s \in ender[d])
    BY <1>7, RunEffect DEF Finish
  <2> QED BY <1>0, <1>1, <2>1 DEF Whole, Ev
<1>8. CASE Finish(s)
  <2>1. run[s].pc = "finish" /\ run[s].next = Final /\ run'[s].pc = "over"
    BY <1>0, <1>8, RunEffect DEF RunInv
  <2>2. UNCHANGED <<since, missed>> /\ (s \in ender'[d] => d \in listeners \/ s \in ender[d])
    BY <1>8 DEF Finish
  <2>3. s \notin ender[d]
    BY <1>0, <2>1 DEF Whole
  <2>4. ASSUME s \in since[d], d \in listeners, d \notin missed, NEW n \in 1..Final
        PROVE  Got(d, Ev(s, n))
    <3>1. Published(s, d, n)
      BY <2>1, EventsAssumption DEF Published
    <3> QED BY <1>0, <2>1, <2>4, <3>1, EventsAssumption DEF Delivered
  <2> QED BY <1>1, <2>1, <2>2, <2>3, <2>4 DEF Whole, Ev
<1>9. CASE UNCHANGED eventVars
  BY <1>2, <1>9 DEF eventVars, history
<1> QED
  BY <1>3, <1>4, <1>5, <1>6, <1>7, <1>8, <1>9, NextCases

LEMMA EventsInvariant == EventsSpec => []EventsInv
<1>1. EventsTypeOK /\ EventsInv /\ [EventsNext]_eventVars => EventsInv'
  <2> SUFFICES ASSUME EventsTypeOK, EventsInv, [EventsNext]_eventVars
               PROVE  EventsInv'
    OBVIOUS
  <2>1. \A c \in Clients : ClientInv(c)'
    BY ClientStep
  <2>2. \A r \in Runs : RunInv(r)'
    BY RunStep
  <2>3. \A r \in Runs, c \in Clients : Delivered(r, c)' /\ Whole(r, c)'
    BY DeliveredStep, WholeStep
  <2> QED BY <2>1, <2>2, <2>3 DEF EventsInv
<1> QED BY <1>1, InvInit, EventsTypeCorrect, PTL DEF EventsSpec

(* A registered channel is open: neither a client that goes away nor a run  *)
(* that ends closes a channel that the other has closed (cancel and         *)
(* finishTaskListeners, manager.go).                                        *)
THEOREM ChannelsAreClosedOnce == EventsSpec => []RegisteredOpen
<1>1. EventsTypeOK /\ EventsInv => RegisteredOpen
  BY DEF EventsInv, ClientInv, RegisteredOpen, EventsTypeOK
<1> QED BY <1>1, EventsInvariant, EventsTypeCorrect, PTL

(* A stream that was ended, and lost nothing to a full buffer, carried every *)
(* event of the run that ended it, for clients that were there from its     *)
(* start: whatever other runs of the task publish or close meanwhile.       *)
THEOREM EndedStreamsAreWhole == EventsSpec => []EndedIsWhole
<1>1. EventsTypeOK /\ EventsInv => EndedIsWhole
  <2> SUFFICES ASSUME EventsTypeOK, EventsInv, NEW c \in Clients, client[c] = "done", c \notin missed,
                      NEW r \in ender[c] \cap since[c], NEW n \in 1..Final
               PROVE  Ev(r, n) \in ToSet(seen[c])
    BY DEF EndedIsWhole, Ev
  <2>1. r \in Runs
    BY DEF EventsTypeOK
  <2>2. Got(c, Ev(r, n)) /\ channel[c].buffer = <<>>
    BY <2>1 DEF EventsInv, Whole, ClientInv
  <2>3. ToSet(<<>>) = {}
    BY DEF ToSet
  <2> QED BY <2>2, <2>3 DEF Got
<1> QED BY <1>1, EventsInvariant, EventsTypeCorrect, PTL

(* ------------------- workspaces: the invariant ------------------------- *)

LeadDir == agent[Lead].dir
Own(c) == agent[c].own
Active(c) == agent[c].at \notin {"idle", "done"}
Owns == {Own(c) : c \in Children} \ {0}

\* The lead waits where it delegated, in a directory that stays and that
\* stays locked.
LeadWaits ==
  /\ LeadDir \in {Main} \cup moved
  /\ job # NoJob => IsAt(Lead, "works") /\ job.n > 0
  /\ job.guarded => job # NoJob /\ LeadDir \in locks

\* What was made for a child is its own.
OwnsApart ==
  /\ \A c \in Children : Own(c) # 0 => Own(c) \notin {Main} \cup moved
  /\ \A c, d \in Children : c # d /\ Own(c) # 0 => Own(c) # Own(d)
  /\ \A c \in Children : IsAt(c, "queues") \/ IsAt(c, "copies") => Own(c) = 0
  /\ \A c \in Children : IsAt(c, "syncs") \/ IsAt(c, "removes") => Own(c) # 0
  /\ \A c \in Children \ Delegated : agent[c] = NobodyYet

\* Children that are at work are in directories that are there, which they
\* share with nobody or with everybody, in the lead's.
DirsApart ==
  /\ \A c \in Children : Active(c) => agent[c].dir \in exists
  /\ \A c, d \in Children : c # d /\ Active(c) /\ Active(d) /\ agent[c].dir = agent[d].dir => agent[c].dir = LeadDir
  /\ \A c, d \in Children : c # d /\ Own(c) # 0 /\ Active(d) => agent[d].dir # Own(c)
  /\ ~cramped /\ job.guarded =>
       \A c \in Delegated : IsAt(c, "takes") \/ IsAt(c, "works") => agent[c].dir # LeadDir

\* The children whose first run is over, each of which has an output.
EndedRuns == {c \in Delegated : agent[c].at \in {"syncs", "removes", "done"}}
OutputsKept ==
  /\ job # NoJob => outputs \in Seq(Delegated) /\ \A i, j \in DOMAIN outputs : outputs[i] = outputs[j] => i = j
  /\ job # NoJob /\ job.stage = "run" =>
       {outputs[i] : i \in DOMAIN outputs} = EndedRuns /\ Len(outputs) = Cardinality(EndedRuns)
  /\ job.stage = "review" => {outputs[i] : i \in DOMAIN outputs} = Delegated /\ Len(outputs) = job.n

WorkspacesInv ==
  WorkspacesTypeOK /\ LeadWaits /\ NothingLeft /\ OwnsApart /\ DirsApart /\ OutputsKept

(* -------------------------- numbers and directories -------------------- *)

LEMMA LeastNumber ==
  ASSUME NEW S, S \subseteq Nat, S # {}
  PROVE  \E i \in S : \A j \in S : i <= j
<1>1. PICK i \in S : \A j \in S : ~(<<j, i>> \in OpToRel(<, Nat))
  BY NatLessThanWellFounded, WFMin
<1>2. \A j \in S : i <= j
  <2> SUFFICES ASSUME NEW j \in S, j < i
               PROVE  FALSE
    BY DEF OpToRel
  <2> QED BY <1>1 DEF OpToRel
<1> QED BY <1>2

\* A set of small numbers has a greatest one: the least distance from the bound.
LEMMA GreatestChild ==
  ASSUME NEW S \in SUBSET Children, S # {}
  PROVE  Max(S) \in S
<1> DEFINE T == {k \in Nat : \E x \in S : k = MaxChildren - x}
<1>1. MaxChildren \in Nat /\ \A y \in S : y \in Nat /\ y <= MaxChildren
  BY WorkspacesAssumption DEF Children
<1>2. \A y \in S : MaxChildren - y \in T
  BY <1>1
<1>3. T \subseteq Nat /\ T # {}
  BY <1>2
<1>4. PICK i \in T : \A j \in T : i <= j
  BY <1>3, LeastNumber
<1>5. PICK x \in S : i = MaxChildren - x
  OBVIOUS
<1>6. ASSUME NEW y \in S PROVE x >= y
  <2>1. i <= MaxChildren - y
    BY <1>2, <1>4
  <2> QED BY <1>1, <1>5, <2>1
<1>7. \E z \in S : \A y \in S : z >= y
  BY <1>6
<1> QED BY <1>7 DEF Max

\* A directory that is made was not there.
LEMMA NewIsFresh ==
  ASSUME CanMake, NEW d \in NewDir
  PROVE  d \in Dirs /\ d \notin exists
<1> DEFINE S == Dirs \ exists
<1>1. S \subseteq Nat /\ S # {}
  BY DEF CanMake, Dirs
<1>2. PICK i \in S : \A j \in S : i <= j
  BY <1>1, LeastNumber
<1>3. \E x \in S : \A y \in S : x <= y
  BY <1>2
<1>4. Min(S) \in S
  BY <1>3 DEF Min
<1> QED BY <1>4 DEF NewDir

LEMMA Delegations0 ==
  ASSUME WorkspacesTypeOK
  PROVE  /\ job.n \in 0..MaxChildren /\ Delegated \subseteq Children
         /\ Children \subseteq Agents /\ Lead \in Agents /\ Lead \notin Children
         /\ Main \in Dirs /\ LeadDir \in Dirs
         /\ \A a \in Agents : agent[a] \in Workers
<1>1. MaxChildren \in Nat \ {0} /\ MaxDirs \in Nat \ {0}
  BY WorkspacesAssumption
<1>2. job.n \in 0..MaxChildren
  BY DEF WorkspacesTypeOK, Delegations
<1> QED BY <1>1, <1>2 DEF WorkspacesTypeOK, Workers, Delegated, Children, Agents, Lead, Main, Dirs, LeadDir

\* Without a job nobody is at work but the lead.
LEMMA LeadAlone ==
  ASSUME WorkspacesInv, job = NoJob
  PROVE  /\ Delegated = {} /\ \A c \in Children : agent[c] = NobodyYet
         /\ Owns = {} /\ exists = {Main} \cup moved
<1>1. Delegated = {}
  BY DEF Delegated, NoJob
<1>2. \A c \in Children : agent[c] = NobodyYet
  BY <1>1 DEF WorkspacesInv, OwnsApart
<1>3. Owns = {}
  BY <1>2 DEF Owns, Own, NobodyYet
<1> QED BY <1>1, <1>2, <1>3 DEF WorkspacesInv, NothingLeft, Owns, Own

\* Whoever has something to do was delegated to.
LEMMA ActiveIsDelegated ==
  ASSUME WorkspacesInv, NEW c \in Children, agent[c].at # "idle"
  PROVE  c \in Delegated /\ job # NoJob
<1>1. c \in Delegated
  BY DEF WorkspacesInv, OwnsApart, NobodyYet
<1>2. job # NoJob
  BY <1>1, LeadAlone
<1> QED BY <1>1, <1>2

(* ------------------------------ children ------------------------------- *)

Placed == LeadWaits /\ NothingLeft /\ OwnsApart /\ DirsApart

\* What a child has when it changes.
LEMMA OneChildChanges ==
  ASSUME WorkspacesTypeOK, NEW c \in Children, NEW w \in Workers, agent' = [agent EXCEPT ![c] = w]
  PROVE  /\ agent'[c] = w /\ agent' \in [Agents -> Workers]
         /\ \A b \in Agents : b # c => agent'[b] = agent[b]
         /\ LeadDir' = LeadDir /\ IsAt(Lead, "works")' = IsAt(Lead, "works")
BY Delegations0 DEF WorkspacesTypeOK, LeadDir, IsAt

\* A child that stays where it is keeps to itself as long as it works in the
\* lead's directory only when that cannot be helped.
LEMMA ChildStays ==
  ASSUME WorkspacesInv, NEW c \in Children, Active(c),
         NEW w \in Workers, agent' = [agent EXCEPT ![c] = w],
         w.dir = agent[c].dir, w.own = Own(c),
         w.at \notin {"idle", "queues", "copies"}, w.at \in {"syncs", "removes"} => Own(c) # 0,
         w.at \in {"takes", "works"} => cramped' \/ ~job.guarded \/ w.dir # LeadDir,
         job' = job, exists' = exists, moved' = moved, locks \subseteq locks', cramped => cramped',
         cramped' \in BOOLEAN
  PROVE  Placed'
<1>1. WorkspacesTypeOK /\ LeadWaits /\ NothingLeft /\ OwnsApart /\ DirsApart
  BY DEF WorkspacesInv
<1>2. /\ agent'[c] = w
      /\ \A b \in Agents : b # c => agent'[b] = agent[b]
      /\ LeadDir' = LeadDir /\ IsAt(Lead, "works")' = IsAt(Lead, "works")
  BY <1>1, OneChildChanges
<1>3. Delegated \subseteq Children /\ Children \subseteq Agents /\ Delegated' = Delegated
  BY <1>1, Delegations0 DEF Delegated
<1>4. c \in Delegated
  BY ActiveIsDelegated DEF Active
<1>5. \A b \in Children : Own(b)' = Own(b)
  BY <1>2, <1>3 DEF Own
<1>6. \A b \in Children : agent'[b].dir = agent[b].dir
  BY <1>2, <1>3
<1>7. \A b \in Children : Active(b)' => Active(b)
  BY <1>2, <1>3 DEF Active
<1>8. LeadWaits'
  BY <1>1, <1>2 DEF LeadWaits
<1>9. NothingLeft'
  BY <1>1, <1>5 DEF NothingLeft, Own
<1>10. OwnsApart'
  <2>1. \A b \in Children : Own(b)' # 0 => Own(b)' \notin ({Main} \cup moved)'
    BY <1>1, <1>5 DEF OwnsApart
  <2>2. \A b, d \in Children : b # d /\ Own(b)' # 0 => Own(b)' # Own(d)'
    BY <1>1, <1>5 DEF OwnsApart
  <2>3. \A b \in Children : IsAt(b, "queues")' \/ IsAt(b, "copies")' => Own(b)' = 0
    BY <1>1, <1>2, <1>3, <1>5 DEF OwnsApart, IsAt
  <2>4. \A b \in Children : IsAt(b, "syncs")' \/ IsAt(b, "removes")' => Own(b)' # 0
    BY <1>1, <1>2, <1>3, <1>5 DEF OwnsApart, IsAt
  <2>5. \A b \in Children \ Delegated : agent'[b] = NobodyYet
    BY <1>1, <1>2, <1>3, <1>4 DEF OwnsApart
  <2> QED BY <1>3, <2>1, <2>2, <2>3, <2>4, <2>5 DEF OwnsApart
<1>11. DirsApart'
  <2>1. \A b \in Children : Active(b)' => agent'[b].dir \in exists'
    BY <1>1, <1>6, <1>7 DEF DirsApart
  <2>2. \A b, d \in Children : b # d /\ Active(b)' /\ Active(d)' /\ agent'[b].dir = agent'[d].dir
                                => agent'[b].dir = LeadDir'
    BY <1>1, <1>2, <1>6, <1>7 DEF DirsApart
  <2>3. \A b, d \in Children : b # d /\ Own(b)' # 0 /\ Active(d)' => agent'[d].dir # Own(b)'
    BY <1>1, <1>5, <1>6, <1>7 DEF DirsApart
  <2>4. ASSUME ~cramped', job.guarded, NEW b \in Delegated, IsAt(b, "takes")' \/ IsAt(b, "works")'
        PROVE  agent'[b].dir # LeadDir'
    <3>1. ~cramped
      BY <2>4
    <3>2. CASE b = c
      BY <1>2, <2>4, <3>2 DEF IsAt
    <3>3. CASE b # c
      BY <1>1, <1>2, <1>3, <2>4, <3>1, <3>3 DEF DirsApart, IsAt
    <3> QED BY <3>2, <3>3
  <2> QED BY <1>3, <2>1, <2>2, <2>3, <2>4 DEF DirsApart
<1> QED BY <1>8, <1>9, <1>10, <1>11 DEF Placed

\* A child that goes to a directory that was not there is alone in it, whether
\* it was made for the child or the child made it.
LEMMA ChildMoves ==
  ASSUME WorkspacesInv, NEW c \in Children, Active(c), NEW d \in Dirs, d \notin exists,
         NEW w \in Workers, agent' = [agent EXCEPT ![c] = w], w.dir = d,
         w.at \in {"works", "ready", "enters"},
         \/ w.own = d /\ Own(c) = 0 /\ moved' = moved
         \/ w.own = Own(c) /\ moved' = moved \cup {d},
         job' = job, exists' = exists \cup {d}, locks \subseteq locks', cramped' = cramped
  PROVE  Placed'
<1>1. WorkspacesTypeOK /\ LeadWaits /\ NothingLeft /\ OwnsApart /\ DirsApart
  BY DEF WorkspacesInv
<1>2. /\ agent'[c] = w
      /\ \A b \in Agents : b # c => agent'[b] = agent[b]
      /\ LeadDir' = LeadDir /\ IsAt(Lead, "works")' = IsAt(Lead, "works")
  BY <1>1, OneChildChanges
<1>3. Delegated \subseteq Children /\ Children \subseteq Agents /\ Delegated' = Delegated
  BY <1>1, Delegations0 DEF Delegated
<1>4. c \in Delegated
  BY ActiveIsDelegated DEF Active
<1>5. d # Main /\ d \notin moved /\ d # LeadDir /\ d # 0 /\ \A b \in Children : Own(b) # d
  BY <1>1 DEF NothingLeft, LeadWaits, Own, Dirs
<1>6. \A b \in Children : b # c => Own(b)' = Own(b) /\ agent'[b].dir = agent[b].dir /\ Active(b)' = Active(b)
  BY <1>2, <1>3 DEF Own, Active
<1>7. Own(c)' = w.own /\ agent'[c].dir = d
  BY <1>2 DEF Own
<1>8. LeadWaits'
  BY <1>1, <1>2 DEF LeadWaits
<1>9. NothingLeft'
  <2>1. CASE w.own = d /\ Own(c) = 0 /\ moved' = moved
    <3>1. {Own(b)' : b \in Children} \ {0} = ({Own(b) : b \in Children} \ {0}) \cup {d}
      BY <1>5, <1>6, <1>7, <2>1
    <3> QED BY <1>1, <2>1, <3>1 DEF NothingLeft, Own
  <2>2. CASE w.own = Own(c) /\ moved' = moved \cup {d}
    <3>1. \A b \in Children : Own(b)' = Own(b)
      BY <1>6, <1>7, <2>2
    <3>2. {Own(b)' : b \in Children} = {Own(b) : b \in Children}
      BY <3>1
    <3> QED BY <1>1, <2>2, <3>2 DEF NothingLeft, Own
  <2> QED BY <2>1, <2>2
<1>10. OwnsApart'
  <2>1. \A b \in Children : Own(b)' # 0 => Own(b)' \notin ({Main} \cup moved)'
    <3> SUFFICES ASSUME NEW b \in Children, Own(b)' # 0
                 PROVE  Own(b)' \notin ({Main} \cup moved)'
      OBVIOUS
    <3>1. Own(b) # 0 => Own(b) \notin {Main} \cup moved
      BY <1>1 DEF OwnsApart
    <3>2. CASE b = c
      BY <1>5, <1>7, <3>1, <3>2
    <3>3. CASE b # c
      BY <1>5, <1>6, <3>1, <3>3
    <3> QED BY <3>2, <3>3
  <2>2. \A b, e \in Children : b # e /\ Own(b)' # 0 => Own(b)' # Own(e)'
    BY <1>1, <1>5, <1>6, <1>7 DEF OwnsApart
  <2>3. \A b \in Children : IsAt(b, "queues")' \/ IsAt(b, "copies")' => Own(b)' = 0
    BY <1>1, <1>2, <1>3, <1>6 DEF OwnsApart, IsAt
  <2>4. \A b \in Children : IsAt(b, "syncs")' \/ IsAt(b, "removes")' => Own(b)' # 0
    BY <1>1, <1>2, <1>3, <1>6 DEF OwnsApart, IsAt
  <2>5. \A b \in Children \ Delegated : agent'[b] = NobodyYet
    BY <1>1, <1>2, <1>3, <1>4 DEF OwnsApart
  <2> QED BY <1>3, <2>1, <2>2, <2>3, <2>4, <2>5 DEF OwnsApart
<1>11. DirsApart'
  <2>1. \A b \in Children : Active(b)' => agent'[b].dir \in exists'
    BY <1>1, <1>6, <1>7 DEF DirsApart
  <2>2. \A b \in Children : b # c /\ Active(b) => agent[b].dir # d
    BY <1>1 DEF DirsApart
  <2>3. \A b, e \in Children : b # e /\ Active(b)' /\ Active(e)' /\ agent'[b].dir = agent'[e].dir
                                => agent'[b].dir = LeadDir'
    BY <1>1, <1>2, <1>6, <1>7, <2>2 DEF DirsApart
  <2>4. \A b, e \in Children : b # e /\ Own(b)' # 0 /\ Active(e)' => agent'[e].dir # Own(b)'
    <3> SUFFICES ASSUME NEW b \in Children, NEW e \in Children, b # e, Own(b)' # 0, Active(e)'
                 PROVE  agent'[e].dir # Own(b)'
      OBVIOUS
    <3>1. CASE b = c
      BY <1>1, <1>6, <1>7, <2>2, <3>1 DEF DirsApart
    <3>2. CASE e = c
      BY <1>5, <1>6, <1>7, <3>2
    <3>3. CASE b # c /\ e # c
      BY <1>1, <1>6, <3>3 DEF DirsApart
    <3> QED BY <3>1, <3>2, <3>3
  <2>5. ASSUME ~cramped', job.guarded, NEW b \in Delegated, IsAt(b, "takes")' \/ IsAt(b, "works")'
        PROVE  agent'[b].dir # LeadDir'
    <3>1. CASE b = c
      BY <1>2, <1>5, <1>7, <3>1
    <3>2. CASE b # c
      BY <1>1, <1>2, <1>3, <2>5, <3>2 DEF DirsApart, IsAt
    <3> QED BY <3>1, <3>2
  <2> QED BY <1>3, <2>1, <2>3, <2>4, <2>5 DEF DirsApart
<1> QED BY <1>8, <1>9, <1>10, <1>11 DEF Placed

\* A directory that was made for a child is no longer there when it is done.
LEMMA ChildLeaves ==
  ASSUME WorkspacesInv, NEW c \in Children, Delete(c)
  PROVE  Placed'
<1> DEFINE w == [agent[c] EXCEPT !.at = "done", !.own = 0]
<1>1. WorkspacesTypeOK /\ LeadWaits /\ NothingLeft /\ OwnsApart /\ DirsApart
  BY DEF WorkspacesInv
<1>2. Delegated \subseteq Children /\ Children \subseteq Agents /\ Delegated' = Delegated /\ agent[c] \in Workers
  BY <1>1, Delegations0 DEF Delegated, Delete
<1>3. w \in Workers /\ w.dir = agent[c].dir /\ w.own = 0 /\ w.at = "done"
  BY <1>2 DEF Workers, Places
<1>4. agent' = [agent EXCEPT ![c] = w] /\ job' = job /\ moved' = moved /\ cramped' = cramped
      /\ exists' = exists \ {Own(c)} /\ locks' = locks \ {Own(c)}
  BY DEF Delete, Own
<1> HIDE DEF w
<1>5. /\ agent'[c] = w
      /\ \A b \in Agents : b # c => agent'[b] = agent[b]
      /\ LeadDir' = LeadDir /\ IsAt(Lead, "works")' = IsAt(Lead, "works")
  BY <1>1, <1>3, <1>4, OneChildChanges
<1>6. c \in Delegated /\ Own(c) # 0 /\ Own(c) \notin {Main} \cup moved /\ Own(c) # LeadDir
  <2>1. agent[c].at = "removes"
    BY DEF Delete, IsAt
  <2>2. c \in Delegated
    BY <2>1, ActiveIsDelegated
  <2>3. Own(c) # 0
    BY <1>1, <2>1 DEF OwnsApart, IsAt
  <2> QED BY <1>1, <2>2, <2>3 DEF OwnsApart, LeadWaits
<1>7. \A b \in Children : b # c => Own(b)' = Own(b) /\ agent'[b].dir = agent[b].dir /\ Active(b)' = Active(b)
  BY <1>2, <1>5 DEF Own, Active
<1>8. Own(c)' = 0 /\ ~Active(c)'
  BY <1>3, <1>5 DEF Own, Active
<1>9. LeadWaits'
  BY <1>1, <1>4, <1>5, <1>6 DEF LeadWaits
<1>10. NothingLeft'
  <2>1. \A b \in Children : b # c => Own(b) # Own(c)
    BY <1>1, <1>6 DEF OwnsApart
  <2>2. {Own(b)' : b \in Children} \ {0} = ({Own(b) : b \in Children} \ {0}) \ {Own(c)}
    BY <1>6, <1>7, <1>8, <2>1
  <2> QED BY <1>1, <1>4, <1>6, <2>2 DEF NothingLeft, Own
<1>11. OwnsApart'
  <2>1. \A b \in Children : Own(b)' # 0 => b # c /\ Own(b)' = Own(b)
    BY <1>7, <1>8
  <2>2. \A b \in Children : Own(b)' # 0 => Own(b)' \notin ({Main} \cup moved)'
    BY <1>1, <1>4, <2>1 DEF OwnsApart
  <2>3. \A b, d \in Children : b # d /\ Own(b)' # 0 => Own(b)' # Own(d)'
    BY <1>1, <2>1 DEF OwnsApart
  <2>4. \A b \in Children : IsAt(b, "queues")' \/ IsAt(b, "copies")' => Own(b)' = 0
    BY <1>1, <1>2, <1>5, <1>7, <1>8 DEF OwnsApart, IsAt
  <2>5. \A b \in Children : IsAt(b, "syncs")' \/ IsAt(b, "removes")' => Own(b)' # 0
    BY <1>1, <1>2, <1>3, <1>5, <1>7 DEF OwnsApart, IsAt
  <2>6. \A b \in Children \ Delegated : agent'[b] = NobodyYet
    BY <1>1, <1>2, <1>5, <1>6 DEF OwnsApart
  <2> QED BY <1>2, <2>2, <2>3, <2>4, <2>5, <2>6 DEF OwnsApart
<1>12. DirsApart'
  <2>1. \A b \in Children : Active(b)' => b # c /\ Active(b) /\ agent'[b].dir = agent[b].dir
    BY <1>7, <1>8
  <2>2. \A b \in Children : Active(b)' => agent'[b].dir \in exists'
    BY <1>1, <1>4, <1>6, <2>1 DEF DirsApart
  <2>3. \A b, d \in Children : b # d /\ Active(b)' /\ Active(d)' /\ agent'[b].dir = agent'[d].dir
                                => agent'[b].dir = LeadDir'
    BY <1>1, <1>5, <2>1 DEF DirsApart
  <2>4. \A b, d \in Children : b # d /\ Own(b)' # 0 /\ Active(d)' => agent'[d].dir # Own(b)'
    BY <1>1, <1>7, <1>8, <2>1 DEF DirsApart
  <2>5. ASSUME ~cramped', job.guarded, NEW b \in Delegated, IsAt(b, "takes")' \/ IsAt(b, "works")'
        PROVE  agent'[b].dir # LeadDir'
    <3>1. b # c
      BY <1>3, <1>5, <2>5 DEF IsAt
    <3> QED BY <1>1, <1>2, <1>4, <1>5, <2>5, <3>1 DEF DirsApart, IsAt
  <2> QED BY <1>2, <1>4, <2>2, <2>3, <2>4, <2>5 DEF DirsApart
<1> QED BY <1>9, <1>10, <1>11, <1>12 DEF Placed

(* ------------------------------- the lead ------------------------------ *)

\* As long as nobody is delegated to, only the lead's own place matters.
LEMMA LeadStays ==
  ASSUME WorkspacesInv, job = NoJob, job' = job, \A c \in Children : agent'[c] = agent[c],
         exists' = {Main} \cup moved', LeadDir' \in {Main} \cup moved'
  PROVE  Placed' /\ OutputsKept'
<1>1. Delegated' = {} /\ \A c \in Children : agent'[c] = NobodyYet
  BY LeadAlone DEF Delegated
<1>2. \A c \in Children : Own(c)' = 0 /\ ~Active(c)'
  BY <1>1 DEF Own, Active, NobodyYet
<1>3. LeadWaits'
  BY DEF LeadWaits, NoJob
<1>4. NothingLeft'
  BY <1>2 DEF NothingLeft, Own
<1>5. OwnsApart'
  BY <1>1, <1>2 DEF OwnsApart, IsAt, NobodyYet
<1>6. DirsApart'
  BY <1>1, <1>2 DEF DirsApart
<1>7. OutputsKept'
  BY DEF OutputsKept, NoJob
<1> QED BY <1>3, <1>4, <1>5, <1>6, <1>7 DEF Placed

\* Only the lead answers and looks for a place when nobody is delegated to.
LEMMA LeadChanges ==
  ASSUME WorkspacesTypeOK, NEW w \in Workers, agent' = [agent EXCEPT ![Lead] = w]
  PROVE  /\ agent' \in [Agents -> Workers] /\ agent'[Lead] = w
         /\ \A c \in Children : agent'[c] = agent[c]
BY Delegations0 DEF WorkspacesTypeOK

\* The children of a job begin in the lead's directory, with nothing made.
LEMMA JobBegins ==
  ASSUME WorkspacesInv, NEW kind \in {"single", "delegates", "plan", "phase"}, NEW n \in Children,
         NEW place \in {"enters", "queues", "copies"}, BeginJob(kind, n, place), UNCHANGED dirVars
  PROVE  Placed' /\ OutputsKept' /\ WorkspacesTypeOK'
<1>1. WorkspacesTypeOK /\ LeadWaits /\ NothingLeft /\ OwnsApart /\ DirsApart
  BY DEF WorkspacesInv
<1> DEFINE w == [NobodyYet EXCEPT !.at = place, !.dir = LeadDir]
<1>2. /\ job = NoJob /\ IsAt(Lead, "works") /\ outputs' = <<>> /\ moved' = moved
      /\ job' = [kind |-> kind, stage |-> "run", n |-> n, guarded |-> LeadDir \in locks]
      /\ agent' = [a \in Agents |-> IF a \in 1..n THEN w ELSE agent[a]]
      /\ foreign' = foreign /\ edits' = edits /\ runs' = runs /\ jobs' = jobs + 1
  BY DEF BeginJob, LeadDir
<1>3. exists' = exists /\ locks' = locks /\ tree' = tree /\ git' = git /\ cramped' = cramped
  BY DEF dirVars
<1>4. exists = {Main} \cup moved /\ \A c \in Children : agent[c] = NobodyYet
  BY <1>2, LeadAlone
<1>5. /\ Children \subseteq Agents /\ Lead \in Agents /\ Lead \notin Children /\ Main \in Dirs /\ LeadDir \in Dirs
      /\ n \in Nat /\ n > 0 /\ 1..n \subseteq Children /\ n \in 0..MaxChildren /\ Lead \notin 1..n
  <2>1. /\ Children \subseteq Agents /\ Lead \in Agents /\ Lead \notin Children /\ Main \in Dirs /\ LeadDir \in Dirs
    BY <1>1, Delegations0
  <2>2. MaxChildren \in Nat
    BY WorkspacesAssumption
  <2>3. n \in Nat /\ n > 0 /\ n \in 0..MaxChildren /\ 1..n \subseteq Children
    BY <2>2 DEF Children
  <2> QED BY <2>1, <2>3 DEF Lead
<1>6. w \in Workers /\ w.at = place /\ w.dir = LeadDir /\ w.own = 0
  BY <1>5 DEF NobodyYet, Workers, Places
<1> HIDE DEF w
<1>7. job'.n = n /\ job'.stage = "run" /\ job'.guarded = (LeadDir \in locks) /\ job' \in Delegations
  BY <1>2, <1>5 DEF Delegations
<1>8. job' # NoJob
  <2>1. job'.kind # "none"
    BY <1>2
  <2> QED BY <2>1 DEF NoJob
<1>9. Delegated' = 1..n /\ \A c \in Delegated' : agent'[c] = w
  BY <1>2, <1>5, <1>7 DEF Delegated
<1>10. \A c \in Children : c \notin Delegated' => agent'[c] = NobodyYet
  BY <1>2, <1>4, <1>5, <1>9
<1>11. LeadDir' = LeadDir /\ IsAt(Lead, "works")'
  BY <1>2, <1>5 DEF LeadDir, IsAt
<1>12. \A c \in Children : Own(c)' = 0 /\ (Active(c)' => agent'[c].dir = LeadDir)
  BY <1>6, <1>9, <1>10 DEF Own, Active, NobodyYet
<1>13. \A c \in Children : agent'[c].at \in {"idle", place}
  BY <1>6, <1>9, <1>10 DEF NobodyYet
<1>14. LeadWaits'
  BY <1>1, <1>2, <1>3, <1>5, <1>7, <1>8, <1>11 DEF LeadWaits
<1>15. NothingLeft'
  BY <1>2, <1>3, <1>4, <1>12 DEF NothingLeft, Own
<1>16. OwnsApart'
  BY <1>10, <1>12, <1>13 DEF OwnsApart, IsAt
<1>17. DirsApart'
  <2>1. \A c \in Children : Active(c)' => agent'[c].dir \in exists'
    BY <1>1, <1>3, <1>4, <1>12 DEF LeadWaits
  <2>2. \A c \in Children : ~IsAt(c, "takes")' /\ ~IsAt(c, "works")'
    BY <1>13 DEF IsAt
  <2> QED BY <1>5, <1>9, <1>11, <1>12, <2>1, <2>2 DEF DirsApart
<1>18. OutputsKept'
  <2>1. \A c \in Delegated' : agent'[c].at \notin {"syncs", "removes", "done"}
    BY <1>6, <1>9
  <2>2. EndedRuns' = {}
    BY <2>1 DEF EndedRuns
  <2>3. outputs' \in Seq(Delegated') /\ DOMAIN outputs' = {} /\ Len(outputs') = 0
    BY <1>2
  <2> QED BY <1>7, <2>2, <2>3, FS_EmptySet DEF OutputsKept
<1>19. WorkspacesTypeOK'
  <2>1. agent' \in [Agents -> Workers]
    BY <1>1, <1>2, <1>6 DEF WorkspacesTypeOK
  <2> QED BY <1>1, <1>2, <1>3, <1>7, <2>1 DEF WorkspacesTypeOK
<1> QED BY <1>14, <1>15, <1>16, <1>17, <1>18, <1>19 DEF Placed

(* ------------------------------- outputs ------------------------------- *)

LEMMA OutputsStay ==
  ASSUME OutputsKept, job' = job, outputs' = outputs, EndedRuns' = EndedRuns
  PROVE  OutputsKept'
BY DEF OutputsKept, Delegated

\* The runs that are over stay so when a child goes from place to place.
LEMMA EndedStay ==
  ASSUME WorkspacesTypeOK, NEW c \in Children, NEW w \in Workers, agent' = [agent EXCEPT ![c] = w], job' = job,
         agent[c].at \in {"syncs", "removes", "done"} <=> w.at \in {"syncs", "removes", "done"}
  PROVE  EndedRuns' = EndedRuns
<1>1. Delegated' = Delegated /\ Delegated \subseteq Children /\ Children \subseteq Agents
  BY Delegations0 DEF Delegated
<1>2. agent'[c] = w /\ \A b \in Agents : b # c => agent'[b] = agent[b]
  BY OneChildChanges
<1>3. \A b \in Delegated : agent'[b].at \in {"syncs", "removes", "done"} <=> agent[b].at \in {"syncs", "removes", "done"}
  BY <1>1, <1>2
<1> QED BY <1>1, <1>3 DEF EndedRuns

\* Each child has one output, in the place at which its first run ended.
LEMMA ChildEndsWell ==
  ASSUME WorkspacesInv, NEW c \in Children, EndChild(c)
  PROVE  OutputsKept' /\ Placed' /\ WorkspacesTypeOK'
<1>1. WorkspacesTypeOK /\ OwnsApart /\ OutputsKept
  BY DEF WorkspacesInv
<1>2. agent[c].at = "works" /\ job' = job
  BY DEF EndChild, IsAt
<1>3. c \in Delegated /\ job # NoJob /\ Active(c)
  BY <1>2, ActiveIsDelegated DEF Active
<1>4. Delegated \subseteq Children /\ Children \subseteq Agents /\ Delegated' = Delegated
      /\ agent[c] \in Workers /\ job.n \in 0..MaxChildren /\ job.stage \in {"run", "review"}
  BY <1>1, <1>2, Delegations0 DEF Delegated, WorkspacesTypeOK, Delegations
<1>5. PICK w \in Workers : /\ agent' = [agent EXCEPT ![c] = w]
                           /\ w.dir = agent[c].dir /\ w.own = Own(c) /\ w.at \in {"syncs", "done"}
                           /\ w.at = "syncs" => Own(c) # 0
  <2>1. CASE job.kind = "delegates" /\ agent[c].own # 0
    <3>1. [agent[c] EXCEPT !.at = "syncs", !.todo = Files \cup {LockFile}] \in Workers
      BY <1>4 DEF Workers, Places
    <3> QED BY <1>4, <2>1, <3>1 DEF EndChild, Own, Workers
  <2>2. CASE ~(job.kind = "delegates" /\ agent[c].own # 0)
    <3>1. [agent[c] EXCEPT !.at = "done"] \in Workers
      BY <1>4 DEF Workers, Places
    <3>2. agent' = [agent EXCEPT ![c] = [agent[c] EXCEPT !.at = "done"]]
      BY <2>2 DEF EndChild, Becomes
    <3> QED BY <1>4, <3>1, <3>2 DEF Own, Workers
  <2> QED BY <2>1, <2>2
<1>6. agent'[c] = w /\ agent' \in [Agents -> Workers] /\ \A b \in Agents : b # c => agent'[b] = agent[b]
  BY <1>1, <1>5, OneChildChanges
<1>7. UNCHANGED <<dirVars, moved, foreign, edits, runs, jobs>>
  BY DEF EndChild
<1>8. Placed'
  BY <1>1, <1>2, <1>3, <1>5, <1>7, ChildStays DEF dirVars, WorkspacesTypeOK
<1>9. outputs' \in Seq(Children)
  BY <1>1, AppendProperties DEF EndChild, WorkspacesTypeOK
<1>10. WorkspacesTypeOK'
  BY <1>1, <1>2, <1>6, <1>7, <1>9 DEF WorkspacesTypeOK, dirVars
<1>11. ASSUME job.stage = "run" PROVE OutputsKept'
  <2>1. c \notin EndedRuns /\ EndedRuns' = EndedRuns \cup {c}
    <3>1. \A b \in Delegated : agent'[b].at \in {"syncs", "removes", "done"}
                               <=> b = c \/ agent[b].at \in {"syncs", "removes", "done"}
      BY <1>4, <1>5, <1>6
    <3> QED BY <1>2, <1>3, <1>4, <3>1 DEF EndedRuns
  <2>2. outputs \in Seq(Delegated) /\ outputs' = Append(outputs, c)
    BY <1>1, <1>3, <1>11 DEF OutputsKept, EndChild
  <2>3. /\ outputs' \in Seq(Delegated) /\ Len(outputs') = Len(outputs) + 1 /\ Len(outputs) \in Nat
        /\ \A i \in 1..Len(outputs) : outputs'[i] = outputs[i]
        /\ outputs'[Len(outputs) + 1] = c
        /\ DOMAIN outputs = 1..Len(outputs) /\ DOMAIN outputs' = 1..(Len(outputs) + 1)
    BY <1>3, <2>2, AppendProperties
  <2>4. {outputs[i] : i \in DOMAIN outputs} = EndedRuns /\ Len(outputs) = Cardinality(EndedRuns)
    BY <1>1, <1>3, <1>11 DEF OutputsKept
  <2>5. \A i \in DOMAIN outputs : outputs[i] # c
    BY <2>1, <2>4
  <2>6. \A i, j \in DOMAIN outputs' : outputs'[i] = outputs'[j] => i = j
    <3> SUFFICES ASSUME NEW i \in DOMAIN outputs', NEW j \in DOMAIN outputs', outputs'[i] = outputs'[j], i # j
                 PROVE  FALSE
      OBVIOUS
    <3>1. CASE i = Len(outputs) + 1
      BY <2>3, <2>5, <3>1
    <3>2. CASE j = Len(outputs) + 1
      BY <2>3, <2>5, <3>2
    <3>3. CASE i \in DOMAIN outputs /\ j \in DOMAIN outputs
      BY <1>1, <1>3, <2>3, <3>3 DEF OutputsKept
    <3> QED BY <2>3, <3>1, <3>2, <3>3
  <2>7. {outputs'[i] : i \in DOMAIN outputs'} = EndedRuns'
    <3>1. \A x \in EndedRuns' : \E i \in DOMAIN outputs' : x = outputs'[i]
      <4> SUFFICES ASSUME NEW x \in EndedRuns'
                   PROVE  \E i \in DOMAIN outputs' : x = outputs'[i]
        OBVIOUS
      <4>1. CASE x = c
        BY <2>3, <4>1
      <4>2. CASE x \in EndedRuns
        <5>1. PICK i \in DOMAIN outputs : x = outputs[i]
          BY <2>4, <4>2
        <5> QED BY <2>3, <5>1
      <4> QED BY <2>1, <4>1, <4>2
    <3>2. \A i \in DOMAIN outputs' : outputs'[i] \in EndedRuns'
      <4> SUFFICES ASSUME NEW i \in DOMAIN outputs'
                   PROVE  outputs'[i] \in EndedRuns'
        OBVIOUS
      <4>1. CASE i = Len(outputs) + 1
        BY <2>1, <2>3, <4>1
      <4>2. CASE i \in DOMAIN outputs
        BY <2>1, <2>3, <2>4, <4>2
      <4> QED BY <2>3, <4>1, <4>2
    <3> QED BY <3>1, <3>2
  <2>8. Len(outputs') = Cardinality(EndedRuns')
    <3>1. IsFiniteSet(Delegated)
      BY <1>4, FS_Interval DEF Delegated
    <3>2. IsFiniteSet(EndedRuns)
      BY <3>1, FS_Subset DEF EndedRuns
    <3>3. Cardinality(EndedRuns \cup {c}) = Cardinality(EndedRuns) + 1
      BY <2>1, <3>2, FS_AddElement
    <3> QED BY <2>1, <2>3, <2>4, <3>3
  <2> QED BY <1>2, <1>4, <1>11, <2>3, <2>6, <2>7, <2>8 DEF OutputsKept
<1>12. ASSUME job.stage = "review" PROVE OutputsKept'
  <2>1. outputs' = outputs
    BY <1>12 DEF EndChild
  <2> QED BY <1>1, <1>2, <1>4, <1>12, <2>1 DEF OutputsKept
<1> QED BY <1>4, <1>8, <1>10, <1>11, <1>12

(* ----------------------- reviews and the end of jobs ------------------- *)

\* The copies that are copied back come from a directory, and their lock
\* goes to the lead's.
LEMMA MergeKeepsType ==
  ASSUME WorkspacesTypeOK, NEW removed, MergeDirs(removed)
  PROVE  /\ tree' \in [Dirs -> [Files -> SUBSET Nat]]
         /\ locks' \subseteq Dirs /\ locks \ removed \subseteq locks'
<1>0. locks' \subseteq Dirs /\ locks \ removed \subseteq locks'
  <2>1. LeadDir \in Dirs /\ locks \subseteq Dirs
    BY Delegations0 DEF WorkspacesTypeOK
  <2>2. locks \ removed \subseteq locks' /\ locks' \subseteq locks \cup {LeadDir}
    BY DEF MergeDirs, WithLocksOf, LeadDir
  <2> QED BY <2>1, <2>2
<1>1. CASE Copies = {}
  BY <1>1 DEF MergeDirs, WorkspacesTypeOK
<1>2. CASE Copies # {}
  <2>1. Copies \in SUBSET Children /\ LeadDir \in Dirs
    BY Delegations0 DEF Copies
  <2>2. Max(Copies) \in Copies
    BY <1>2, <2>1, GreatestChild
  <2>3. agent[Max(Copies)].own \in Dirs
    BY <2>1, <2>2, Delegations0 DEF Copies, Workers
  <2>4. tree' \in [Dirs -> [Files -> SUBSET Nat]]
    BY <2>1, <2>3 DEF MergeDirs, WorkspacesTypeOK, LeadDir
  <2> QED BY <1>0, <2>4
<1> QED BY <1>0, <1>1, <1>2

\* All first runs are over when the reviews begin.
LEMMA ReviewsBegin ==
  ASSUME WorkspacesInv, CrossReview
  PROVE  Placed' /\ OutputsKept' /\ WorkspacesTypeOK'
<1>1. WorkspacesTypeOK /\ LeadWaits /\ NothingLeft /\ OwnsApart /\ DirsApart /\ OutputsKept
  BY DEF WorkspacesInv
<1>2. /\ job # NoJob /\ \A c \in Delegated : agent[c].at = "done"
      /\ job.kind = "phase" /\ job.stage = "run"
      /\ job' = [job EXCEPT !.stage = "review"] /\ outputs' = outputs
      /\ agent' = [a \in Agents |-> IF a \in Delegated THEN [agent[a] EXCEPT !.at = "enters", !.dir = LeadDir]
                                    ELSE agent[a]]
      /\ UNCHANGED <<exists, git, cramped, foreign, moved, edits, runs, jobs>>
  BY DEF CrossReview, ChildrenDone, Reviews, IsAt, LeadDir
<1>3. /\ Delegated \subseteq Children /\ Children \subseteq Agents /\ Lead \in Agents /\ Lead \notin Children
      /\ Main \in Dirs /\ LeadDir \in Dirs /\ \A a \in Agents : agent[a] \in Workers
      /\ job.n \in 0..MaxChildren /\ job \in Delegations
  BY <1>1, Delegations0 DEF WorkspacesTypeOK
<1>4. /\ job' \in Delegations /\ job'.kind = "phase" /\ job'.n = job.n /\ job'.stage = "review"
      /\ job'.guarded = job.guarded
  BY <1>2, <1>3 DEF Delegations
<1>5. job' # NoJob /\ Delegated' = Delegated
  BY <1>4 DEF NoJob, Delegated
<1>6. \A c \in Delegated : /\ agent'[c].at = "enters" /\ agent'[c].dir = LeadDir /\ agent'[c].own = agent[c].own
                           /\ agent'[c] \in Workers
  BY <1>2, <1>3 DEF Workers, Places
<1>7. \A a \in Agents : a \notin Delegated => agent'[a] = agent[a]
  BY <1>2
<1>8. LeadDir' = LeadDir /\ IsAt(Lead, "works")' = IsAt(Lead, "works")
  BY <1>3, <1>7 DEF LeadDir, IsAt
<1>9. \A c \in Children : Own(c)' = Own(c)
  BY <1>3, <1>6, <1>7 DEF Own
<1>10. \A c \in Children \ Delegated : agent'[c] = NobodyYet
  BY <1>1, <1>3, <1>7 DEF OwnsApart
<1>11. \A c \in Children : agent'[c].at \in {"enters", "idle"} /\ (Active(c)' => agent'[c].dir = LeadDir)
  BY <1>6, <1>10 DEF NobodyYet, Active
<1>12. LeadWaits'
  <2>1. job.n > 0
    BY <1>1, <1>2 DEF LeadWaits
  <2>2. locks \subseteq locks'
    <3>1. MergeDirs({})
      BY DEF CrossReview
    <3> QED BY <1>1, <3>1, MergeKeepsType
  <2> QED BY <1>1, <1>2, <1>4, <1>5, <1>8, <2>1, <2>2 DEF LeadWaits
<1>13. NothingLeft'
  <2>1. {Own(c)' : c \in Children} = {Own(c) : c \in Children}
    BY <1>9
  <2> QED BY <1>1, <1>2, <2>1 DEF NothingLeft, Own
<1>14. LeadDir \in exists /\ \A c \in Children : Own(c) # 0 => Own(c) # LeadDir
  BY <1>1 DEF LeadWaits, NothingLeft, OwnsApart
<1>15. OwnsApart'
  <2>1. \A c \in Children : Own(c)' # 0 => Own(c)' \notin ({Main} \cup moved)'
    BY <1>1, <1>2, <1>9 DEF OwnsApart
  <2>2. \A c, d \in Children : c # d /\ Own(c)' # 0 => Own(c)' # Own(d)'
    BY <1>1, <1>9 DEF OwnsApart
  <2> QED BY <1>5, <1>10, <1>11, <2>1, <2>2 DEF OwnsApart, IsAt
<1>16. DirsApart'
  <2>1. \A c \in Children : Active(c)' => agent'[c].dir \in exists'
    <3>1. exists' = exists
      BY <1>2
    <3> QED BY <1>11, <1>14, <3>1
  <2>2. \A c, d \in Children : c # d /\ Own(c)' # 0 /\ Active(d)' => agent'[d].dir # Own(c)'
    BY <1>9, <1>11, <1>14
  <2>3. \A c \in Children : ~IsAt(c, "takes")' /\ ~IsAt(c, "works")'
    BY <1>11 DEF IsAt
  <2> QED BY <1>3, <1>5, <1>8, <1>11, <2>1, <2>2, <2>3 DEF DirsApart
<1>17. OutputsKept'
  <2>1. EndedRuns = Delegated
    BY <1>2 DEF EndedRuns
  <2>2. Cardinality(Delegated) = job.n
    BY <1>3, FS_Interval DEF Delegated
  <2>3. /\ outputs \in Seq(Delegated) /\ \A i, j \in DOMAIN outputs : outputs[i] = outputs[j] => i = j
        /\ {outputs[i] : i \in DOMAIN outputs} = Delegated /\ Len(outputs) = job.n
    BY <1>1, <1>2, <2>1, <2>2 DEF OutputsKept
  <2> QED BY <1>2, <1>4, <1>5, <2>3 DEF OutputsKept
<1>18. WorkspacesTypeOK'
  <2>1. agent' \in [Agents -> Workers]
    BY <1>2, <1>3, <1>6, <1>7
  <2>2. tree' \in [Dirs -> [Files -> SUBSET Nat]] /\ locks' \subseteq Dirs
    <3>1. MergeDirs({})
      BY DEF CrossReview
    <3> QED BY <1>1, <3>1, MergeKeepsType
  <2> QED BY <1>1, <1>2, <1>4, <2>1, <2>2 DEF WorkspacesTypeOK
<1> QED BY <1>12, <1>13, <1>15, <1>16, <1>17, <1>18 DEF Placed

\* The copies are removed, those of all children.
LEMMA JobEnds ==
  ASSUME WorkspacesInv, EndJob
  PROVE  Placed' /\ OutputsKept' /\ WorkspacesTypeOK'
<1>1. WorkspacesTypeOK /\ LeadWaits /\ NothingLeft /\ OwnsApart
  BY DEF WorkspacesInv
<1> DEFINE copies == {agent[c].own : c \in Copies}
<1>2. /\ exists' = exists \ copies /\ git' = git \ copies /\ MergeDirs(copies)
      /\ job' = NoJob /\ agent' = [a \in Agents |-> IF a = Lead THEN agent[a] ELSE NobodyYet]
      /\ UNCHANGED <<cramped, outputs, foreign, moved, edits, runs, jobs>>
  BY DEF EndJob
<1>3. /\ Delegated \subseteq Children /\ Children \subseteq Agents /\ Lead \in Agents /\ Lead \notin Children
      /\ Main \in Dirs /\ LeadDir \in Dirs /\ \A a \in Agents : agent[a] \in Workers
  BY <1>1, Delegations0
<1>4. \A c \in Children : agent'[c] = NobodyYet
  BY <1>2, <1>3
<1>5. agent'[Lead] = agent[Lead]
  BY <1>2, <1>3
<1>6. copies = {agent[c].own : c \in Children} \ {0}
  <2>1. \A c \in Children : c \notin Delegated => agent[c].own = 0
    BY <1>1 DEF OwnsApart, NobodyYet
  <2> QED BY <1>3, <2>1 DEF Copies
<1>7. exists' = {Main} \cup moved
  <2>1. \A d \in copies : d \notin {Main} \cup moved
    BY <1>1, <1>6 DEF OwnsApart, Own
  <2> QED BY <1>1, <1>2, <1>6, <2>1 DEF NothingLeft
<1>8. Delegated' = {} /\ \A c \in Children : Own(c)' = 0 /\ ~Active(c)'
  <2>1. job'.n = 0
    BY <1>2 DEF NoJob
  <2>2. Delegated' = {}
    BY <2>1 DEF Delegated
  <2> QED BY <1>4, <2>2 DEF Own, Active, NobodyYet
<1>9. Placed'
  <2>1. LeadWaits'
    BY <1>1, <1>2, <1>5 DEF LeadWaits, NoJob, LeadDir
  <2>2. NothingLeft'
    BY <1>2, <1>7, <1>8 DEF NothingLeft, Own
  <2>3. OwnsApart'
    BY <1>4, <1>8 DEF OwnsApart, IsAt, NobodyYet
  <2>4. DirsApart'
    BY <1>8 DEF DirsApart
  <2> QED BY <2>1, <2>2, <2>3, <2>4 DEF Placed
<1>10. OutputsKept'
  BY <1>2 DEF OutputsKept, NoJob
<1>11. WorkspacesTypeOK'
  <2>1. NobodyYet \in Workers
    BY <1>3 DEF NobodyYet, Workers, Places
  <2>2. agent' \in [Agents -> Workers]
    BY <1>2, <1>3, <2>1
  <2>3. tree' \in [Dirs -> [Files -> SUBSET Nat]] /\ locks' \subseteq Dirs
    BY <1>1, <1>2, MergeKeepsType
  <2>4. NoJob \in Delegations
    BY WorkspacesAssumption DEF NoJob, Delegations
  <2> QED BY <1>1, <1>2, <2>2, <2>3, <2>4 DEF WorkspacesTypeOK
<1> QED BY <1>9, <1>10, <1>11

(* ------------------------------- the steps ----------------------------- *)

LEMMA InitHolds ==
  ASSUME WorkspacesInit
  PROVE  WorkspacesInv
<1>1. /\ agent = [a \in Agents |-> NobodyYet] /\ job = NoJob /\ outputs = <<>> /\ exists = {Main} /\ moved = {}
      /\ Lead \in Agents /\ Children \subseteq Agents /\ Main \in Dirs
  BY WorkspacesAssumption DEF WorkspacesInit, Agents, Dirs, Main
<1>2. WorkspacesTypeOK
  <2>1. NobodyYet \in Workers
    BY <1>1 DEF NobodyYet, Workers, Places
  <2>2. NoJob \in Delegations
    BY WorkspacesAssumption DEF NoJob, Delegations
  <2>3. tree \in [Dirs -> [Files -> SUBSET Nat]]
    BY DEF WorkspacesInit, Committed
  <2>4. exists \subseteq Dirs /\ git \subseteq Dirs /\ locks \subseteq Dirs /\ moved \subseteq Dirs
    BY <1>1 DEF WorkspacesInit
  <2>5. agent \in [Agents -> Workers] /\ job \in Delegations /\ outputs \in Seq(Children)
    BY <1>1, <2>1, <2>2
  <2> QED BY <2>3, <2>4, <2>5 DEF WorkspacesInit, WorkspacesTypeOK
<1>3. \A c \in Children : agent[c] = NobodyYet /\ Own(c) = 0 /\ ~Active(c)
  BY <1>1 DEF NobodyYet, Own, Active
<1>4. LeadWaits
  BY <1>1 DEF LeadWaits, LeadDir, NobodyYet, NoJob
<1>5. NothingLeft
  BY <1>1, <1>3 DEF NothingLeft, Own
<1>6. OwnsApart
  BY <1>3 DEF OwnsApart, IsAt, NobodyYet
<1>7. DirsApart
  <2>1. Delegated = {}
    BY <1>1 DEF Delegated, NoJob
  <2> QED BY <1>3, <2>1 DEF DirsApart
<1>8. OutputsKept
  BY <1>1 DEF OutputsKept, NoJob
<1> QED BY <1>2, <1>4, <1>5, <1>6, <1>7, <1>8 DEF WorkspacesInv

\* The lead's own steps when it waits for nobody.
LEMMA LeadAlonePreserves ==
  ASSUME WorkspacesInv, Message \/ Answer \/ LookAtLock(Lead) \/ AcquireLock(Lead)
  PROVE  WorkspacesInv'
<1>1. WorkspacesTypeOK /\ LeadWaits /\ agent[Lead] \in Workers /\ Lead \in Agents
  BY Delegations0 DEF WorkspacesInv
<1>2. job = NoJob
  BY <1>1 DEF LeadWaits, Message, Answer, LookAtLock, AcquireLock, IsAt
<1>3. exists = {Main} \cup moved /\ LeadDir \in {Main} \cup moved
  BY <1>1, <1>2, LeadAlone DEF LeadWaits
<1>4. \A place \in Places : [agent[Lead] EXCEPT !.at = place] \in Workers
                            /\ [agent[Lead] EXCEPT !.at = place].dir = LeadDir
  BY <1>1 DEF Workers, LeadDir
<1>5. ASSUME NEW place \in Places, Becomes(Lead, place), UNCHANGED <<exists, moved, job>>
      PROVE  Placed' /\ OutputsKept' /\ agent' \in [Agents -> Workers]
  <2>1. PICK w \in Workers : agent' = [agent EXCEPT ![Lead] = w] /\ w.dir = LeadDir
    BY <1>4, <1>5 DEF Becomes
  <2>2. agent' \in [Agents -> Workers] /\ LeadDir' = LeadDir /\ \A c \in Children : agent'[c] = agent[c]
    BY <1>1, <2>1, LeadChanges DEF LeadDir
  <2> QED BY <1>2, <1>3, <1>5, <2>2, LeadStays
<1>6. CASE Message
  <2>1. Placed' /\ OutputsKept' /\ agent' \in [Agents -> Workers]
    BY <1>5, <1>6 DEF Message, dirVars, Places
  <2>2. WorkspacesTypeOK'
    BY <1>1, <1>6, <2>1 DEF WorkspacesTypeOK, Message, dirVars
  <2> QED BY <2>1, <2>2 DEF WorkspacesInv, Placed
<1>7. CASE Answer
  <2>1. Placed' /\ OutputsKept' /\ agent' \in [Agents -> Workers]
    BY <1>5, <1>7 DEF Answer, dirVars, Places
  <2>2. WorkspacesTypeOK'
    BY <1>1, <1>7, <2>1 DEF WorkspacesTypeOK, Answer, dirVars
  <2> QED BY <2>1, <2>2 DEF WorkspacesInv, Placed
<1>8. CASE AcquireLock(Lead)
  <2>1. Placed' /\ OutputsKept' /\ agent' \in [Agents -> Workers]
    BY <1>5, <1>8 DEF AcquireLock, Places
  <2>2. WorkspacesTypeOK'
    BY <1>1, <1>8, <2>1, Delegations0 DEF WorkspacesTypeOK, AcquireLock, LeadDir
  <2> QED BY <2>1, <2>2 DEF WorkspacesInv, Placed
<1>9. CASE LookAtLock(Lead)
  <2>1. UNCHANGED <<job, outputs, foreign, edits, runs, jobs>>
    BY <1>9 DEF LookAtLock
  <2>2. CASE Becomes(Lead, "takes") /\ UNCHANGED <<dirVars, moved>>
    <3>1. Placed' /\ OutputsKept' /\ agent' \in [Agents -> Workers]
      BY <1>5, <2>1, <2>2 DEF dirVars, Places
    <3>2. WorkspacesTypeOK'
      BY <1>1, <2>1, <2>2, <3>1 DEF WorkspacesTypeOK, dirVars
    <3> QED BY <3>1, <3>2 DEF WorkspacesInv, Placed
  <2>3. CASE CannotAdd /\ Becomes(Lead, "works") /\ UNCHANGED moved
    <3>1. Placed' /\ OutputsKept' /\ agent' \in [Agents -> Workers]
      BY <1>5, <2>1, <2>3 DEF CannotAdd, Places
    <3>2. WorkspacesTypeOK'
      BY <1>1, <2>1, <2>3, <3>1 DEF WorkspacesTypeOK, CannotAdd
    <3> QED BY <3>1, <3>2 DEF WorkspacesInv, Placed
  <2>4. ASSUME CanMake, NEW d \in NewDir, AddWorktree(LeadDir, d), moved' = moved \cup {d},
               agent' = [agent EXCEPT ![Lead].at = "works", ![Lead].dir = d]
        PROVE  WorkspacesInv'
    <3>1. d \in Dirs
      BY <2>4, NewIsFresh
    <3> DEFINE w == [agent[Lead] EXCEPT !.at = "works", !.dir = d]
    <3>2. w \in Workers /\ w.dir = d
      BY <1>1, <3>1 DEF Workers, Places
    <3>3. agent' = [agent EXCEPT ![Lead] = w]
      BY <2>4
    <3> HIDE DEF w
    <3>4. agent' \in [Agents -> Workers] /\ LeadDir' = d /\ \A c \in Children : agent'[c] = agent[c]
      BY <1>1, <3>2, <3>3, LeadChanges DEF LeadDir
    <3>5. exists' = exists \cup {d} /\ git' = git \cup {d} /\ tree' = [tree EXCEPT ![d] = Committed]
          /\ locks' = locks /\ cramped' = cramped
      BY <2>4 DEF AddWorktree
    <3>6. Placed' /\ OutputsKept'
      BY <1>2, <1>3, <2>1, <2>4, <3>4, <3>5, LeadStays
    <3>7. tree' \in [Dirs -> [Files -> SUBSET Nat]]
      BY <1>1, <3>5 DEF WorkspacesTypeOK, Committed
    <3>8. WorkspacesTypeOK'
      BY <1>1, <2>1, <2>4, <3>1, <3>4, <3>5, <3>7 DEF WorkspacesTypeOK
    <3> QED BY <3>6, <3>8 DEF WorkspacesInv, Placed
  <2> QED BY <1>9, <2>2, <2>3, <2>4 DEF LookAtLock, LeadDir
<1> QED BY <1>6, <1>7, <1>8, <1>9

LEMMA EditPreserves ==
  ASSUME WorkspacesInv, NEW a \in Agents, Edit(a)
  PROVE  WorkspacesInv'
<1>1. UNCHANGED <<exists, git, locks, cramped, agent, job, outputs, foreign, moved, runs, jobs>> /\ edits' = edits + 1
  BY DEF Edit
<1>2. WorkspacesTypeOK'
  <2>1. WorkspacesTypeOK /\ edits \in Nat
    BY DEF WorkspacesInv, WorkspacesTypeOK
  <2>2. PICK f \in Files : tree' = [tree EXCEPT ![agent[a].dir][f] = tree[agent[a].dir][f] \cup {edits'}]
    BY DEF Edit
  <2>3. agent[a].dir \in Dirs
    BY <2>1, Delegations0 DEF Workers
  <2>4. tree' \in [Dirs -> [Files -> SUBSET Nat]]
    BY <1>1, <2>1, <2>2, <2>3 DEF WorkspacesTypeOK
  <2> QED BY <1>1, <2>1, <2>4 DEF WorkspacesTypeOK
<1>3. (LeadWaits /\ NothingLeft)'
  BY <1>1 DEF WorkspacesInv, LeadWaits, LeadDir, IsAt, NothingLeft
<1>4. (OwnsApart /\ DirsApart)'
  BY <1>1 DEF WorkspacesInv, OwnsApart, DirsApart, Own, Active, IsAt, Delegated, LeadDir
<1>5. OutputsKept'
  BY <1>1, OutputsStay DEF WorkspacesInv, EndedRuns, Delegated
<1> QED BY <1>2, <1>3, <1>4, <1>5 DEF WorkspacesInv

\* A child that goes to another place in its directory.
LEMMA PlaceChanges ==
  ASSUME WorkspacesInv, NEW c \in Children, NEW place \in Places, Becomes(c, place), job' = job, outputs' = outputs,
         Active(c), place \in {"enters", "takes", "works", "ready", "removes"},
         agent[c].at \in {"syncs", "removes"} <=> place = "removes",
         place \in {"takes", "works"} => cramped' \/ ~job.guarded \/ agent[c].dir # LeadDir,
         exists' = exists, moved' = moved, locks \subseteq locks', cramped => cramped', cramped' \in BOOLEAN
  PROVE  Placed' /\ OutputsKept' /\ agent' \in [Agents -> Workers]
<1> DEFINE w == [agent[c] EXCEPT !.at = place]
<1>1. WorkspacesTypeOK /\ OutputsKept /\ agent[c] \in Workers
  BY Delegations0 DEF WorkspacesInv
<1>2. w \in Workers /\ w.at = place /\ w.dir = agent[c].dir /\ w.own = Own(c)
  BY <1>1 DEF Workers, Own
<1>3. agent' = [agent EXCEPT ![c] = w]
  BY DEF Becomes
<1> HIDE DEF w
<1>4. w.at = "removes" => Own(c) # 0
  BY <1>2 DEF WorkspacesInv, OwnsApart, IsAt
<1>5. Placed' /\ EndedRuns' = EndedRuns
  BY <1>1, <1>2, <1>3, <1>4, ChildStays, EndedStay DEF Active
<1>6. OutputsKept'
  BY <1>1, <1>5, OutputsStay
<1>7. agent' \in [Agents -> Workers]
  BY <1>1, <1>2, <1>3, OneChildChanges
<1> QED BY <1>5, <1>6, <1>7

\* A child that gets a directory of its own, or makes one.
LEMMA PlaceIsMade ==
  ASSUME WorkspacesInv, NEW c \in Children, Active(c), agent[c].at \notin {"syncs", "removes"},
         CanMake, NEW d \in NewDir,
         NEW w \in Workers, agent' = [agent EXCEPT ![c] = w], w.dir = d,
         w.at \in {"works", "ready", "enters"},
         \/ w.own = d /\ Own(c) = 0 /\ moved' = moved
         \/ w.own = Own(c) /\ moved' = moved \cup {d},
         job' = job, outputs' = outputs, exists' = exists \cup {d}, locks \subseteq locks', cramped' = cramped
  PROVE  Placed' /\ OutputsKept' /\ agent' \in [Agents -> Workers]
<1>1. WorkspacesTypeOK /\ OutputsKept /\ d \in Dirs /\ d \notin exists
  BY NewIsFresh DEF WorkspacesInv
<1>2. Placed'
  BY <1>1, ChildMoves
<1>3. EndedRuns' = EndedRuns
  BY <1>1, EndedStay DEF Active
<1>4. OutputsKept'
  BY <1>1, <1>3, OutputsStay
<1>5. agent' \in [Agents -> Workers]
  BY <1>1, OneChildChanges
<1> QED BY <1>2, <1>4, <1>5

LEMMA LookPreserves ==
  ASSUME WorkspacesInv, NEW c \in Children, LookAtLock(c)
  PROVE  WorkspacesInv'
<1>1. WorkspacesTypeOK /\ LeadWaits /\ agent[c] \in Workers
  BY Delegations0 DEF WorkspacesInv
<1>2. agent[c].at = "enters" /\ Active(c) /\ UNCHANGED <<job, outputs, foreign, edits, runs, jobs>>
  BY DEF LookAtLock, IsAt, Active
<1>3. CASE agent[c].dir \notin locks /\ Becomes(c, "takes") /\ UNCHANGED <<dirVars, moved>>
  <2>1. ~job.guarded \/ agent[c].dir # LeadDir
    BY <1>1, <1>3 DEF LeadWaits
  <2>2. Placed' /\ OutputsKept' /\ agent' \in [Agents -> Workers]
    BY <1>1, <1>2, <1>3, <2>1, PlaceChanges DEF dirVars, Places, WorkspacesTypeOK
  <2>3. WorkspacesTypeOK'
    BY <1>1, <1>2, <1>3, <2>2 DEF WorkspacesTypeOK, dirVars
  <2> QED BY <2>2, <2>3 DEF WorkspacesInv, Placed
<1>4. CASE CannotAdd /\ Becomes(c, "works") /\ UNCHANGED moved
  <2>1. cramped' = TRUE /\ UNCHANGED <<tree, exists, git, locks>>
    BY <1>4 DEF CannotAdd
  <2>2. Placed' /\ OutputsKept' /\ agent' \in [Agents -> Workers]
    BY <1>1, <1>2, <1>4, <2>1, PlaceChanges DEF Places
  <2>3. WorkspacesTypeOK'
    BY <1>1, <1>2, <1>4, <2>1, <2>2 DEF WorkspacesTypeOK
  <2> QED BY <2>2, <2>3 DEF WorkspacesInv, Placed
<1>5. ASSUME CanMake, NEW d \in NewDir, AddWorktree(agent[c].dir, d), moved' = moved \cup {d},
             agent' = [agent EXCEPT ![c].at = "works", ![c].dir = d]
      PROVE  WorkspacesInv'
  <2>1. d \in Dirs
    BY <1>5, NewIsFresh
  <2> DEFINE w == [agent[c] EXCEPT !.at = "works", !.dir = d]
  <2>2. w \in Workers /\ w.dir = d /\ w.at = "works" /\ w.own = Own(c)
    BY <1>1, <2>1 DEF Workers, Places, Own
  <2>3. agent' = [agent EXCEPT ![c] = w]
    BY <1>5
  <2> HIDE DEF w
  <2>4. exists' = exists \cup {d} /\ git' = git \cup {d} /\ tree' = [tree EXCEPT ![d] = Committed]
        /\ locks' = locks /\ cramped' = cramped
    BY <1>5 DEF AddWorktree
  <2>5. Placed' /\ OutputsKept' /\ agent' \in [Agents -> Workers]
    BY <1>2, <1>5, <2>2, <2>3, <2>4, PlaceIsMade
  <2>6. tree' \in [Dirs -> [Files -> SUBSET Nat]]
    BY <1>1, <2>4 DEF WorkspacesTypeOK, Committed
  <2>7. WorkspacesTypeOK'
    BY <1>1, <1>2, <1>5, <2>1, <2>4, <2>5, <2>6 DEF WorkspacesTypeOK
  <2> QED BY <2>5, <2>7 DEF WorkspacesInv, Placed
<1> QED BY <1>3, <1>4, <1>5 DEF LookAtLock, Held

LEMMA CopyPreserves ==
  ASSUME WorkspacesInv, NEW c \in Children, CopyDir(c)
  PROVE  WorkspacesInv'
<1>1. WorkspacesTypeOK /\ OwnsApart /\ agent[c] \in Workers /\ LeadDir \in Dirs
  BY Delegations0 DEF WorkspacesInv
<1>2. agent[c].at = "copies" /\ Active(c) /\ Own(c) = 0
      /\ UNCHANGED <<job, outputs, foreign, moved, edits, runs, jobs>>
  BY <1>1 DEF CopyDir, IsAt, Active, OwnsApart
<1>3. CASE CannotAdd /\ Becomes(c, "ready")
  <2>1. cramped' = TRUE /\ UNCHANGED <<tree, exists, git, locks>>
    BY <1>3 DEF CannotAdd
  <2>2. Placed' /\ OutputsKept' /\ agent' \in [Agents -> Workers]
    BY <1>1, <1>2, <1>3, <2>1, PlaceChanges DEF Places
  <2>3. WorkspacesTypeOK'
    BY <1>1, <1>2, <2>1, <2>2 DEF WorkspacesTypeOK
  <2> QED BY <2>2, <2>3 DEF WorkspacesInv, Placed
<1>4. ASSUME CanMake, NEW d \in NewDir,
             exists' = exists \cup {d}, tree' = [tree EXCEPT ![d] = tree[LeadDir]],
             git' = IF LeadDir \in git \ {Main} THEN git \cup {d} ELSE git,
             locks' = IF LeadDir \in locks THEN locks \cup {d} ELSE locks,
             agent' = [agent EXCEPT ![c].at = "ready", ![c].dir = d, ![c].own = d],
             cramped' = cramped
      PROVE  WorkspacesInv'
  <2>1. d \in Dirs
    BY <1>4, NewIsFresh
  <2> DEFINE w == [agent[c] EXCEPT !.at = "ready", !.dir = d, !.own = d]
  <2>2. w \in Workers /\ w.dir = d /\ w.at = "ready" /\ w.own = d
    BY <1>1, <2>1 DEF Workers, Places
  <2>3. agent' = [agent EXCEPT ![c] = w]
    BY <1>4
  <2> HIDE DEF w
  <2>4. locks \subseteq locks' /\ locks' \subseteq locks \cup {d} /\ git' \subseteq git \cup {d}
    BY <1>4
  <2>5. Placed' /\ OutputsKept' /\ agent' \in [Agents -> Workers]
    BY <1>2, <1>4, <2>2, <2>3, <2>4, PlaceIsMade
  <2>6. tree' \in [Dirs -> [Files -> SUBSET Nat]]
    BY <1>1, <1>4 DEF WorkspacesTypeOK
  <2>7. exists' \subseteq Dirs /\ git' \subseteq Dirs /\ locks' \subseteq Dirs
    BY <1>1, <1>4, <2>1, <2>4 DEF WorkspacesTypeOK
  <2>8. WorkspacesTypeOK'
    BY <1>1, <1>2, <1>4, <2>5, <2>6, <2>7 DEF WorkspacesTypeOK
  <2> QED BY <2>5, <2>8 DEF WorkspacesInv, Placed
<1> QED BY <1>3, <1>4 DEF CopyDir, LeadDir

LEMMA SlotPreserves ==
  ASSUME WorkspacesInv, NEW c \in Children, TakeSlot(c)
  PROVE  WorkspacesInv'
<1>1. WorkspacesTypeOK /\ OwnsApart /\ agent[c] \in Workers
  BY Delegations0 DEF WorkspacesInv
<1>2. agent[c].at = "queues" /\ Active(c) /\ Own(c) = 0
      /\ UNCHANGED <<job, outputs, foreign, moved, edits, runs, jobs>>
  BY <1>1 DEF TakeSlot, IsAt, Active, OwnsApart
<1>3. CASE CannotAdd /\ Becomes(c, "enters")
  <2>1. cramped' = TRUE /\ UNCHANGED <<tree, exists, git, locks>>
    BY <1>3 DEF CannotAdd
  <2>2. Placed' /\ OutputsKept' /\ agent' \in [Agents -> Workers]
    BY <1>1, <1>2, <1>3, <2>1, PlaceChanges DEF Places
  <2>3. WorkspacesTypeOK'
    BY <1>1, <1>2, <2>1, <2>2 DEF WorkspacesTypeOK
  <2> QED BY <2>2, <2>3 DEF WorkspacesInv, Placed
<1>4. ASSUME CanMake, NEW d \in NewDir, AddWorktree(agent[c].dir, d),
             agent' = [agent EXCEPT ![c].at = "enters", ![c].dir = d, ![c].own = d]
      PROVE  WorkspacesInv'
  <2>1. d \in Dirs
    BY <1>4, NewIsFresh
  <2> DEFINE w == [agent[c] EXCEPT !.at = "enters", !.dir = d, !.own = d]
  <2>2. w \in Workers /\ w.dir = d /\ w.at = "enters" /\ w.own = d
    BY <1>1, <2>1 DEF Workers, Places
  <2>3. agent' = [agent EXCEPT ![c] = w]
    BY <1>4
  <2> HIDE DEF w
  <2>4. exists' = exists \cup {d} /\ git' = git \cup {d} /\ tree' = [tree EXCEPT ![d] = Committed]
        /\ locks' = locks /\ cramped' = cramped
    BY <1>4 DEF AddWorktree
  <2>5. Placed' /\ OutputsKept' /\ agent' \in [Agents -> Workers]
    BY <1>2, <1>4, <2>2, <2>3, <2>4, PlaceIsMade
  <2>6. tree' \in [Dirs -> [Files -> SUBSET Nat]]
    BY <1>1, <2>4 DEF WorkspacesTypeOK, Committed
  <2>7. WorkspacesTypeOK'
    BY <1>1, <1>2, <2>1, <2>4, <2>5, <2>6 DEF WorkspacesTypeOK
  <2> QED BY <2>5, <2>7 DEF WorkspacesInv, Placed
<1> QED BY <1>3, <1>4 DEF TakeSlot

LEMMA SyncPreserves ==
  ASSUME WorkspacesInv, NEW c \in Children, SyncFile(c)
  PROVE  WorkspacesInv'
<1>1. WorkspacesTypeOK /\ OwnsApart /\ OutputsKept /\ agent[c] \in Workers /\ LeadDir \in Dirs
  BY Delegations0 DEF WorkspacesInv
<1>2. agent[c].at = "syncs" /\ Active(c) /\ Own(c) \in Dirs
      /\ UNCHANGED <<job, outputs, foreign, moved, edits, runs, jobs>>
  BY <1>1 DEF SyncFile, IsAt, Active, OwnsApart, Own, Workers
<1>3. CASE Becomes(c, "removes") /\ UNCHANGED dirVars
  <2>1. Placed' /\ OutputsKept' /\ agent' \in [Agents -> Workers]
    BY <1>1, <1>2, <1>3, PlaceChanges DEF dirVars, Places, WorkspacesTypeOK
  <2>2. WorkspacesTypeOK'
    BY <1>1, <1>2, <1>3, <2>1 DEF WorkspacesTypeOK, dirVars
  <2> QED BY <2>1, <2>2 DEF WorkspacesInv, Placed
<1>4. ASSUME NEW f \in agent[c].todo, Copy(c, f)
      PROVE  WorkspacesInv'
  <2> DEFINE w == [agent[c] EXCEPT !.todo = agent[c].todo \ {f}]
  <2>1. w \in Workers /\ w.dir = agent[c].dir /\ w.own = Own(c) /\ w.at = "syncs"
    BY <1>1, <1>2 DEF Workers, Own
  <2>2. agent' = [agent EXCEPT ![c] = w] /\ UNCHANGED <<exists, git, cramped>>
    BY <1>4 DEF Copy
  <2> HIDE DEF w
  <2>0. locks \subseteq locks' /\ locks' \subseteq Dirs
    BY <1>1, <1>4 DEF Copy, WithLocksOf, WorkspacesTypeOK, LeadDir
  <2>3. Own(c) # 0
    BY <1>1, <1>2 DEF OwnsApart, IsAt
  <2>4. Placed'
    BY <1>1, <1>2, <2>0, <2>1, <2>2, <2>3, ChildStays DEF WorkspacesTypeOK
  <2>5. EndedRuns' = EndedRuns /\ agent' \in [Agents -> Workers]
    BY <1>1, <1>2, <2>1, <2>2, EndedStay, OneChildChanges
  <2>6. OutputsKept'
    BY <1>1, <1>2, <2>5, OutputsStay
  <2>7. tree' \in [Dirs -> [Files -> SUBSET Nat]]
    <3>1. CASE f # LockFile
      <4>1. tree' = [tree EXCEPT ![LeadDir][f] = tree[Own(c)][f]] /\ f \in Files
        BY <1>1, <1>4, <3>1 DEF Copy, LeadDir, Own, Workers
      <4> QED BY <1>1, <1>2, <4>1 DEF WorkspacesTypeOK
    <3>2. CASE f = LockFile
      BY <1>1, <1>4, <3>2 DEF Copy, WorkspacesTypeOK
    <3> QED BY <3>1, <3>2
  <2>8. WorkspacesTypeOK'
    BY <1>1, <1>2, <2>0, <2>2, <2>5, <2>7 DEF WorkspacesTypeOK
  <2> QED BY <2>4, <2>6, <2>8 DEF WorkspacesInv, Placed
<1> QED BY <1>3, <1>4 DEF SyncFile

LEMMA DeletePreserves ==
  ASSUME WorkspacesInv, NEW c \in Children, Delete(c)
  PROVE  WorkspacesInv'
<1>1. WorkspacesTypeOK /\ OutputsKept /\ agent[c] \in Workers
  BY Delegations0 DEF WorkspacesInv
<1> DEFINE w == [agent[c] EXCEPT !.at = "done", !.own = 0]
<1>2. w \in Workers /\ w.at = "done"
  BY <1>1 DEF Workers, Places
<1>3. agent' = [agent EXCEPT ![c] = w] /\ agent[c].at = "removes"
      /\ UNCHANGED <<tree, cramped, job, outputs, foreign, moved, edits, runs, jobs>>
  BY DEF Delete, IsAt
<1> HIDE DEF w
<1>4. EndedRuns' = EndedRuns /\ agent' \in [Agents -> Workers]
  BY <1>1, <1>2, <1>3, EndedStay, OneChildChanges
<1>5. OutputsKept'
  BY <1>1, <1>3, <1>4, OutputsStay
<1>6. exists' \subseteq exists /\ locks' \subseteq locks /\ git' \subseteq git
  BY DEF Delete
<1>7. WorkspacesTypeOK'
  BY <1>1, <1>3, <1>4, <1>6 DEF WorkspacesTypeOK
<1> QED BY <1>5, <1>7, ChildLeaves DEF WorkspacesInv, Placed

\* A child that starts, and one that takes the lock: not in the lead's
\* directory if that is locked.
LEMMA StartPreserves ==
  ASSUME WorkspacesInv, NEW c \in Children, StartChild(c) \/ AcquireLock(c)
  PROVE  WorkspacesInv'
<1>1. WorkspacesTypeOK /\ DirsApart /\ agent[c] \in Workers
  BY Delegations0 DEF WorkspacesInv
<1>2. Active(c) /\ agent[c].at \in {"ready", "takes"} /\ UNCHANGED <<job, outputs, foreign, moved, edits, runs, jobs>>
  BY DEF StartChild, AcquireLock, IsAt, Active
<1>3. CASE StartChild(c)
  <2>1. Placed' /\ OutputsKept' /\ agent' \in [Agents -> Workers]
    BY <1>1, <1>2, <1>3, PlaceChanges DEF StartChild, dirVars, Places, WorkspacesTypeOK
  <2>2. WorkspacesTypeOK'
    BY <1>1, <1>2, <1>3, <2>1 DEF WorkspacesTypeOK, StartChild, dirVars
  <2> QED BY <2>1, <2>2 DEF WorkspacesInv, Placed
<1>4. CASE AcquireLock(c)
  <2>1. c \in Delegated
    BY <1>2, ActiveIsDelegated
  <2>2. cramped \/ ~job.guarded \/ agent[c].dir # LeadDir
    BY <1>1, <1>4, <2>1 DEF DirsApart, AcquireLock
  <2>3. locks' = locks \cup {agent[c].dir} /\ Becomes(c, "works") /\ UNCHANGED <<tree, exists, git, cramped>>
    BY <1>4 DEF AcquireLock
  <2>4. Placed' /\ OutputsKept' /\ agent' \in [Agents -> Workers]
    BY <1>1, <1>2, <2>2, <2>3, PlaceChanges DEF Places, WorkspacesTypeOK
  <2>5. WorkspacesTypeOK'
    BY <1>1, <1>2, <2>3, <2>4 DEF WorkspacesTypeOK, Workers
  <2> QED BY <2>4, <2>5 DEF WorkspacesInv, Placed
<1> QED BY <1>3, <1>4

LEMMA NextPreserves ==
  ASSUME WorkspacesInv, [WorkspacesNext]_workspaceVars
  PROVE  WorkspacesInv'
<1>1. CASE Message \/ Answer \/ LookAtLock(Lead) \/ AcquireLock(Lead)
  BY <1>1, LeadAlonePreserves
<1>2. CASE RunChild
  BY <1>2, WorkspacesAssumption, JobBegins DEF RunChild, WorkspacesInv, Placed, Children
<1>3. CASE RunChildrenParallel
  BY <1>3, JobBegins DEF RunChildrenParallel, WorkspacesInv, Placed
<1>4. CASE RunPlanners
  BY <1>4, JobBegins DEF RunPlanners, WorkspacesInv, Placed
<1>5. CASE RunParallelPhase
  BY <1>5, JobBegins DEF RunParallelPhase, WorkspacesInv, Placed
<1>6. CASE CrossReview
  BY <1>6, ReviewsBegin DEF WorkspacesInv, Placed
<1>7. CASE EndJob
  BY <1>7, JobEnds DEF WorkspacesInv, Placed
<1>8. ASSUME NEW c \in Children, ChildStep(c)
      PROVE  WorkspacesInv'
  <2>1. CASE EndChild(c)
    BY <2>1, ChildEndsWell DEF WorkspacesInv, Placed
  <2> QED BY <1>8, <2>1, LookPreserves, StartPreserves, CopyPreserves, SlotPreserves, SyncPreserves, DeletePreserves
          DEF ChildStep
<1>9. ASSUME NEW a \in Agents, Edit(a)
      PROVE  WorkspacesInv'
  BY <1>9, EditPreserves
<1>10. CASE UNCHANGED workspaceVars
  <2>1. UNCHANGED <<tree, exists, git, locks, cramped, agent, job, outputs, foreign, moved, edits, runs, jobs>>
    BY <1>10 DEF workspaceVars, dirVars
  <2>2. WorkspacesTypeOK'
    BY <2>1 DEF WorkspacesInv, WorkspacesTypeOK
  <2>3. (LeadWaits /\ NothingLeft)'
    BY <2>1 DEF WorkspacesInv, LeadWaits, LeadDir, IsAt, NothingLeft
  <2>4. (OwnsApart /\ DirsApart)'
    BY <2>1 DEF WorkspacesInv, OwnsApart, DirsApart, Own, Active, IsAt, Delegated, LeadDir
  <2>5. OutputsKept'
    BY <2>1, OutputsStay DEF WorkspacesInv, EndedRuns, Delegated
  <2> QED BY <2>2, <2>3, <2>4, <2>5 DEF WorkspacesInv
<1> QED BY <1>1, <1>2, <1>3, <1>4, <1>5, <1>6, <1>7, <1>8, <1>9, <1>10 DEF WorkspacesNext, LeadStep

LEMMA WorkspacesInvariant == WorkspacesSpec => []WorkspacesInv
<1>1. WorkspacesInit => WorkspacesInv
  BY InitHolds
<1>2. WorkspacesInv /\ [WorkspacesNext]_workspaceVars => WorkspacesInv'
  BY NextPreserves
<1> QED BY <1>1, <1>2, PTL DEF WorkspacesSpec

(* -------------------------------- results ------------------------------ *)

\* The directories, the agents and the delegation are what their types say:
\* every agent works in a directory, and the outputs are those of children.
THEOREM WorkspacesTypeCorrect == WorkspacesSpec => []WorkspacesTypeOK
<1>1. WorkspacesInv => WorkspacesTypeOK
  BY DEF WorkspacesInv
<1> QED BY <1>1, WorkspacesInvariant, PTL

\* What RunChildrenParallel and runParallelPhase made for children is gone
\* when they return, however many children there were and whichever worktrees
\* could not be made; only the worktrees stay that a Run moved an agent to.
THEOREM NothingIsLeft == WorkspacesSpec => []NothingLeft
<1>1. WorkspacesInv => NothingLeft
  BY DEF WorkspacesInv
<1> QED BY <1>1, WorkspacesInvariant, PTL

LEMMA WritersAreApart ==
  ASSUME WorkspacesInv
  PROVE  OneWriter
<1>1. Delegated \subseteq Children /\ DirsApart
  BY Delegations0 DEF WorkspacesInv
<1> SUFFICES ASSUME ~cramped, job.guarded, NEW c \in Delegated, NEW d \in Delegated,
                    c # d, IsAt(c, "works"), IsAt(d, "works"), agent[c].dir = agent[d].dir
             PROVE  FALSE
  BY DEF OneWriter
<1>2. Active(c) /\ Active(d)
  BY DEF Active, IsAt
<1>3. agent[c].dir = LeadDir
  BY <1>1, <1>2 DEF DirsApart
<1>4. agent[c].dir # LeadDir
  BY <1>1 DEF DirsApart
<1> QED BY <1>3, <1>4

\* Each output has one place, so that a section that stops at the next
\* heading has nothing of the child whose heading that is.
LEMMA ReviewsAreOfOthers ==
  ASSUME WorkspacesInv
  PROVE  OthersReviewed
<1> SUFFICES ASSUME job.stage = "review", NEW c \in Delegated
             PROVE  Target(c) \in Given(c) /\ (c > 1 => c \notin Given(c))
  BY DEF OthersReviewed
<1> DEFINE n == job.n
<1>1. n \in Nat /\ c \in 1..n /\ Target(c) \in 1..n
  BY Delegations0, WorkspacesAssumption DEF WorkspacesInv, Delegated, Target
<1>2. job # NoJob
  BY DEF NoJob
<1>3. /\ outputs \in Seq(1..n) /\ Len(outputs) = n /\ DOMAIN outputs = 1..n
      /\ {outputs[i] : i \in 1..n} = 1..n
      /\ \A i, j \in 1..n : outputs[i] = outputs[j] => i = j
  <2>1. OutputsKept
    BY DEF WorkspacesInv
  <2>2. /\ outputs \in Seq(1..n) /\ Len(outputs) = n
        /\ {outputs[i] : i \in DOMAIN outputs} = 1..n
        /\ \A i, j \in DOMAIN outputs : outputs[i] = outputs[j] => i = j
    BY <1>2, <2>1 DEF OutputsKept, Delegated
  <2>3. DOMAIN outputs = 1..n
    BY <2>2
  <2> QED BY <2>2, <2>3
<1>4. ASSUME NEW b \in 1..n
      PROVE  Place(b) \in 1..n /\ outputs[Place(b)] = b /\ \A i \in 1..n : outputs[i] = b => i = Place(b)
  <2>1. \E i \in DOMAIN outputs : outputs[i] = b
    BY <1>3
  <2>2. Place(b) \in 1..n /\ outputs[Place(b)] = b
    BY <1>3, <2>1 DEF Place
  <2> QED BY <1>3, <2>2
<1> DEFINE t == Target(c)
           last == IF t < n /\ Place(t + 1) > Place(t) THEN Place(t + 1) - 1 ELSE n
<1>5. Given(c) = {outputs[i] : i \in Place(t)..last}
  BY DEF Given, Section
<1>6. t \in Given(c)
  <2>1. last \in Int /\ Place(t) <= last
    BY <1>1, <1>4
  <2>2. Place(t) \in Place(t)..last /\ outputs[Place(t)] = t
    BY <1>1, <1>4, <2>1
  <2> QED BY <1>5, <2>2
<1>7. ASSUME c > 1
      PROVE  c \notin Given(c)
  <2>1. t = c - 1 /\ t < n /\ t + 1 = c
    BY <1>1, <1>7 DEF Target
  <2>2. Place(c) \notin Place(t)..last
    <3>1. Place(c) \in 1..n /\ Place(t) \in 1..n /\ Place(c) # Place(t)
      BY <1>1, <1>4, <2>1
    <3>2. CASE Place(c) > Place(t)
      BY <2>1, <3>1, <3>2
    <3>3. CASE Place(c) < Place(t)
      BY <3>1, <3>3
    <3> QED BY <3>1, <3>2, <3>3
  <2>3. last \in Int /\ last <= n /\ Place(t) \in 1..n
    BY <1>1, <1>4
  <2>4. \A i \in Place(t)..last : i \in 1..n /\ i # Place(c)
    BY <1>1, <2>2, <2>3
  <2>5. \A i \in Place(t)..last : outputs[i] # c
    BY <1>1, <1>4, <2>4
  <2> QED BY <1>5, <2>5
<1> QED BY <1>6, <1>7

\* Children that work at a time work in different directories as long as the
\* lead's was locked when it delegated and worktrees could be made; and a
\* reviewer is given its target's output, and but for the first nothing of its
\* own, in whatever order the children of the phase ended.
THEOREM ChildrenStayApart == WorkspacesSpec => []ChildrenApart
<1>1. WorkspacesInv => ChildrenApart
  BY WritersAreApart, ReviewsAreOfOthers DEF ChildrenApart
<1> QED BY <1>1, WorkspacesInvariant, PTL

(* ----------------------- tasks in the background ----------------------- *)

RowType == [status : {"none", "pending", "running", "completed", "failed"}, pid : {"none", "parent", "child"}]
ChildType == [at : {"none", "begins", "works", "ended"}, message : Tasks \cup {NoTask}]
Directory == [there : BOOLEAN, branch : BOOLEAN, message : Tasks \cup {NoTask}, done : BOOLEAN]
Listing == [at : {"idle", "reads", "marks"}, rows : SUBSET Tasks, task : Tasks \cup {NoTask}, found : {"none", "completed", "failed"}]

BackgroundTypeOK ==
    /\ taskRow \in [Tasks -> RowType]
    /\ parent \in [Tasks -> {"new", "created", "running", "written", "started", "ended"}]
    /\ child \in [Tasks -> ChildType]
    /\ files \in [TaskDirs -> Directory]
    /\ lister \in [Listers -> Listing]
    /\ \A l \in Listers : lister[l].at = "marks" => lister[l].task \in Tasks /\ lister[l].found # "none"
    /\ chatSession \in {"none", "runs", "ended"}

\* From the call that makes a task on its worktree stands; from the message on
\* it holds that message, and only a parent that wrote it starts the child.
TreesStand ==
    \A t \in Tasks :
        /\ parent[t] # "new" => files[t].there /\ files[t].branch
        /\ parent[t] \in {"written", "started"} => files[t].message = t
        /\ child[t].at # "none" => parent[t] \in {"started", "ended"} /\ files[t].message = t
        /\ ChildAt(t, "works") => child[t].message = t

\* Only a child that has ended leaves the marker, and none begins again.
DoneIsTrue ==
    /\ \A t \in Tasks : files[t].done \/ taskRow[t].status = "completed" => ChildAt(t, "ended")
    /\ \A l \in Listers : lister[l].at = "marks" /\ lister[l].found = "completed" => ChildAt(lister[l].task, "ended")

BackgroundInv == BackgroundTypeOK /\ (InRepo => TreesStand /\ DoneIsTrue)

LEMMA DirsOfTasks ==
    /\ \A t \in Tasks : DirOf(t) \in TaskDirs /\ (InRepo => DirOf(t) = t)
    /\ \A t \in Tasks : t \in TaskDirs /\ t # Session
    /\ Session \in TaskDirs
BY BackgroundAssumption DEF DirOf, TaskDirs, Shared

LEMMA BackgroundBegins == BackgroundInit => BackgroundInv
<1> SUFFICES ASSUME BackgroundInit PROVE BackgroundInv
  OBVIOUS
<1>1. /\ taskRow \in [Tasks -> RowType] /\ child \in [Tasks -> ChildType]
      /\ parent \in [Tasks -> {"new", "created", "running", "written", "started", "ended"}]
      /\ chatSession \in {"none", "runs", "ended"}
  BY DEF BackgroundInit, RowType, ChildType
<1>2. files \in [TaskDirs -> Directory]
  BY DEF BackgroundInit, Directory
<1>3. lister \in [Listers -> Listing] /\ \A l \in Listers : lister[l].at = "idle"
  BY DEF BackgroundInit, Listing
<1>4. TreesStand /\ DoneIsTrue
  BY <1>3, DirsOfTasks DEF BackgroundInit, TreesStand, DoneIsTrue, ChildAt
<1> QED BY <1>1, <1>2, <1>3, <1>4 DEF BackgroundInv, BackgroundTypeOK

LEMMA DirectorySet ==
  ASSUME NEW f \in [TaskDirs -> Directory], NEW d \in TaskDirs
  PROVE  /\ \A m \in Tasks \cup {NoTask} : [f EXCEPT ![d].message = m] \in [TaskDirs -> Directory]
         /\ [f EXCEPT ![d].done = TRUE] \in [TaskDirs -> Directory]
         /\ \A a, b \in BOOLEAN : [f EXCEPT ![d].there = a, ![d].branch = b] \in [TaskDirs -> Directory]
<1>1. f[d] \in Directory
  OBVIOUS
<1>2. \A m \in Tasks \cup {NoTask} : [f[d] EXCEPT !.message = m] \in Directory
  BY <1>1 DEF Directory
<1>3. [f[d] EXCEPT !.done = TRUE] \in Directory
  BY <1>1 DEF Directory
<1>4. \A a, b \in BOOLEAN : [f[d] EXCEPT !.there = a, !.branch = b] \in Directory
  BY <1>1 DEF Directory
<1> QED BY <1>2, <1>3, <1>4

LEMMA ParentsKeep ==
  ASSUME BackgroundInv, NEW t \in Tasks,
         CreateTask(t) \/ MarkRunning(t) \/ WriteMessage(t) \/ SpawnChild(t) \/ SetPID(t) \/ ParentDies(t)
  PROVE  BackgroundInv'
<1>1. DirOf(t) \in TaskDirs /\ t \in TaskDirs /\ (InRepo => DirOf(t) = t)
  BY DirsOfTasks
<1>2. /\ taskRow' \in [Tasks -> RowType]
      /\ \A u \in Tasks : taskRow'[u].status = "completed" => taskRow[u].status = "completed"
  BY DEF BackgroundInv, BackgroundTypeOK, RowType, CreateTask, MarkRunning, WriteMessage, SpawnChild, SetPID, ParentDies,
         Fails, TaskRow, Marked
<1>3. PICK at \in {"created", "running", "written", "started", "ended"} : parent' = [parent EXCEPT ![t] = at]
  BY DEF CreateTask, MarkRunning, WriteMessage, SpawnChild, SetPID, ParentDies, Fails, Then
<1>f. files' \in {files, [files EXCEPT ![t].there = TRUE, ![t].branch = TRUE], [files EXCEPT ![DirOf(t)].message = t]}
  BY DEF CreateTask, MarkRunning, WriteMessage, SpawnChild, SetPID, ParentDies, Fails, Tree
<1>c. child' \in {child, [child EXCEPT ![t].at = "begins"]}
  BY DEF CreateTask, MarkRunning, WriteMessage, SpawnChild, SetPID, ParentDies, Fails
<1>4. /\ files' \in [TaskDirs -> Directory]
      /\ \A d \in TaskDirs : files'[d].done = files[d].done
  <2>1. files \in [TaskDirs -> Directory] /\ t \in Tasks \cup {NoTask}
    BY DEF BackgroundInv, BackgroundTypeOK
  <2>m. [files EXCEPT ![DirOf(t)].message = t] \in [TaskDirs -> Directory]
    BY <1>1, <2>1, DirectorySet
  <2>b. [files EXCEPT ![t].there = TRUE, ![t].branch = TRUE] \in [TaskDirs -> Directory]
    <3>1. \A a, b \in BOOLEAN : [files EXCEPT ![t].there = a, ![t].branch = b] \in [TaskDirs -> Directory]
      BY <1>1, <2>1, DirectorySet
    <3>2. TRUE \in BOOLEAN
      OBVIOUS
    <3> QED BY <3>1, <3>2
  <2>2. files' \in [TaskDirs -> Directory]
    BY <1>f, <2>1, <2>m, <2>b
  <2>3. \A d \in TaskDirs : files'[d].done = files[d].done
    BY <1>1, <1>f, <2>1 DEF Directory
  <2> QED BY <2>2, <2>3
<1>5. /\ child' \in [Tasks -> ChildType]
      /\ \A u \in Tasks : child'[u].message = child[u].message /\ (child'[u].at = child[u].at \/ (u = t /\ child'[u].at = "begins"))
      /\ child'[t].at # child[t].at => parent[t] = "written" /\ parent'[t] = "started"
  <2>1. child \in [Tasks -> ChildType] /\ parent \in [Tasks -> {"new", "created", "running", "written", "started", "ended"}]
    BY DEF BackgroundInv, BackgroundTypeOK
  <2>2. child' = child \/ (SpawnChild(t) /\ parent' = [parent EXCEPT ![t] = "started"])
    BY DEF CreateTask, MarkRunning, WriteMessage, SpawnChild, SetPID, ParentDies, Fails, Then
  <2>3. CASE child' = child
    BY <2>1, <2>3
  <2>4. CASE child' # child
    <3>1. child' = [child EXCEPT ![t].at = "begins"]
      BY <1>c, <2>4
    <3>2. child[t] \in ChildType
      BY <2>1
    <3>3. [child[t] EXCEPT !.at = "begins"] \in ChildType
      BY <3>2 DEF ChildType
    <3>4. child' \in [Tasks -> ChildType] /\ \A u \in Tasks \ {t} : child'[u] = child[u]
      BY <2>1, <3>1, <3>3
    <3>5. child'[t].at = "begins" /\ child'[t].message = child[t].message
      BY <2>1, <3>1, <3>2 DEF ChildType
    <3>6. parent[t] = "written" /\ parent'[t] = "started"
      BY <2>1, <2>2, <2>4 DEF SpawnChild, ParentAt
    <3> QED BY <3>4, <3>5, <3>6
  <2> QED BY <2>3, <2>4
<1>6. UNCHANGED <<lister, chatSession>>
  BY DEF CreateTask, MarkRunning, WriteMessage, SpawnChild, SetPID, ParentDies
<1>7. ASSUME InRepo PROVE TreesStand'
  <2>1. \A u \in Tasks \ {t} : files'[u] = files[u] /\ parent'[u] = parent[u] /\ child'[u] = child[u]
    <3>1. ASSUME NEW u \in Tasks \ {t} PROVE files'[u] = files[u]
      <4>1. u \in TaskDirs /\ u # t /\ DirOf(t) = t /\ files \in [TaskDirs -> Directory]
        BY <1>1, <1>7, DirsOfTasks DEF BackgroundInv, BackgroundTypeOK
      <4> QED BY <1>f, <4>1
    <3>2. \A u \in Tasks \ {t} : parent'[u] = parent[u]
      BY <1>3 DEF BackgroundInv, BackgroundTypeOK
    <3>3. \A u \in Tasks \ {t} : child'[u] = child[u]
      BY <1>c DEF BackgroundInv, BackgroundTypeOK
    <3> QED BY <3>1, <3>2, <3>3
  <2>2. \/ parent[t] = "new" /\ files'[t].message = files[t].message /\ files'[t].there /\ files'[t].branch
        \/ parent[t] = "running" /\ files'[t].message = t /\ files'[t].there = files[t].there /\ files'[t].branch = files[t].branch
        \/ parent[t] # "new" /\ files'[t] = files[t]
    BY <1>1, <1>7 DEF BackgroundInv, BackgroundTypeOK, Directory, CreateTask, MarkRunning, WriteMessage, SpawnChild, SetPID, ParentDies,
           Fails, Tree, ParentAt
  <2>3. \/ at \notin {"written", "started"}
        \/ at = "written" /\ files'[t].message = t
        \/ at = "started" /\ parent[t] = "written" /\ files' = files
    BY <1>1, <1>3, <1>7 DEF BackgroundInv, BackgroundTypeOK, Directory, CreateTask, MarkRunning, WriteMessage, SpawnChild, SetPID,
           ParentDies, Fails, Then, ParentAt
  <2>4. child[t].at # "none" => at = "ended"
    BY <1>3, <1>7 DEF BackgroundInv, BackgroundTypeOK, TreesStand, CreateTask, MarkRunning, WriteMessage, SpawnChild, SetPID,
           ParentDies, Fails, Then, ParentAt
  <2>5. parent'[t] = at
    BY <1>3 DEF BackgroundInv, BackgroundTypeOK
  <2> QED BY <1>5, <1>7, <2>1, <2>2, <2>3, <2>4, <2>5 DEF BackgroundInv, TreesStand, ChildAt
<1>8. ASSUME InRepo PROVE DoneIsTrue'
  <2>1. \A u \in Tasks : child[u].at = "ended" => child'[u].at = "ended"
    BY <1>5, <1>8 DEF BackgroundInv, TreesStand
  <2> QED BY <1>2, <1>4, <1>6, <1>8, <2>1, DirsOfTasks DEF BackgroundInv, BackgroundTypeOK, DoneIsTrue, ChildAt
<1>9. parent' \in [Tasks -> {"new", "created", "running", "written", "started", "ended"}]
  BY <1>3 DEF BackgroundInv, BackgroundTypeOK
<1> QED BY <1>2, <1>4, <1>5, <1>6, <1>7, <1>8, <1>9 DEF BackgroundInv, BackgroundTypeOK

LEMMA ChildrenKeep ==
  ASSUME BackgroundInv, NEW t \in Tasks, ChildReads(t) \/ ChildEnds(t)
  PROVE  BackgroundInv'
<1>1. /\ DirOf(t) \in TaskDirs /\ (InRepo => DirOf(t) = t)
      /\ \A u \in Tasks : u \in TaskDirs
  BY DirsOfTasks
<1>2. UNCHANGED <<taskRow, parent, lister, chatSession>>
  BY DEF ChildReads, ChildEnds
<1>3. CASE ChildReads(t)
  <2>1. files[DirOf(t)].message \in Tasks \cup {NoTask}
    BY <1>1 DEF BackgroundInv, BackgroundTypeOK, Directory
  <2>2. /\ child' \in [Tasks -> ChildType]
        /\ \A u \in Tasks \ {t} : child'[u] = child[u]
        /\ child'[t].at = "works" /\ child'[t].message = files[DirOf(t)].message /\ child[t].at = "begins"
    BY <1>3, <2>1 DEF ChildReads, BackgroundInv, BackgroundTypeOK, ChildType, ChildAt
  <2>3. files' = files
    BY <1>3 DEF ChildReads
  <2>4. ASSUME InRepo PROVE TreesStand' /\ DoneIsTrue'
    BY <1>1, <1>2, <2>2, <2>3, <2>4 DEF BackgroundInv, BackgroundTypeOK, TreesStand, DoneIsTrue, ChildAt
  <2> QED BY <1>2, <2>2, <2>3, <2>4 DEF BackgroundInv, BackgroundTypeOK
<1>4. CASE ChildEnds(t)
  <2>1. files' \in [TaskDirs -> Directory]
    BY <1>1, <1>4, DirectorySet DEF ChildEnds, BackgroundInv, BackgroundTypeOK
  <2>2. \A d \in TaskDirs : /\ files'[d].there = files[d].there /\ files'[d].branch = files[d].branch
                            /\ files'[d].message = files[d].message
                            /\ files'[d].done => files[d].done \/ d = DirOf(t)
    BY <1>1, <1>4 DEF ChildEnds, BackgroundInv, BackgroundTypeOK, Directory
  <2>3. /\ child' \in [Tasks -> ChildType]
        /\ \A u \in Tasks \ {t} : child'[u] = child[u]
        /\ child'[t].at = "ended" /\ child'[t].message = child[t].message /\ child[t].at # "none"
    BY <1>4 DEF ChildEnds, BackgroundInv, BackgroundTypeOK, ChildType
  <2>4. ASSUME InRepo PROVE TreesStand' /\ DoneIsTrue'
    BY <1>1, <1>2, <2>2, <2>3, <2>4 DEF BackgroundInv, BackgroundTypeOK, TreesStand, DoneIsTrue, ChildAt
  <2> QED BY <1>2, <2>1, <2>3, <2>4 DEF BackgroundInv, BackgroundTypeOK
<1> QED BY <1>3, <1>4

LEMMA ListersKeep ==
  ASSUME BackgroundInv, NEW l \in Listers, GetTasks(l) \/ CheckTask(l) \/ MarkTask(l) \/ ListingEnds(l)
  PROVE  BackgroundInv'
<1> lister[l] \in Listing
  BY DEF BackgroundInv, BackgroundTypeOK
\* What a lister has found stays true of the one task it looks at.
<1>0. ASSUME NEW looks \in Listing, lister' = [lister EXCEPT ![l] = looks],
             looks.at = "marks" => /\ looks.task \in Tasks /\ looks.found # "none"
                                  /\ (InRepo /\ looks.found = "completed" => ChildAt(looks.task, "ended")),
             UNCHANGED <<taskRow, parent, child, files, chatSession>>
      PROVE  BackgroundInv'
  <2>1. /\ lister' \in [Listers -> Listing] /\ lister'[l] = looks
        /\ \A k \in Listers : k # l => lister'[k] = lister[k]
    BY <1>0 DEF BackgroundInv, BackgroundTypeOK
  <2>2. BackgroundTypeOK'
    BY <1>0, <2>1 DEF BackgroundInv, BackgroundTypeOK
  <2>3. ASSUME InRepo PROVE TreesStand' /\ DoneIsTrue'
    BY <1>0, <2>1, <2>3 DEF BackgroundInv, TreesStand, DoneIsTrue, ChildAt
  <2> QED BY <2>2, <2>3 DEF BackgroundInv
<1>1. CASE GetTasks(l)
  <2> DEFINE looks == [at |-> "reads", rows |-> {t \in Tasks : taskRow[t].status = "running"}, task |-> NoTask, found |-> "none"]
  <2>1. looks \in Listing /\ looks.at = "reads"
    BY DEF Listing
  <2> QED BY <1>0, <1>1, <2>1 DEF GetTasks
<1>2. CASE CheckTask(l)
  <2> DEFINE marks(t) == [at |-> "marks", rows |-> lister[l].rows \ {t}, task |-> t, found |-> FoundDone(t)]
  <2>1. PICK t \in lister[l].rows : lister' = [lister EXCEPT ![l] = marks(t)]
    BY <1>2 DEF CheckTask
  <2> DEFINE looks == marks(t)
  <2>3. t \in Tasks
    BY DEF Listing
  <2>4. FoundDone(t) \in {"completed", "failed"} /\ (InRepo /\ FoundDone(t) = "completed" => ChildAt(t, "ended"))
    BY <2>3, DirsOfTasks DEF FoundDone, BackgroundInv, DoneIsTrue
  <2>5. looks \in Listing /\ looks.task = t /\ looks.found = FoundDone(t)
    BY <2>3, <2>4 DEF Listing
  <2>6. lister' = [lister EXCEPT ![l] = looks]
    BY <2>1
  <2> HIDE DEF looks
  <2> QED BY <1>0, <1>2, <2>3, <2>4, <2>5, <2>6 DEF CheckTask
<1>3. CASE MarkTask(l)
  <2>1. PICK t \in Tasks : t = lister[l].task /\ lister[l].found \in {"completed", "failed"}
    BY <1>3 DEF MarkTask, Listing, BackgroundInv, BackgroundTypeOK
  <2>2. /\ taskRow' \in [Tasks -> RowType]
        /\ \A u \in Tasks : taskRow'[u].status = "completed" => taskRow[u].status = "completed" \/ (u = t /\ lister[l].found = "completed")
    BY <1>3, <2>1 DEF MarkTask, TaskRow, Marked, BackgroundInv, BackgroundTypeOK, RowType
  <2>3. /\ lister' \in [Listers -> Listing] /\ lister'[l].at = "reads"
        /\ \A k \in Listers : k # l => lister'[k] = lister[k]
    BY <1>3 DEF MarkTask, Listing, BackgroundInv, BackgroundTypeOK
  <2>4. UNCHANGED <<parent, child, files, chatSession>>
    BY <1>3 DEF MarkTask
  <2>5. InRepo /\ lister[l].found = "completed" => ChildAt(t, "ended")
    BY <1>3, <2>1 DEF MarkTask, BackgroundInv, DoneIsTrue
  <2>6. BackgroundTypeOK'
    BY <2>2, <2>3, <2>4 DEF BackgroundInv, BackgroundTypeOK
  <2>7. ASSUME InRepo PROVE TreesStand' /\ DoneIsTrue'
    BY <2>2, <2>3, <2>4, <2>5, <2>7 DEF BackgroundInv, TreesStand, DoneIsTrue, ChildAt
  <2> QED BY <2>6, <2>7 DEF BackgroundInv
<1>4. CASE ListingEnds(l)
  <2> DEFINE looks == [lister[l] EXCEPT !.at = "idle", !.task = NoTask]
  <2>2. looks \in Listing /\ looks.at = "idle"
    BY DEF Listing
  <2>3. lister' = [lister EXCEPT ![l] = looks]
    BY <1>4 DEF ListingEnds
  <2> HIDE DEF looks
  <2> QED BY <1>0, <1>4, <2>2, <2>3 DEF ListingEnds
<1> QED BY <1>1, <1>2, <1>3, <1>4

LEMMA SessionsKeep ==
  ASSUME BackgroundInv, SessionBegins \/ Cleanup \/ SessionEnds
  PROVE  BackgroundInv'
<1> files \in [TaskDirs -> Directory] /\ Session \in TaskDirs /\ (\A t \in Tasks : t \in TaskDirs /\ t # Session)
  BY DirsOfTasks DEF BackgroundInv, BackgroundTypeOK
\* A worktree that stands keeps its branch.
<1>0. ASSUME files' \in [TaskDirs -> Directory], chatSession' \in {"none", "runs", "ended"},
             UNCHANGED <<taskRow, parent, child, lister>>,
             \A t \in Tasks : /\ files'[t].there = files[t].there /\ files'[t].message = files[t].message
                              /\ files'[t].done = files[t].done
                              /\ files[t].there /\ files[t].branch => files'[t].branch
      PROVE  BackgroundInv'
  <2>1. BackgroundTypeOK'
    BY <1>0 DEF BackgroundInv, BackgroundTypeOK
  <2>2. ASSUME InRepo PROVE TreesStand' /\ DoneIsTrue'
    BY <1>0, <2>2 DEF BackgroundInv, TreesStand, DoneIsTrue, ChildAt
  <2> QED BY <2>1, <2>2 DEF BackgroundInv
<1>1. CASE SessionBegins
  <2>1. /\ files' \in [TaskDirs -> Directory]
        /\ \A t \in Tasks : files'[t] = files[t]
    BY <1>1 DEF SessionBegins, Tree, Directory
  <2> QED BY <1>0, <1>1, <2>1 DEF SessionBegins
<1>2. CASE Cleanup
  <2>1. PICK f \in {files} \cup Removed(files, Session) : files' = Pruned(f)
    BY <1>2 DEF Cleanup
  <2>2. f \in [TaskDirs -> Directory] /\ \A t \in Tasks : f[t] = files[t]
    <3>1. CASE f = files
      BY <3>1
    <3>2. CASE f \in Removed(files, Session)
      <4>1. PICK b \in {files[Session].branch, FALSE} : f = [files EXCEPT ![Session].there = FALSE, ![Session].branch = b]
        BY <3>2 DEF Removed
      <4>2. b \in BOOLEAN
        BY <4>1 DEF Directory
      <4> QED BY <4>1, <4>2 DEF Directory
    <3> QED BY <2>1, <3>1, <3>2
  <2>3. \A d \in TaskDirs : files'[d] = [f[d] EXCEPT !.branch = @ /\ f[d].there]
    BY <2>1 DEF Pruned
  <2>4. \A d \in TaskDirs : f[d] \in Directory /\ (f[d].branch /\ f[d].there) \in BOOLEAN
    BY <2>2 DEF Directory
  <2>5. files' \in [TaskDirs -> Directory]
    BY <2>1, <2>4 DEF Pruned, Directory
  <2>6. \A t \in Tasks : /\ files'[t].there = files[t].there /\ files'[t].message = files[t].message
                         /\ files'[t].done = files[t].done
                         /\ files[t].there /\ files[t].branch => files'[t].branch
    <3> SUFFICES ASSUME NEW t \in Tasks
                 PROVE  /\ files'[t].there = files[t].there /\ files'[t].message = files[t].message
                        /\ files'[t].done = files[t].done
                        /\ files[t].there /\ files[t].branch => files'[t].branch
      OBVIOUS
    <3>1. files'[t] = [files[t] EXCEPT !.branch = @ /\ files[t].there] /\ files[t] \in Directory
      BY <2>2, <2>3
    <3> QED BY <3>1 DEF Directory
  <2> QED BY <1>0, <1>2, <2>5, <2>6 DEF Cleanup
<1>3. CASE SessionEnds
  BY <1>0, <1>3 DEF SessionEnds
<1> QED BY <1>1, <1>2, <1>3

LEMMA BackgroundKeeps == BackgroundInv /\ [BackgroundNext]_backgroundVars => BackgroundInv'
<1> SUFFICES ASSUME BackgroundInv, [BackgroundNext]_backgroundVars
             PROVE  BackgroundInv'
  OBVIOUS
<1>1. ASSUME NEW t \in Tasks,
             \/ CreateTask(t) \/ MarkRunning(t) \/ WriteMessage(t) \/ SpawnChild(t)
             \/ SetPID(t) \/ ParentDies(t) \/ ChildReads(t) \/ ChildEnds(t)
      PROVE  BackgroundInv'
  BY <1>1, ParentsKeep, ChildrenKeep
<1>2. ASSUME NEW l \in Listers, GetTasks(l) \/ CheckTask(l) \/ MarkTask(l) \/ ListingEnds(l)
      PROVE  BackgroundInv'
  BY <1>2, ListersKeep
<1>3. CASE SessionBegins \/ Cleanup \/ SessionEnds
  BY <1>3, SessionsKeep
<1>4. CASE UNCHANGED backgroundVars
  BY <1>4 DEF backgroundVars, BackgroundInv, BackgroundTypeOK, TreesStand, DoneIsTrue, ChildAt
<1> QED BY <1>1, <1>2, <1>3, <1>4 DEF BackgroundNext

LEMMA BackgroundAlways == BackgroundSpec => []BackgroundInv
BY BackgroundBegins, BackgroundKeeps, PTL DEF BackgroundSpec

\* Rows, processes, directories and listers are well formed (tasks/manager.go).
THEOREM BackgroundTypeCorrect == BackgroundSpec => []BackgroundTypeOK
<1>1. BackgroundInv => BackgroundTypeOK
  BY DEF BackgroundInv
<1> QED BY <1>1, BackgroundAlways, PTL

\* However parents die, listers overtake each other and the cleaner of a
\* session removes and prunes, a child works on the message of its own task in
\* a worktree that stands, and what is listed as completed has ended
\* (commands.go:836-905, worktree/manager.go:229-262).
THEOREM TasksStayApart == BackgroundSpec => []TasksApart
<1>1. BackgroundInv => TasksApart
  BY DirsOfTasks DEF BackgroundInv, BackgroundTypeOK, TreesStand, DoneIsTrue, TasksApart, ChildAt
<1> QED BY <1>1, BackgroundAlways, PTL
=============================================================================
