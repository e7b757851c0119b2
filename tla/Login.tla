-------------------------------- MODULE Login ---------------------------------
(***************************************************************************)
(* internal/subscriptions: OAuth logins and the refresh of credentials.     *)
(*                                                                         *)
(* A managed login is begun by an HTTP request to the server and followed  *)
(* by a goroutine; a client asks for its status.  An interactive one is a   *)
(* process of its own, `synroute auth login`.  Either starts an HTTP server *)
(* on the callback port of its provider and waits for the browser.  Logins *)
(* of one provider share the port: the first to listen gets the callbacks  *)
(* of all of them, and the others never listen, unknown to them.           *)
(*                                                                         *)
(* The state parameter that pairs a callback with its login is the login   *)
(* itself.  The refresh of a provider's credentials runs under that        *)
(* provider's mutex, so a provider is one saver.                           *)
(***************************************************************************)
EXTENDS CredentialStore, Sequences

CONSTANTS
    Managed, Interactive,   \* logins
    LoginProviders,
    Served,                 \* the providers whose logins have a callback server
    Of,                     \* the provider of a login and of an account
    MaxCallbacks,           \* bound: callbacks of a login
    MaxGrants,              \* bound: credentials granted in a behaviour
    MaxCrashes              \* bound: ends of the server process

Logins == Managed \cup Interactive

ASSUME LoginAssumption ==
    /\ Managed \cap Interactive = {}
    /\ Logins \cap LoginProviders = {}
    /\ Savers = Logins \cup LoginProviders
    /\ Of \in [Logins \cup Accounts -> LoginProviders]
    /\ Served \subseteq LoginProviders
    /\ \A l \in Interactive : Of[l] \in Served

VARIABLES
    flow,               \* where a login is
    took,               \* the callback it took
    server,             \* its callback server
    callbacks,          \* what the server has received, capacity 1
    errors,             \* the errors it has received, capacity 1
    manual,             \* what a client has submitted, capacity 1
    session,            \* managedLogins: what the status of a login answers
    lapsed,             \* history: sessions that ran out or died with the process
    held,               \* the credentials the server process works with
    sent,               \* counts the callbacks of a login
    grants,             \* counts the credentials granted
    crashes

flowVars == <<flow, took, server, callbacks, errors, manual, session, lapsed>>
loginVars == <<storeVars, flowVars, held, sent, grants, crashes>>

NoCallback == [state |-> "none", error |-> FALSE]

LoginInit ==
    /\ StoreInit
    /\ flow = [l \in Logins |-> "none"]
    /\ took = [l \in Logins |-> NoCallback]
    /\ server = [l \in Logins |-> "none"]
    /\ callbacks = [l \in Logins |-> <<>>]
    /\ errors = [l \in Logins |-> FALSE]
    /\ manual = [l \in Logins |-> <<>>]
    /\ session = [l \in Logins |-> "gone"]
    /\ lapsed = {}
    /\ held = Empty
    /\ sent = [l \in Logins |-> 0]
    /\ grants = 0
    /\ crashes = 0

Counters == <<held, sent, grants, crashes>>

(* ---------------------------- callback servers -------------------------- *)

\* The login that listens on the port of provider p.
Listening(l, p) == server[l] = "listening" /\ Of[l] = p

\* The goroutine of startOAuthServer; that the port is taken is not reported.
Listen(l) ==
    /\ server[l] = "starting"
    /\ server' = [server EXCEPT ![l] = IF \E k \in Logins : Listening(k, Of[l])
                                       THEN "failed" ELSE "listening"]
    /\ UNCHANGED <<storeVars, flow, took, callbacks, errors, manual, session, lapsed, Counters>>

\* A channel with room for one value; what does not fit is dropped.
Offer(channel, value) == IF channel = <<>> THEN <<value>> ELSE channel

CanCall(l) == flow[l] # "none" /\ sent[l] < MaxCallbacks /\ sent' = [sent EXCEPT ![l] = @ + 1]

\* The browser of login l is sent to the port: handleCallback of whichever
\* server listens there.
HandleCallback(k, l) ==
    /\ Listening(k, Of[l])
    /\ CanCall(l)
    /\ \/ /\ errors' = [errors EXCEPT ![k] = TRUE]
          /\ UNCHANGED callbacks
       \/ /\ callbacks' = [callbacks EXCEPT ![k] = Offer(@, [state |-> l, error |-> FALSE])]
          /\ UNCHANGED errors
    /\ UNCHANGED <<storeVars, flow, took, server, manual, session, lapsed, held, grants, crashes>>

\* SubmitManagedLoginCallback, also after the flow took another callback.
SubmitManagedLoginCallback(l) ==
    /\ session[l] # "gone"
    /\ CanCall(l)
    /\ \E error \in BOOLEAN :
          manual' = [manual EXCEPT ![l] = Offer(@, [state |-> l, error |-> error])]
    /\ UNCHANGED <<storeVars, flow, took, server, callbacks, errors, session, lapsed, held, grants, crashes>>

(* ------------------------------- sessions ------------------------------- *)

\* Every operation on the sessions first purges those whose time is over, so
\* a session is gone as soon as it is; the flow goes on all the same.
ExpireSession(l) ==
    /\ session[l] # "gone"
    /\ session' = [session EXCEPT ![l] = "gone"]
    /\ lapsed' = lapsed \cup {l}
    /\ UNCHANGED <<storeVars, flow, took, server, callbacks, errors, manual, Counters>>

SetError(l) == session' = [session EXCEPT ![l] = IF @ = "gone" THEN @ ELSE "error"]
Complete(l) == session' = [session EXCEPT ![l] = "gone"]

\* What subscriptionAuthStatusHandler answers of a login that was begun.
Status(l) == IF session[l] = "gone" THEN "ok" ELSE session[l]

(* -------------------------------- logins -------------------------------- *)

Begin(l, registered) ==
    /\ flow[l] = "none"
    /\ flow' = [flow EXCEPT ![l] = "waits"]
    /\ server' = [server EXCEPT ![l] = IF Of[l] \in Served THEN "starting" ELSE "none"]
    /\ session' = [session EXCEPT ![l] = registered]
    /\ UNCHANGED <<storeVars, took, callbacks, errors, manual, lapsed, Counters>>

BeginManagedLogin(l) == l \in Managed /\ Begin(l, "wait")
LoginInteractive(l) == l \in Interactive /\ Begin(l, "gone")

GoesOn(l, next) == flow' = [flow EXCEPT ![l] = next]

\* mutant: the state is not compared.
AcceptsAnyState(l, c) == ~c.error

\* What a flow does with a callback: an error in it and the state of another
\* login end the flow, and else the code is exchanged.
Accepted(l, c) == ~c.error /\ c.state = l

Take(l, c) ==
    /\ took' = [took EXCEPT ![l] = c]
    /\ GoesOn(l, IF Accepted(l, c) THEN "exchanges" ELSE "fails")

\* waitForManagedLoginCallback and waitForCallback: one of what has come, or
\* an error of the server, or the timer.
TakeCallback(l) ==
    /\ flow[l] = "waits"
    /\ callbacks[l] # <<>>
    /\ Take(l, Head(callbacks[l]))
    /\ callbacks' = [callbacks EXCEPT ![l] = <<>>]
    /\ UNCHANGED <<storeVars, server, errors, manual, session, lapsed, Counters>>

TakeManual(l) ==
    /\ flow[l] = "waits"
    /\ manual[l] # <<>>
    /\ Take(l, Head(manual[l]))
    /\ manual' = [manual EXCEPT ![l] = <<>>]
    /\ UNCHANGED <<storeVars, server, callbacks, errors, session, lapsed, Counters>>

TakeError(l) ==
    /\ flow[l] = "waits"
    /\ errors[l]
    /\ errors' = [errors EXCEPT ![l] = FALSE]
    /\ GoesOn(l, "fails")
    /\ UNCHANGED <<storeVars, took, server, callbacks, manual, session, lapsed, Counters>>

\* mutant: the timer runs for a server that listens only.
TimeOutIfListening(l) ==
    /\ flow[l] = "waits"
    /\ server[l] = "listening"
    /\ GoesOn(l, "fails")
    /\ UNCHANGED <<storeVars, took, server, callbacks, errors, manual, session, lapsed, Counters>>

TimeOut(l) ==
    /\ flow[l] = "waits"
    /\ GoesOn(l, "fails")
    /\ UNCHANGED <<storeVars, took, server, callbacks, errors, manual, session, lapsed, Counters>>

\* mutant: the flow that fails does not come to the deferred stop.
FailWithoutStop(l) ==
    /\ flow[l] = "fails"
    /\ SetError(l)
    /\ GoesOn(l, "ended")
    /\ UNCHANGED <<storeVars, took, server, callbacks, errors, manual, lapsed, Counters>>

\* setError; an interactive login has no session.
FailLogin(l) ==
    /\ flow[l] = "fails"
    /\ SetError(l)
    /\ GoesOn(l, "stops")
    /\ UNCHANGED <<storeVars, took, server, callbacks, errors, manual, lapsed, Counters>>

Begins(s, a) ==
    /\ grants < MaxGrants
    /\ grants' = grants + 1
    /\ save' = [save EXCEPT ![s] = Storing(a, grants')]
    /\ UNCHANGED <<file, saved, spoiled>>

\* The exchange of the code, for whichever account the user chose.  A managed
\* flow goes on to store the credential; Login returns it, which stops the
\* server first.
Exchange(l) ==
    /\ flow[l] = "exchanges"
    /\ \/ /\ \E a \in Accounts : Of[a] = Of[l] /\ Begins(l, a)
          /\ GoesOn(l, IF l \in Managed THEN "stores" ELSE "stops")
       \/ /\ GoesOn(l, "fails")
          /\ UNCHANGED <<storeVars, grants>>
    /\ UNCHANGED <<took, server, callbacks, errors, manual, session, lapsed, held, sent, crashes>>

\* StoreCredential of a login: its statements ...
StoreStep(l) ==
    /\ flow[l] = "stores"
    /\ Store(l)
    /\ UNCHANGED <<flowVars, Counters>>

\* mutant: the session is completed before the credential is stored.
CompletesEarly(l) ==
    /\ flow[l] = "stores"
    /\ save[l].at = "load" \/ save[l].at \in {"stored", "failed"}
    /\ IF save[l].at = "load" THEN UNCHANGED flow ELSE GoesOn(l, "stops")
    /\ Complete(l)
    /\ UNCHANGED <<storeVars, took, server, callbacks, errors, manual, lapsed, Counters>>

\* ... and its return: the session is completed once the credential is stored.
Stored(l) ==
    /\ flow[l] = "stores"
    /\ \/ save[l].at = "stored" /\ Complete(l)
       \/ save[l].at = "failed" /\ SetError(l)
    /\ GoesOn(l, IF l \in Managed THEN "stops" ELSE "ended")
    /\ UNCHANGED <<storeVars, took, server, callbacks, errors, manual, lapsed, Counters>>

\* The deferred stop of the server.
StopServer(l) ==
    /\ flow[l] = "stops"
    /\ server' = [server EXCEPT ![l] = IF @ = "none" THEN @ ELSE "stopped"]
    /\ GoesOn(l, IF l \in Interactive /\ save[l].at = "load" THEN "stores" ELSE "ended")
    /\ UNCHANGED <<storeVars, took, callbacks, errors, manual, session, lapsed, Counters>>

(* -------------------------------- refresh ------------------------------- *)

\* refreshCredentialIfNeeded for an account of provider p, which keeps what
\* it was granted whether or not it is stored.
Refresh(p, a) ==
    /\ p \in LoginProviders
    /\ Of[a] = p
    /\ held[a] # 0
    /\ save[p].at = "idle"
    /\ Begins(p, a)
    /\ held' = [held EXCEPT ![a] = grants']
    /\ UNCHANGED <<flowVars, sent, crashes>>

StoreRefreshed(p) ==
    /\ p \in LoginProviders
    /\ \/ Store(p)
       \/ /\ save[p].at \in {"stored", "failed"}
          /\ save' = [save EXCEPT ![p] = NotSaving]
          /\ UNCHANGED <<file, saved, spoiled>>
    /\ UNCHANGED <<flowVars, Counters>>

(* ------------------------------ the processes --------------------------- *)

\* The server process ends, with its managed logins and refreshes, and the
\* next one loads the file.
RestartServer ==
    /\ crashes < MaxCrashes
    /\ crashes' = crashes + 1
    /\ KillSavers(Managed \cup LoginProviders)
    /\ flow' = [l \in Logins |-> IF l \in Managed /\ flow[l] # "none" THEN "ended" ELSE flow[l]]
    /\ server' = [l \in Logins |-> IF l \in Managed /\ server[l] # "none" THEN "stopped" ELSE server[l]]
    /\ callbacks' = [l \in Logins |-> IF l \in Managed THEN <<>> ELSE callbacks[l]]
    /\ errors' = [l \in Logins |-> l \notin Managed /\ errors[l]]
    /\ manual' = [l \in Logins |-> <<>>]
    /\ session' = [l \in Logins |-> "gone"]
    /\ lapsed' = lapsed \cup {l \in Managed : session[l] # "gone"}
    /\ held' = IF file = Corrupt THEN Empty ELSE file
    /\ UNCHANGED <<took, sent, grants>>

\* What a login does by itself.
Continues(l) ==
    \/ TakeCallback(l) \/ TakeManual(l) \/ TakeError(l) \/ TimeOut(l)
    \/ FailLogin(l) \/ Exchange(l) \/ StoreStep(l) \/ Stored(l) \/ StopServer(l)

LoginNext ==
    \/ \E l \in Logins :
          \/ BeginManagedLogin(l) \/ LoginInteractive(l) \/ Listen(l)
          \/ SubmitManagedLoginCallback(l) \/ ExpireSession(l) \/ Continues(l)
          \/ \E k \in Logins : HandleCallback(k, l)
    \/ \E p \in LoginProviders : StoreRefreshed(p) \/ \E a \in Accounts : Refresh(p, a)
    \/ RestartServer

\* The timer of a login fires and its goroutine, or process, is run.
LoginFairness == \A l \in Logins : WF_loginVars(Continues(l))

LoginSpec == LoginInit /\ [][LoginNext]_loginVars /\ LoginFairness

(* -------------------------------- properties ---------------------------- *)

Callbacks == [state : Logins \cup {"none"}, error : BOOLEAN]
\* The type invariant.
LoginTypeOK ==
    /\ StoreTypeOK
    /\ flow \in [Logins -> {"none", "waits", "exchanges", "fails", "stores", "stops", "ended"}]
    /\ took \in [Logins -> Callbacks]
    /\ server \in [Logins -> {"none", "starting", "listening", "failed", "stopped"}]
    /\ callbacks \in [Logins -> Seq(Callbacks)]
    /\ errors \in [Logins -> BOOLEAN]
    /\ manual \in [Logins -> Seq(Callbacks)]
    /\ session \in [Logins -> {"gone", "wait", "error"}]
    /\ lapsed \subseteq Logins
    /\ held \in [Accounts -> Nat]
    /\ sent \in [Logins -> Nat]
    /\ grants \in Nat /\ crashes \in Nat

\* A login trades in the code of its own callback only, although the server
\* on the port gets those of every login of the provider.
OwnCallback ==
    \A l \in Logins : flow[l] \in {"exchanges", "stores"} \/ save[l].at \notin {"idle"}
        => took[l] = [state |-> l, error |-> FALSE]

\* A client that is answered "ok" has its credential stored - unless the
\* session ran out or the process ended - and one that is answered "error"
\* has not; as long as it is told to wait the flow has not ended.
StatusTruthful ==
    \A l \in Managed : flow[l] # "none" =>
        /\ Status(l) = "ok" => l \in lapsed \/ save[l].at = "stored"
        /\ Status(l) = "error" => save[l].at # "stored" /\ flow[l] \in {"stops", "ended"}
        /\ Status(l) = "wait" => flow[l] \notin {"stops", "ended"}

\* What is traded in, stored and told belongs to one and the same login.
LoginsHold == OwnCallback /\ StatusTruthful

\* A login that is over does not keep the port, so the next one gets it.
PortReleased == \A l \in Logins : flow[l] = "ended" => server[l] \in {"none", "stopped"}

\* Whatever callbacks come, go astray or are dropped, every login ends.
LoginsEnd == \A l \in Logins : flow[l] = "waits" ~> flow[l] = "ended"
=============================================================================
