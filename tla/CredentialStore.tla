--------------------------- MODULE CredentialStore ----------------------------
(***************************************************************************)
(* internal/subscriptions/credential_store.go: the file with the OAuth      *)
(* credentials of every provider.  StoreCredential loads the file, changes *)
(* its copy and writes the whole file again; nothing locks it, and writing *)
(* is opening the file, which empties it, and then filling it.  So savers  *)
(* come in between one another at three points.                            *)
(*                                                                         *)
(* A credential is the account it is for (provider and e-mail) and a number *)
(* that grows with every grant of the provider.                            *)
(***************************************************************************)
EXTENDS Naturals, FiniteSets

CONSTANTS
    Savers,             \* who calls StoreCredential, in any process
    Accounts

VARIABLES
    file,               \* what the file reads as, or Corrupt
    save,               \* StoreCredential, per saver
    saved,              \* history: the credential last saved, per account
    spoiled             \* history: two saves overlapped or one was cut short

storeVars == <<file, save, saved, spoiled>>

Empty == [a \in Accounts |-> 0]
Corrupt == [a \in {} |-> 0]

\* The states of a save: it has yet to load, to open and to fill the file.
NotSaving == [at |-> "idle"]
Storing(a, n) == [at |-> "load", account |-> a, grant |-> n]

\* A saver that is done has stored its credential or failed to.
Saves ==
    {NotSaving}
    \cup [at : {"load"}, account : Accounts, grant : Nat]
    \cup [at : {"open", "fill"}, account : Accounts, grant : Nat, copy : [Accounts -> Nat]]
    \cup [at : {"stored", "failed"}]

\* The type invariant.
StoreTypeOK ==
    /\ file \in [Accounts -> Nat] \cup {Corrupt}
    /\ save \in [Savers -> Saves]
    /\ saved \in [Accounts -> Nat]
    /\ spoiled \in BOOLEAN

StoreInit ==
    /\ file = Empty
    /\ save = [s \in Savers |-> NotSaving]
    /\ saved = Empty
    /\ spoiled = FALSE

Begun(s) == save[s].at \in {"open", "fill"}

\* mutant: the other credentials of the store are not carried over.
LoadForgetsOthers(s) ==
    /\ save[s].at = "load"
    /\ save' = [save EXCEPT ![s] = [at |-> "open", account |-> save[s].account, grant |-> save[s].grant,
                                    copy |-> [Empty EXCEPT ![save[s].account] = save[s].grant]]]
    /\ spoiled' = (spoiled \/ \E other \in Savers : Begun(other))
    /\ UNCHANGED <<file, saved>>

\* loadCredentialStore; a file that does not parse is taken for an empty one.
Load(s) ==
    /\ save[s].at = "load"
    /\ LET read == IF file = Corrupt THEN Empty ELSE file IN
       save' = [save EXCEPT ![s] = [at |-> "open", account |-> save[s].account, grant |-> save[s].grant,
                                    copy |-> [read EXCEPT ![save[s].account] = save[s].grant]]]
    /\ spoiled' = (spoiled \/ \E other \in Savers : Begun(other))
    /\ UNCHANGED <<file, saved>>

\* os.WriteFile opens the file, and so empties it,
OpenFile(s) ==
    /\ save[s].at = "open"
    /\ file' = Empty
    /\ save' = [save EXCEPT ![s].at = "fill"]
    /\ UNCHANGED <<saved, spoiled>>

\* and fills it from the start: when another saver has filled it since, what
\* is longer there remains behind.
Fill(s) ==
    /\ save[s].at = "fill"
    /\ file' \in {save[s].copy} \cup (IF file = Empty THEN {} ELSE {Corrupt})
    /\ saved' = [saved EXCEPT ![save[s].account] = save[s].grant]
    /\ save' = [save EXCEPT ![s] = [at |-> "stored"]]
    /\ UNCHANGED spoiled

\* The file cannot be opened, or the disk is full once it is.
FailToWrite(s) ==
    /\ Begun(s)
    /\ IF save[s].at = "open" THEN UNCHANGED <<file, spoiled>>
                              ELSE file' = Corrupt /\ spoiled' = TRUE
    /\ save' = [save EXCEPT ![s] = [at |-> "failed"]]
    /\ UNCHANGED saved

Store(s) == Load(s) \/ OpenFile(s) \/ Fill(s) \/ FailToWrite(s)

\* The process of the savers dies.
KillSavers(S) ==
    /\ save' = [s \in Savers |-> IF s \in S /\ save[s].at \in {"load", "open", "fill"}
                               THEN NotSaving ELSE save[s]]
    /\ spoiled' = (spoiled \/ \E s \in S : save[s].at = "fill")
    /\ UNCHANGED <<file, saved>>

\* Saves that do not overlap and are not cut short lose nothing: the file has
\* the last credential saved for every account, whoever saved it.
CredentialsKept ==
    ~spoiled /\ (\A s \in Savers : save[s].at # "fill") => file = saved
=============================================================================
