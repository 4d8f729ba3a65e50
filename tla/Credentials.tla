----------------------------- MODULE Credentials -----------------------------
(***************************************************************************)
(* The CLI's config file, and the commands that write it: config init,     *)
(* config set, key new and key revoke.                                     *)
(*                                                                         *)
(* Flags and environment variables take precedence over the file for the   *)
(* request a command sends, but what it saves starts from the file, read   *)
(* again after the reply.  The file is truncated and then written, and an  *)
(* empty file is a valid configuration: without anything.                  *)
(*                                                                         *)
(*   idle -> (dial ->) load -> truncate -> write -> ok -> idle             *)
(*                                                                         *)
(* device_id is read and written like endpoint and is left out.            *)
(***************************************************************************)
EXTENDS Naturals

CONSTANTS
    Procs,          \* processes of the CLI on one config file
    TwoProcesses,   \* several of them run at the same time
    Endpoints,
    SelfKeys,       \* what the server issues for an invitation
    OperatorKeys,   \* keys with an HMAC secret, handed out by an operator
    Secrets,
    None,           \* a field that is empty
    MaxFaults       \* bound of the model: replies lost, files that fail, crashes

ASSUME CredentialsAssumption ==
    /\ TwoProcesses \in BOOLEAN
    /\ None \notin Endpoints \cup SelfKeys \cup OperatorKeys \cup Secrets
    /\ MaxFaults \in Nat

Keys == SelfKeys \cup OperatorKeys

Config == [endpoint : Endpoints \cup {None}, key : Keys \cup {None},
           secret : Secrets \cup {None}]
Blank == [endpoint |-> None, key |-> None, secret |-> None]
Fields == {"endpoint", "key", "secret"}

Commands == {"init", "set", "new", "revoke"}
States == {"idle", "dial", "load", "truncate", "write", "ok"}

VARIABLES
    file,     \* the config file; Blank also when it does not exist
    server,   \* by key: what the server knows of it
    pc,
    command,
    flags,    \* flags of the command line, over the environment: None where neither is given
    local,    \* the Config to be saved
    subject,  \* the key the server has issued or revoked for the command
    given,    \* history: what the user has asked to be saved
    base,     \* history: the file when the command began
    faults

procVars == <<pc, command, flags, local, subject, base>>
vars == <<file, server, given, faults, procVars>>

TypeOK ==
    /\ file \in Config
    /\ flags \in [Procs -> Config] /\ local \in [Procs -> Config] /\ base \in [Procs -> Config]
    /\ server \in [Keys -> {"unissued", "live", "revoked"}]
    /\ pc \in [Procs -> States]
    /\ command \in [Procs -> Commands]
    /\ subject \in [Procs -> Keys \cup {None}]
    /\ given \subseteq Endpoints \cup Keys \cup Secrets
    /\ faults \in 0 .. MaxFaults

Init ==
    /\ file = Blank
    /\ server = [k \in Keys |-> IF k \in OperatorKeys THEN "live" ELSE "unissued"]
    /\ pc = [p \in Procs |-> "idle"]
    /\ command = [p \in Procs |-> "init"]
    /\ flags = [p \in Procs |-> Blank]
    /\ local = [p \in Procs |-> Blank]
    /\ subject = [p \in Procs |-> None]
    /\ given = {}
    /\ base = [p \in Procs |-> Blank]
    /\ faults = 0

-----------------------------------------------------------------------------

\* What is not empty in over takes the place of the field of conf.
Over(conf, over) == [f \in Fields |-> IF over[f] # None THEN over[f] ELSE conf[f]]

(* Plausible bugs, used to test the properties below *)

ReadAsInForce(p) == Over(file, flags[p])
ReadAsNew(p) == Blank
KeepKey(p, conf) ==
    CASE command[p] = "new" -> [conf EXCEPT !.key = subject[p], !.secret = None]
      [] command[p] = "revoke" -> conf
      [] OTHER -> Over(conf, flags[p])

-----------------------------------------------------------------------------
(* A command *)

\* loadConfig: the file under the environment and the flags.
InForce(p) == Over(file, flags[p])

\* LoadConfig, before a command saves.
ReadFile(p) == file

\* The fields a command is about.
Touched(p) ==
    CASE command[p] = "new" -> {"key", "secret"}
      [] command[p] = "revoke" -> {"key"}
      [] OTHER -> {f \in Fields : flags[p][f] # None}

\* What is saved: a key the server issues comes without an HMAC secret.
Changed(p, conf) ==
    CASE command[p] = "new" -> [conf EXCEPT !.key = subject[p], !.secret = None]
      [] command[p] = "revoke" -> [conf EXCEPT !.key = None]
      [] OTHER -> Over(conf, flags[p])

\* The process is over, and its variables with it.
Ends(p) ==
    /\ pc' = [pc EXCEPT ![p] = "idle"]
    /\ command' = [command EXCEPT ![p] = "init"]
    /\ flags' = [flags EXCEPT ![p] = Blank]
    /\ local' = [local EXCEPT ![p] = Blank]
    /\ subject' = [subject EXCEPT ![p] = None]
    /\ base' = [base EXCEPT ![p] = Blank]

\* The user gives a command; config set names one field, config init any.
Give(p, c, f) ==
    /\ pc[p] = "idle"
    /\ TwoProcesses \/ \A q \in Procs : pc[q] = "idle"
    /\ c = "set" => \E only \in Fields : {g \in Fields : f[g] # None} = {only}
    /\ f.key # None => server[f.key] = "live"
    /\ pc' = [pc EXCEPT ![p] = IF c \in {"new", "revoke"} THEN "dial" ELSE "load"]
    /\ command' = [command EXCEPT ![p] = c]
    /\ flags' = [flags EXCEPT ![p] = f]
    /\ base' = [base EXCEPT ![p] = file]
    /\ given' = IF c \in {"init", "set"} THEN given \cup ({f[g] : g \in Fields} \ {None})
                ELSE given
    /\ UNCHANGED <<file, server, local, subject, faults>>

\* POST /v1/keys: the server issues a key.
Register(p, k) ==
    /\ pc[p] = "dial" /\ command[p] = "new"
    /\ InForce(p).endpoint # None
    /\ k \in SelfKeys /\ server[k] = "unissued"
    /\ server' = [server EXCEPT ![k] = "live"]
    /\ subject' = [subject EXCEPT ![p] = k]
    /\ pc' = [pc EXCEPT ![p] = "load"]
    /\ UNCHANGED <<file, command, flags, local, given, base, faults>>

\* DELETE /v1/keys/self, with the key in force.
Revoke(p) ==
    LET k == InForce(p).key
    IN  /\ pc[p] = "dial" /\ command[p] = "revoke"
        /\ InForce(p).endpoint # None
        /\ k # None /\ server[k] = "live"
        /\ server' = [server EXCEPT ![k] = "revoked"]
        /\ subject' = [subject EXCEPT ![p] = k]
        /\ pc' = [pc EXCEPT ![p] = "load"]
        /\ UNCHANGED <<file, command, flags, local, given, base, faults>>

\* No endpoint, no key, a conflict, a refusal: the command ends and changes nothing.
Refused(p) ==
    /\ pc[p] = "dial"
    /\ Ends(p)
    /\ UNCHANGED <<file, server, given, faults>>

\* The file is read and the change made; config init asks for an endpoint.
Load(p) ==
    LET conf == Changed(p, ReadFile(p))
    IN  /\ pc[p] = "load"
        /\ IF command[p] = "init" /\ conf.endpoint = None
           THEN Ends(p)
           ELSE /\ pc' = [pc EXCEPT ![p] = "truncate"]
                /\ local' = [local EXCEPT ![p] = conf]
                /\ UNCHANGED <<command, flags, subject, base>>
        /\ UNCHANGED <<file, server, given, faults>>

\* os.WriteFile opens the file with O_TRUNC, ...
Truncate(p) ==
    /\ pc[p] = "truncate"
    /\ file' = Blank
    /\ pc' = [pc EXCEPT ![p] = "write"]
    /\ UNCHANGED <<server, command, flags, local, subject, given, base, faults>>

\* ... and then writes it.
Write(p) ==
    /\ pc[p] = "write"
    /\ file' = local[p]
    /\ pc' = [pc EXCEPT ![p] = "ok"]
    /\ UNCHANGED <<server, command, flags, local, subject, given, base, faults>>

Return(p) ==
    /\ pc[p] = "ok"
    /\ Ends(p)
    /\ UNCHANGED <<file, server, given, faults>>

\* The process dies or a file operation fails.
Fail(p) ==
    /\ pc[p] \notin {"idle", "ok"}
    /\ faults < MaxFaults
    /\ faults' = faults + 1
    /\ Ends(p)
    /\ UNCHANGED <<file, server, given>>

\* The server has done its part, but the reply does not arrive.
ReplyLost(p) ==
    /\ pc[p] = "dial"
    /\ faults < MaxFaults
    /\ faults' = faults + 1
    /\ \/ \E k \in SelfKeys : /\ command[p] = "new"
                              /\ server[k] = "unissued"
                              /\ server' = [server EXCEPT ![k] = "live"]
       \/ /\ command[p] = "revoke"
          /\ InForce(p).key # None
          /\ server' = [server EXCEPT ![InForce(p).key] = "revoked"]
    /\ Ends(p)
    /\ UNCHANGED <<file, given>>

-----------------------------------------------------------------------------

Next ==
    \E p \in Procs :
        \/ \E c \in Commands, f \in Config : Give(p, c, f)
        \/ \E k \in SelfKeys : Register(p, k)
        \/ Revoke(p) \/ Refused(p)
        \/ Load(p) \/ Truncate(p) \/ Write(p) \/ Return(p)
        \/ Fail(p) \/ ReplyLost(p)

Spec == Init /\ [][Next]_vars

-----------------------------------------------------------------------------
(* Properties *)

Quiet == \A p \in Procs : pc[p] = "idle"

\* What the user asked to be saved, and keys the server issued for it.
Asked(conf) ==
    /\ {conf.endpoint, conf.secret} \subseteq given \cup {None}
    /\ conf.key \in given \cup {None} \cup {k \in SelfKeys : server[k] # "unissued"}

\* A credential that came by flag or environment, for one command, stays out of
\* the file, however many commands run at the same time.
OverridesStayOut == Asked(file)

\* The command has changed the fields it is about and no other.
Kept(p, conf) ==
    /\ \A f \in Fields \ Touched(p) : conf[f] = base[p][f]
    /\ command[p] = "new" => conf.key = subject[p] /\ conf.secret = None

\* A command that says ok has changed the fields it is about and no other, and
\* after key new the file holds the new key, without the secret of an earlier one.
RestIsKept == \A p \in Procs : pc[p] = "ok" => Kept(p, file)

\* As long as nothing has failed, the saved key is one the server accepts: what
\* key revoke revokes does not stay behind, whichever key it was.
NoDeadKey == Quiet /\ faults = 0 /\ file.key # None => server[file.key] = "live"
-----------------------------------------------------------------------------
(* The inductive invariant *)

Saving(p) == pc[p] \in {"truncate", "write"}

\* What a command is about to put into the file.
CommandInv(p) ==
    /\ pc[p] = "dial" <=> pc[p] # "idle" /\ command[p] \in {"new", "revoke"} /\ subject[p] = None
    /\ pc[p] = "idle" => subject[p] = None
    /\ pc[p] # "idle" /\ command[p] \in {"init", "set"} =>
          \A f \in Fields : flags[p][f] \in given \cup {None}
    /\ command[p] = "new" /\ subject[p] # None =>
          subject[p] \in SelfKeys /\ server[subject[p]] # "unissued"
    /\ Saving(p) => Asked(local[p])

Dead(k) == k # None /\ server[k] # "live"

\* A key that is in the file, or on its way to it, is live.
KeyInv ==
    /\ Dead(file.key) => \E p \in Procs : command[p] = "revoke" /\ pc[p] \in {"load", "truncate"}
    /\ \A p \in Procs :
          /\ pc[p] # "idle" /\ command[p] \in {"init", "set"} => ~Dead(flags[p].key)
          /\ command[p] = "new" => ~Dead(subject[p])
          /\ Saving(p) => ~Dead(local[p].key)

\* One command at a time: the file is what the command found until it saves.
AloneInv ==
    /\ \A p, q \in Procs : p = q \/ pc[p] = "idle" \/ pc[q] = "idle"
    /\ \A p \in Procs :
          /\ pc[p] \in {"dial", "load", "truncate"} => file = base[p]
          /\ Saving(p) => Kept(p, local[p])
    /\ RestIsKept
    /\ faults = 0 => KeyInv

CredInv ==
    /\ TypeOK
    /\ OverridesStayOut
    /\ \A p \in Procs : CommandInv(p)
    /\ TwoProcesses \/ AloneInv
=============================================================================
