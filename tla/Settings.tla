------------------------------ MODULE Settings ------------------------------
(***************************************************************************)
(* The worker's settings: the .env file, the environment a process hands   *)
(* to the one that replaces it, the configuration a start makes of both,   *)
(* the API requests that edit the file, and the sessions and lease tokens  *)
(* that depend on the configuration.                                       *)
(*                                                                         *)
(* A line of the file is its key, its value and whether it is commented    *)
(* out.  An edit is three steps (read, truncate, write), as std::fs gives  *)
(* no more; requests run on several threads.                               *)
(***************************************************************************)
EXTENDS Naturals, Sequences, FiniteSets

CONSTANTS
    Handlers,    \* API requests that may be in flight at the same time
    Values,      \* values that can be configured
    Generated,   \* random secrets
    Files,       \* contents of .env an operator may have left
    MaxUpdates,  \* bound of the number of update requests
    Faults,      \* the adversities admitted, a subset of FaultKinds
    Unset, Empty, Zero, Default, Remote, Unparsable, NoFile

\* "overlap": two requests edit the file at the same time.  "torn": the process
\* ends between truncation and write.  "unparsable": a value dotenvy rejects.
FaultKinds == {"overlap", "torn", "unparsable"}

ASSUME FaultsAssumption == Faults \subseteq FaultKinds
ASSUME BoundsAssumption == MaxUpdates \in Nat /\ IsFiniteSet(Generated)

RemoteKeys == {"MINING_POOL_URL"}
Ports == {"SERVER_PUBLIC_PORT"}
SecretKeys == {"LEASE_TOKEN_SECRET", "JWT_SECRET"}
Keys == RemoteKeys \cup Ports \cup SecretKeys \cup {"LOGIN_PASSWORD"}
Setting == Values \cup {Empty, Zero, Default, Remote, Unparsable, Unset} \cup Generated
Line == [key : Keys, val : Setting, off : BOOLEAN]

\* What an operator may have put into the file: not a secret yet to be drawn.
Written == Values \cup {Empty, Zero, Default, Remote}
             \cup IF "unparsable" \in Faults THEN {Unparsable} ELSE {}

ASSUME ValuesAssumption ==
    /\ Generated \cap (Values \cup {Empty, Zero, Default, Remote, Unparsable, Unset}) = {}
    /\ Unset \notin Values \cup {Empty, Zero, Default, Remote, Unparsable}
    /\ Unparsable \notin Values \cup {Empty, Zero, Default, Remote}
ASSUME FilesAssumption ==
    Files \subseteq Seq([key : Keys, val : Written, off : BOOLEAN])
ASSUME NoFileAssumption == NoFile \notin Seq(Line)

VARIABLES
    file,      \* the lines of .env, or NoFile
    env,       \* environment of the running process, or of the last one
    conf,      \* AppConfig of the running process, or of the last one
    up,        \* a process runs
    count,     \* update requests so far
    pc,        \* where each update request stands
    todo,      \* its fields not yet handled
    content,   \* what it read of the file
    acked,     \* per key, the last value a request reported as updated
    sessions,  \* JWTs handed out: [key, pass]
    tokens,    \* secrets of lease tokens handed out under a secret that .env fixes
    fetched    \* the last start got the remote defaults

request == <<pc, todo, content>>
vars == <<file, env, conf, up, count, request, acked, sessions, tokens, fetched>>

NoFields == [k \in {} |-> Unset]

\* What is left of a request's body.
Fields == UNION {[S -> Setting] : S \in SUBSET (Keys \ SecretKeys)}

TypeOK ==
    /\ file = NoFile \/ file \in Seq(Line)
    /\ env \in [Keys -> Setting]
    /\ conf \in [Keys -> Setting \ {Unset}]
    /\ up \in BOOLEAN /\ fetched \in BOOLEAN
    /\ count \in 0 .. MaxUpdates
    /\ pc \in [Handlers -> {"idle", "next", "truncate", "write"}]
    /\ todo \in [Handlers -> Fields]
    /\ content \in [Handlers -> Seq(Line)]
    /\ acked \in [Keys -> Setting]
    /\ sessions \subseteq [key : Setting, pass : Setting]
    /\ tokens \subseteq Setting

-----------------------------------------------------------------------------
(* Start: ensure_env_file, load_env, fetch_remote_defaults, parse.         *)

On(k, v) == [key |-> k, val |-> v, off |-> FALSE]
Off(k) == [key |-> k, val |-> Empty, off |-> TRUE]

\* default_env_content
Template == <<On("MINING_POOL_URL", Default), Off("LOGIN_PASSWORD"),
              Off("SERVER_PUBLIC_PORT"), Off("LEASE_TOKEN_SECRET")>>

\* dotenvy stops at the first line it cannot parse; the error is ignored.
Readable(lines) ==
    {i \in 1 .. Len(lines) :
        \A j \in 1 .. i : lines[j].off \/ lines[j].val # Unparsable}

\* Mutant: from_path, which leaves variables that exist alone.
LoadEnv_NoOverride(lines, inherited) ==
    [k \in Keys |->
        LET at == {i \in Readable(lines) : lines[i].key = k /\ ~lines[i].off}
        IN  IF at = {} \/ inherited[k] # Unset THEN inherited[k]
            ELSE lines[CHOOSE i \in at : \A j \in at : j <= i].val]

\* from_path_override: the last line of a key wins, over the environment too.
LoadEnv(lines, inherited) ==
    [k \in Keys |->
        LET at == {i \in Readable(lines) : lines[i].key = k /\ ~lines[i].off}
        IN  IF at = {} THEN inherited[k]
            ELSE lines[CHOOSE i \in at : \A j \in at : j <= i].val]

FetchRemoteDefaults(e, ok) ==
    [k \in Keys |-> IF ok /\ k \in RemoteKeys THEN Remote ELSE e[k]]

\* AppConfig::parse, and a random secret g for each one not configured.
Parse(e, g) ==
    [k \in Keys |->
        CASE e[k] \in {Unset, Empty} /\ k \in SecretKeys -> g
          [] e[k] = Unset /\ k \notin SecretKeys ->
               IF k = "LOGIN_PASSWORD" THEN Empty ELSE Default
          [] OTHER -> e[k]]

\* A secret nobody remembers stands for a newly generated one.
Fresh == Generated \ ({conf[k] : k \in Keys} \cup {s.key : s \in sessions})

\* The process starts with the environment it is given.
Start(inherited) ==
    \E g \in Fresh, ok \in BOOLEAN :
        LET lines == IF file = NoFile THEN Template ELSE file
            loaded == FetchRemoteDefaults(LoadEnv(lines, inherited), ok)
        IN  /\ file' = lines
            /\ env' = loaded
            /\ conf' = Parse(loaded, g)
            /\ fetched' = ok
            /\ up' = TRUE

Clean == [k \in Keys |-> Unset]

Init ==
    /\ file \in Files \cup {NoFile}
    /\ env = Clean
    /\ conf = [k \in Keys |-> Default]
    /\ up = FALSE
    /\ count = 0
    /\ pc = [h \in Handlers |-> "idle"]
    /\ todo = [h \in Handlers |-> NoFields]
    /\ content = [h \in Handlers |-> <<>>]
    /\ acked = Clean
    /\ sessions = {}
    /\ tokens = {}
    /\ fetched = FALSE

\* /api/restart and /api/start hand their environment on; an operator's shell
\* does not.
Boot ==
    /\ ~up
    /\ Start(env) \/ Start(Clean)
    /\ UNCHANGED <<count, request, acked, sessions, tokens>>

\* The process ends, and with it the requests in progress.
Exit ==
    /\ up
    /\ "torn" \in Faults \/ \A h \in Handlers : pc[h] # "write"
    /\ up' = FALSE
    /\ pc' = [h \in Handlers |-> "idle"]
    /\ todo' = [h \in Handlers |-> NoFields]
    /\ content' = [h \in Handlers |-> <<>>]
    /\ UNCHANGED <<file, env, conf, count, acked, sessions, tokens, fetched>>

\* The operator throws the settings away.
DeleteFile ==
    /\ file # NoFile /\ \A h \in Handlers : pc[h] # "write"
    /\ file' = NoFile
    /\ acked' = Clean
    /\ tokens' = {}
    /\ UNCHANGED <<env, conf, up, count, request, sessions, fetched>>

-----------------------------------------------------------------------------
(* Sessions and lease tokens.                                              *)

\* login with the password in force.
Login ==
    /\ up
    /\ sessions' = sessions \cup
         {[key |-> conf["JWT_SECRET"], pass |-> conf["LOGIN_PASSWORD"]]}
    /\ UNCHANGED <<file, env, conf, up, count, request, acked, tokens, fetched>>

\* verify_token, auth_middleware
Accepts(s) == s.key = conf["JWT_SECRET"]
Authorized == conf["LOGIN_PASSWORD"] = Empty \/ \E s \in sessions : Accepts(s)

\* The 30 days of a JWT are over.
SessionExpires ==
    /\ \E s \in sessions : sessions' = sessions \ {s}
    /\ UNCHANGED <<file, env, conf, up, count, request, acked, tokens, fetched>>

\* lease_new hands out a lease with its token, under a secret that .env fixes.
SignToken ==
    /\ up /\ Authorized /\ file # NoFile
    /\ conf["LEASE_TOKEN_SECRET"] = LoadEnv(file, Clean)["LEASE_TOKEN_SECRET"]
    /\ tokens' = tokens \cup {conf["LEASE_TOKEN_SECRET"]}
    /\ UNCHANGED <<file, env, conf, up, count, request, acked, sessions, fetched>>

-----------------------------------------------------------------------------
(* Updates: update_config, update_password, update_env_value.              *)

Submitted == Values \cup IF "unparsable" \in Faults THEN {Unparsable} ELSE {}

\* The bodies of the two endpoints; a password is at least four characters.
Bodies ==
    [{"LOGIN_PASSWORD"} -> Submitted]
        \cup UNION {[S -> Submitted \cup {Zero}] :
                      S \in SUBSET (RemoteKeys \cup Ports) \ {{}}}

BeginUpdate(h) ==
    /\ up /\ pc[h] = "idle" /\ Authorized
    /\ count < MaxUpdates
    /\ "overlap" \in Faults \/ \A x \in Handlers : pc[x] = "idle"
    /\ \E b \in Bodies :
         /\ "MINING_POOL_URL" \in DOMAIN b => b["MINING_POOL_URL"] # Zero
         /\ todo' = [todo EXCEPT ![h] = b]
    /\ pc' = [pc EXCEPT ![h] = "next"]
    /\ count' = count + 1
    /\ UNCHANGED <<file, env, conf, up, content, acked, sessions, tokens, fetched>>

\* Fields are handled in a fixed order, the ports last.
Current(h) ==
    CHOOSE k \in DOMAIN todo[h] :
        k \in Ports => DOMAIN todo[h] \subseteq Ports
Without(f, k) == [x \in DOMAIN f \ {k} |-> f[x]]

\* update_env_value reads the file.
ReadEnv(h) ==
    /\ pc[h] = "next" /\ todo[h] # NoFields
    /\ file # NoFile /\ todo[h][Current(h)] # Zero
    /\ content' = [content EXCEPT ![h] = file]
    /\ pc' = [pc EXCEPT ![h] = "truncate"]
    /\ UNCHANGED <<file, env, conf, up, count, todo, acked, sessions, tokens,
                   fetched>>

\* validate_port, or a file that cannot be read: an error, and on.
FieldFails(h) ==
    /\ pc[h] = "next" /\ todo[h] # NoFields
    /\ file = NoFile \/ todo[h][Current(h)] = Zero
    /\ todo' = [todo EXCEPT ![h] = Without(@, Current(h))]
    /\ UNCHANGED <<file, env, conf, up, count, pc, content, acked, sessions,
                   tokens, fetched>>

\* std::fs::write truncates ...
Truncate(h) ==
    /\ pc[h] = "truncate"
    /\ file' = <<>>
    /\ pc' = [pc EXCEPT ![h] = "write"]
    /\ UNCHANGED <<env, conf, up, count, todo, content, acked, sessions,
                   tokens, fetched>>

\* Mutant: the file is rewritten from the settings this module knows.
Edit_Rewrites(lines, k, v) ==
    LET others == SelectSeq(lines, LAMBDA l : l.key \in Ports \cup RemoteKeys /\ l.key # k)
    IN  Append(others, On(k, v))

\* Every line of the key, commented or not, is replaced; else one is appended.
Edit(lines, k, v) ==
    IF \E i \in 1 .. Len(lines) : lines[i].key = k
    THEN [i \in 1 .. Len(lines) |-> IF lines[i].key = k THEN On(k, v) ELSE lines[i]]
    ELSE Append(lines, On(k, v))

\* Mutant: a new password is put in force at once.
WriteEnv_Live(h) ==
    /\ pc[h] = "write"
    /\ LET k == Current(h)
       IN  /\ file' = Edit(content[h], k, todo[h][k])
           /\ acked' = [acked EXCEPT ![k] = todo[h][k]]
           /\ todo' = [todo EXCEPT ![h] = Without(@, k)]
           /\ conf' = [conf EXCEPT ![k] = todo[h][k]]
    /\ content' = [content EXCEPT ![h] = <<>>]
    /\ pc' = [pc EXCEPT ![h] = "next"]
    /\ UNCHANGED <<env, up, count, sessions, tokens, fetched>>

\* ... and writes; the field goes on the list of those updated.
WriteEnv(h) ==
    /\ pc[h] = "write"
    /\ LET k == Current(h)
       IN  /\ file' = Edit(content[h], k, todo[h][k])
           /\ acked' = [acked EXCEPT ![k] = todo[h][k]]
           /\ todo' = [todo EXCEPT ![h] = Without(@, k)]
    /\ content' = [content EXCEPT ![h] = <<>>]
    /\ pc' = [pc EXCEPT ![h] = "next"]
    /\ UNCHANGED <<env, conf, up, count, sessions, tokens, fetched>>

\* All fields are handled: the response, with success or not.
Respond(h) ==
    /\ pc[h] = "next" /\ todo[h] = NoFields
    /\ pc' = [pc EXCEPT ![h] = "idle"]
    /\ UNCHANGED <<file, env, conf, up, count, todo, content, acked, sessions,
                   tokens, fetched>>

Next ==
    \/ \E h \in Handlers :
         \/ BeginUpdate(h) \/ ReadEnv(h) \/ FieldFails(h) \/ Truncate(h)
         \/ WriteEnv(h) \/ Respond(h)
    \/ Boot \/ Exit \/ DeleteFile
    \/ Login \/ SessionExpires \/ SignToken

Spec == Init /\ [][Next]_vars

-----------------------------------------------------------------------------
(* Properties                                                              *)

\* What a request reported as updated is in force after the next start, by
\* whatever way the worker is started ("重启后生效", admin.rs:142, auth.rs:106),
\* except for a key that the start takes from the remote defaults.
UpdatesTakeEffect ==
    [][~up /\ up' =>
        \A k \in Keys : acked[k] # Unset /\ ~(fetched' /\ k \in RemoteKeys) =>
            conf'[k] = acked[k]]_vars

\* A lease token signed under a fixed LEASE_TOKEN_SECRET stays valid across
\* restarts (README.md:500), whatever else is edited in between
\* (admin.rs:38-72, main.rs:196-206, 286).
FixedTokensSurvive ==
    up => \A t \in tokens : conf["LEASE_TOKEN_SECRET"] = t

\* Without a fixed JWT_SECRET the sessions the middleware accepts are those of
\* logins with the password in force: a new password and the end of the old
\* sessions come together, with the restart (auth.rs:27-52, 133, main.rs:293).
SessionMatchesPassword ==
    up /\ conf["JWT_SECRET"] \in Generated =>
        \A s \in sessions : Accepts(s) => s.pass = conf["LOGIN_PASSWORD"]
=============================================================================
