------------------------- MODULE CredentialsProofs -------------------------
(***************************************************************************)
(* Proofs about Credentials, for every set of users, passwords and hosts   *)
(* and every number of credentials to generate: type correctness; that the *)
(* proxies accept no password but the table's; that they accept all of     *)
(* them once start-up has succeeded; that a lease survives restarts and    *)
(* migrations; and that every row names the current address.               *)
(***************************************************************************)
EXTENDS Credentials, TLAPS

\* The map is empty until it is filled, and only a serving process reloads it.
PhaseInv ==
    /\ status \notin Serving \cup {"sync"} => creds = NoCreds
    /\ status \notin Serving => rpc = "idle"

\* What a migration or generation has written so far.
BatchInv ==
    status \in {"migrate", "generate"} =>
        /\ todo \subseteq Defined(batch)
        /\ \A u \in Defined(batch) \ todo : row[u] = batch[u]

\* A reload works on the table as it is: rows do not change while it runs.
ReloadInv ==
    /\ rpc # "idle" => snap = row
    /\ rpc = "fill" => \A u \in Users : creds[u] = IF u \in rtodo THEN None ELSE snap[u]

AvailInv == avail \subseteq Defined(row)

MapInv ==
    /\ TypeOK /\ AvailInv
    /\ PhaseInv /\ BatchInv /\ ReloadInv
    /\ MapMatchesTable

\* There are password files, and none has a password.
OnlyEmpty == Defined(files) # {} /\ \A u \in Users : files[u] \notin Versions

\* A migration that finds no password has no rows to leave out of the map.
FileInv ==
    /\ OnlyEmpty => row = NoCreds
    /\ status \in {"down", "scan"} => batch = NoCreds
    /\ status \in {"generate", "migrate"} => ~OnlyEmpty
    /\ status = "read" =>
         /\ \A u \in Users : batch[u] # None => files[u] \in Versions
         /\ \/ row = NoCreds
            \/ \E u \in Users : files[u] \in Versions /\ (u \in todo \/ batch[u] # None)

CompleteInv ==
    status \in {"sync", "ready", "reloaded"} /\ rpc # "fill" => creds = row

\* A file that has been read, or needs no reading.
FileRead(u) == status = "migrate" \/ (status = "read" /\ u \notin todo)

\* A file with the password of a lease was read as that password; nothing is
\* generated over leases.
MigrateInv ==
    /\ status \in {"read", "migrate"} => Defined(files) # {}
    /\ \A u \in Users : FileRead(u) =>
         \A g \in held : g.user = u /\ batch[u] # g.pwd => files[u] # g.pwd
    /\ status = "generate" => held = {}

RestartInv == MapInv /\ MigrateInv /\ LeaseSurvivesRestart

-----------------------------------------------------------------------------
(* Types, and the map against the table.                                   *)

LEMMA MapInit == Init => MapInv
<1> SUFFICES ASSUME Init PROVE MapInv
    OBVIOUS
<1> USE VersionsAssumption DEF Init, Stored, NoCreds, None
<1>1. TypeOK
    BY DEF TypeOK, Starting, Serving, Defined
<1>2. AvailInv /\ PhaseInv /\ BatchInv /\ ReloadInv
    BY DEF AvailInv, PhaseInv, BatchInv, ReloadInv, Serving
<1>3. MapMatchesTable
    BY DEF MapMatchesTable, Authenticate
<1> QED
    BY <1>1, <1>2, <1>3 DEF MapInv

\* A step of start-up keeps the types, and the rows that are available.
LEMMA TypeStart ==
    ASSUME TypeOK, AvailInv, BatchInv,
           Scan \/ ReadFile \/ ReadDone \/ WriteSock \/ Prune \/ SyncHostPort
           \/ InitFails
    PROVE  TypeOK' /\ AvailInv'
<1> USE VersionsAssumption
    DEF TypeOK, AvailInv, Stored, NoCreds, None, Starting, Serving, table, reload, Defined
<1>1. CASE Scan
    BY <1>1 DEF Scan
<1>2. CASE ReadFile
    BY <1>2, EmptyAssumption DEF ReadFile
<1>3. CASE ReadDone
    BY <1>3 DEF ReadDone
<1>4. CASE WriteSock
    <2>1. PICK u \in todo : Upsert(u, status = "generate" \/ u \notin usedMark)
        BY <1>4 DEF WriteSock
    <2>2. u \in Users /\ batch[u] # None
        BY <1>4, <2>1 DEF WriteSock, BatchInv
    <2> QED
        BY <1>4, <2>1, <2>2 DEF WriteSock, Upsert
<1>5. CASE Prune
    BY <1>5 DEF Prune
<1>6. CASE SyncHostPort
    BY <1>6 DEF SyncHostPort
<1>7. CASE InitFails
    BY <1>7 DEF InitFails
<1> QED
    BY <1>1, <1>2, <1>3, <1>4, <1>5, <1>6, <1>7

\* So does every other step.
LEMMA TypeOther ==
    ASSUME TypeOK, AvailInv, ReloadInv,
           \/ ReloadSelect \/ ReloadClear \/ ReloadInsert \/ ReloadDone
           \/ LeaseOut \/ LeaseBack \/ EditFile \/ Crash \/ Start
    PROVE  TypeOK' /\ AvailInv'
<1> USE VersionsAssumption
    DEF TypeOK, AvailInv, Stored, NoCreds, None, Starting, Serving, table, reload, Defined
<1>1. CASE ReloadSelect \/ ReloadClear \/ ReloadInsert \/ ReloadDone
    BY <1>1 DEF ReloadSelect, ReloadClear, ReloadInsert, ReloadDone
<1>2. CASE LeaseOut
    <2>1. PICK u \in avail : /\ avail' = avail \ {u}
                             /\ held' = held \cup {[user |-> u, pwd |-> row[u]]}
        BY <1>2 DEF LeaseOut
    <2>2. u \in Users /\ row[u] \in Versions
        BY <2>1
    <2> QED
        BY <1>2, <2>1, <2>2 DEF LeaseOut
<1>3. CASE LeaseBack
    BY <1>3 DEF LeaseBack
<1>4. CASE EditFile
    BY <1>4 DEF EditFile
<1>5. CASE Crash \/ Start
    BY <1>5 DEF Crash, Start
<1> QED
    BY <1>1, <1>2, <1>3, <1>4, <1>5

LEMMA MapStep == MapInv /\ [Next]_vars => MapInv'
<1> SUFFICES ASSUME MapInv, [Next]_vars PROVE MapInv'
    OBVIOUS
<1>1. TypeOK' /\ AvailInv'
    <2>1. CASE UNCHANGED vars
        BY <2>1 DEF MapInv, TypeOK, AvailInv, Defined, vars, table, reload
    <2> QED
        BY <2>1, TypeStart, TypeOther DEF MapInv, Next
<1> USE <1>1, VersionsAssumption
    DEF MapInv, TypeOK, Stored, NoCreds, None, Starting, Serving, table, reload,
        Defined, PhaseInv, BatchInv, ReloadInv, MapMatchesTable, Authenticate
<1>2. CASE Scan
    <2>1. CASE creds' = row
        BY <1>2, <2>1 DEF Scan
    <2>2. CASE UNCHANGED creds
        BY <1>2, <2>2 DEF Scan
    <2> QED
        BY <1>2, <2>1, <2>2 DEF Scan
<1>3. CASE ReadFile
    BY <1>3 DEF ReadFile
<1>4. CASE ReadDone
    BY <1>4 DEF ReadDone
<1>5. CASE WriteSock
    BY <1>5 DEF WriteSock, Upsert
<1>6. CASE Prune
    BY <1>6 DEF Prune
<1>7. CASE SyncHostPort
    BY <1>7 DEF SyncHostPort
<1>8. CASE InitFails
    BY <1>8 DEF InitFails
<1>9. CASE ReloadSelect
    BY <1>9 DEF ReloadSelect
<1>10. CASE ReloadClear
    BY <1>10 DEF ReloadClear
<1>11. CASE ReloadInsert
    BY <1>11 DEF ReloadInsert
<1>12. CASE ReloadDone
    BY <1>12 DEF ReloadDone
<1>13. CASE LeaseOut \/ LeaseBack
    BY <1>13 DEF LeaseOut, LeaseBack
<1>14. CASE EditFile
    BY <1>14 DEF EditFile
<1>15. CASE Crash
    BY <1>15 DEF Crash
<1>16. CASE Start
    BY <1>16 DEF Start
<1>17. CASE UNCHANGED vars
    BY <1>17 DEF vars
<1> QED
    BY <1>2, <1>3, <1>4, <1>5, <1>6, <1>7, <1>8, <1>9, <1>10, <1>11, <1>12, <1>13,
       <1>14, <1>15, <1>16, <1>17 DEF Next

\* Every variable keeps its type; only passwords are leased.
THEOREM TypeCorrect == Spec => []TypeOK
<1>1. MapInv => TypeOK
    BY DEF MapInv
<1> QED
    BY <1>1, MapInit, MapStep, PTL DEF Spec

\* The proxies accept no password but the one in the table, at every moment of
\* a start, migration or reload, under every fault, for every instance.
THEOREM MapMatchesTableCorrect == Spec => []MapMatchesTable
<1>1. MapInv => MapMatchesTable
    BY DEF MapInv
<1> QED
    BY <1>1, MapInit, MapStep, PTL DEF Spec

-----------------------------------------------------------------------------
(* Completeness of the map.                                                *)

LEMMA CompleteStep ==
    ASSUME "unreadable" \notin Faults
    PROVE  MapInv /\ FileInv /\ CompleteInv /\ [Next]_vars => FileInv' /\ CompleteInv'
<1> SUFFICES ASSUME MapInv, FileInv, CompleteInv, [Next]_vars
             PROVE  FileInv' /\ CompleteInv'
    OBVIOUS
<1> USE VersionsAssumption, EmptyAssumption
    DEF MapInv, TypeOK, Stored, NoCreds, None, Serving, Starting, table, reload,
        Defined, PhaseInv, BatchInv, ReloadInv, FileInv, OnlyEmpty, CompleteInv
<1>1. CASE Scan
    BY <1>1 DEF Scan
<1>2. CASE ReadFile
    <2>1. PICK v \in todo :
            /\ batch' = [batch EXCEPT ![v] = IF files[v] = Empty THEN None ELSE files[v]]
            /\ todo' = todo \ {v}
        BY <1>2 DEF ReadFile
    <2>2. UNCHANGED <<files, row, creds, status, rpc>> /\ status = "read"
        BY <1>2 DEF ReadFile
    <2>3. \A u \in Users : batch'[u] # None => files[u] \in Versions
        BY <2>1, <2>2
    <2>4. ASSUME NEW u \in Users, files[u] \in Versions, u \in todo \/ batch[u] # None
          PROVE  u \in todo' \/ batch'[u] # None
        BY <2>1, <2>4
    <2> QED
        BY <2>2, <2>3, <2>4
<1>3. CASE ReadDone
    BY <1>3 DEF ReadDone
<1>4. CASE WriteSock
    BY <1>4 DEF WriteSock, Upsert
<1>5. CASE Prune
    <2>1. row' = batch
        BY <1>5 DEF Prune
    <2> QED
        BY <1>5, <2>1 DEF Prune
<1>6. CASE SyncHostPort \/ InitFails
    BY <1>6 DEF SyncHostPort, InitFails
<1>7. CASE ReloadSelect \/ ReloadClear \/ ReloadInsert
    BY <1>7 DEF ReloadSelect, ReloadClear, ReloadInsert
<1>8. CASE ReloadDone
    <2>1. creds = row
        BY <1>8 DEF ReloadDone
    <2> QED
        BY <1>8, <2>1 DEF ReloadDone
<1>9. CASE LeaseOut \/ LeaseBack \/ Crash \/ Start
    BY <1>9 DEF LeaseOut, LeaseBack, Crash, Start
<1>10. CASE EditFile
    BY <1>10 DEF EditFile
<1>11. CASE UNCHANGED vars
    BY <1>11 DEF vars
<1> QED
    BY <1>1, <1>2, <1>3, <1>4, <1>5, <1>6, <1>7, <1>8, <1>9, <1>10, <1>11 DEF Next

\* Once start-up has succeeded, or a reload has repaired a failed one, every
\* row is accepted outside a reload, for every instance in which password files
\* that are there can be read.
THEOREM MapCompleteCorrect ==
    ASSUME "unreadable" \notin Faults
    PROVE  Spec => []MapComplete
<1>1. Init => FileInv /\ CompleteInv
    BY VersionsAssumption DEF Init, FileInv, OnlyEmpty, CompleteInv
<1>2. CompleteInv => MapComplete
    BY DEF CompleteInv, MapComplete, Authenticate, Defined
<1> QED
    BY <1>1, <1>2, MapInit, MapStep, CompleteStep, PTL DEF Spec

-----------------------------------------------------------------------------
(* Leases across restarts.                                                 *)

LEMMA RestartStep ==
    ASSUME "unreadable" \notin Faults
    PROVE  RestartInv /\ [Next]_vars => RestartInv'
<1> SUFFICES ASSUME RestartInv, [Next]_vars PROVE RestartInv'
    OBVIOUS
<1>1. MapInv'
    BY MapStep DEF RestartInv
<1> USE VersionsAssumption, EmptyAssumption
    DEF RestartInv, MapInv, TypeOK, Stored, NoCreds, None, Serving, Starting, table,
        reload, Defined, AvailInv, BatchInv, MigrateInv, FileRead, LeaseSurvivesRestart
<1>2. CASE Scan
    BY <1>1, <1>2 DEF Scan
<1>3. CASE ReadFile
    <2>1. PICK v \in todo :
            /\ batch' = [batch EXCEPT ![v] = IF files[v] = Empty THEN None ELSE files[v]]
            /\ todo' = todo \ {v}
        BY <1>3 DEF ReadFile
    <2>2. UNCHANGED <<files, held, row, avail, status>> /\ status = "read"
        BY <1>3 DEF ReadFile
    <2>3. files[v] = None \/ files[v] = Empty \/ batch'[v] = files[v]
        BY <2>1
    <2>4. ASSUME NEW u \in Users, u \notin todo', NEW g \in held,
                 g.user = u, batch'[u] # g.pwd
          PROVE  files[u] # g.pwd
        <3>1. g.pwd \in Nat \ {0}
            BY <2>4
        <3>2. CASE u = v
            BY <2>3, <2>4, <3>1, <3>2
        <3>3. CASE u # v
            BY <2>1, <2>2, <2>4, <3>3
        <3> QED
            BY <3>2, <3>3
    <2>5. MigrateInv'
        BY <2>2, <2>4
    <2> QED
        BY <1>1, <2>2, <2>5
<1>4. CASE ReadDone
    BY <1>1, <1>4 DEF ReadDone
<1>5. CASE WriteSock
    <2>1. PICK u \in todo : Upsert(u, status = "generate" \/ u \notin usedMark)
        BY <1>5 DEF WriteSock
    <2>2. MigrateInv'
        BY <1>5 DEF WriteSock
    <2>3. ASSUME NEW g \in held
          PROVE  \/ row'[g.user] = g.pwd /\ g.user \notin avail'
                 \/ Defined(files) # {} /\ files[g.user] # g.pwd
        <3>1. status = "migrate" /\ g.user \in Users /\ g.pwd \in Versions
            BY <1>5, <2>3 DEF WriteSock
        <3>2. CASE g.user # u
            BY <2>1, <2>3, <3>1, <3>2 DEF Upsert
        <3>3. CASE g.user = u /\ batch[u] = g.pwd
            BY <2>1, <2>3, <3>1, <3>3 DEF Upsert
        <3>4. CASE g.user = u /\ batch[u] # g.pwd
            BY <2>3, <3>1, <3>4
        <3> QED
            BY <3>2, <3>3, <3>4
    <2>4. UNCHANGED <<files, held>>
        BY <1>5 DEF WriteSock
    <2> QED
        BY <1>1, <2>2, <2>3, <2>4
<1>6. CASE Prune
    <2>1. MigrateInv'
        BY <1>6 DEF Prune
    <2>2. ASSUME NEW g \in held
          PROVE  \/ row'[g.user] = g.pwd /\ g.user \notin avail'
                 \/ Defined(files) # {} /\ files[g.user] # g.pwd
        <3>1. status = "migrate" /\ g.user \in Users /\ g.pwd \in Versions
            BY <1>6, <2>2 DEF Prune
        <3>2. CASE batch[g.user] = g.pwd
            BY <1>6, <2>2, <3>1, <3>2 DEF Prune
        <3>3. CASE batch[g.user] # g.pwd
            BY <2>2, <3>1, <3>3
        <3> QED
            BY <3>2, <3>3
    <2>3. UNCHANGED <<files, held>>
        BY <1>6 DEF Prune
    <2> QED
        BY <1>1, <2>1, <2>2, <2>3
<1>7. CASE SyncHostPort \/ InitFails
    BY <1>1, <1>7 DEF SyncHostPort, InitFails
<1>8. CASE ReloadSelect \/ ReloadClear \/ ReloadInsert \/ ReloadDone
    BY <1>1, <1>8 DEF ReloadSelect, ReloadClear, ReloadInsert, ReloadDone
<1>9. CASE LeaseOut
    <2>1. PICK u \in avail : /\ avail' = avail \ {u}
                             /\ held' = held \cup {[user |-> u, pwd |-> row[u]]}
        BY <1>9 DEF LeaseOut
    <2>2. UNCHANGED <<files, row, status>> /\ status \in Serving
        BY <1>9 DEF LeaseOut
    <2> QED
        BY <1>1, <2>1, <2>2
<1>10. CASE LeaseBack
    <2>1. PICK g \in held :
            /\ held' = held \ {g}
            /\ avail' = IF row[g.user] = g.pwd THEN avail \cup {g.user} ELSE avail
        BY <1>10 DEF LeaseBack
    <2>2. UNCHANGED <<files, row, status>> /\ status \in Serving
        BY <1>10 DEF LeaseBack
    <2>3. \A f \in held : f.user = g.user /\ f.pwd = g.pwd => f = g
        BY <2>1
    <2> QED
        BY <1>1, <2>1, <2>2, <2>3
<1>11. CASE EditFile
    BY <1>1, <1>11 DEF EditFile
<1>12. CASE Crash \/ Start
    BY <1>1, <1>12 DEF Crash, Start
<1>13. CASE UNCHANGED vars
    BY <1>1, <1>13 DEF vars
<1> QED
    BY <1>2, <1>3, <1>4, <1>5, <1>6, <1>7, <1>8, <1>9, <1>10, <1>11, <1>12, <1>13
       DEF Next

\* A lease keeps its row and password through crashes, failed and interrupted
\* starts and migrations, unless a password file now says something else, for
\* every instance in which password files that are there can be read.
THEOREM LeaseSurvivesRestartCorrect ==
    ASSUME "unreadable" \notin Faults
    PROVE  Spec => []LeaseSurvivesRestart
<1>1. Init => RestartInv
    BY MapInit DEF Init, RestartInv, MigrateInv, FileRead, LeaseSurvivesRestart
<1>2. RestartInv => LeaseSurvivesRestart
    BY DEF RestartInv
<1> QED
    BY <1>1, <1>2, RestartStep, PTL DEF Spec

-----------------------------------------------------------------------------
(* Addresses.                                                              *)

\* After a successful start every row names the address the process listens
\* on, for every instance and under every fault.
THEOREM AddressCurrentCorrect == Spec => []AddressCurrent
<1>1. Init => AddressCurrent
    BY DEF Init, AddressCurrent
<1>2. MapInv /\ AddressCurrent /\ [Next]_vars => AddressCurrent'
    BY DEF MapInv, TypeOK, AddressCurrent, Next, Defined, Scan, ReadFile, ReadDone,
           WriteSock, Prune, SyncHostPort, InitFails, ReloadSelect, ReloadClear,
           ReloadInsert, ReloadDone, LeaseOut, LeaseBack, EditFile, Crash, Start,
           vars, table, reload
<1> QED
    BY <1>1, <1>2, MapInit, MapStep, PTL DEF Spec
=============================================================================
