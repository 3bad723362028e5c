--------------------------- MODULE SettingsProofs ---------------------------
(***************************************************************************)
(* Proofs about Settings, for every number of requests, all values and     *)
(* every file an operator may have left: types; that the sessions accepted *)
(* are those of the password in force; that updates take effect; and that  *)
(* tokens of a fixed secret survive restarts.                              *)
(***************************************************************************)
EXTENDS Settings, WellFoundedInduction, TLAPS

TextLine == [key : Keys, val : Written, off : BOOLEAN]

\* A non-empty set of naturals with a bound has a greatest element.
LEMMA GreatestNatural ==
    ASSUME NEW n \in Nat, NEW S \in SUBSET (1 .. n), S # {}
    PROVE  \E i \in S : \A j \in S : j <= i
<1> DEFINE T == {n - i : i \in S}
<1>1. T \subseteq Nat /\ T # {}
    <2>1. PICK i \in S : TRUE
        OBVIOUS
    <2>2. n - i \in T
        OBVIOUS
    <2> QED
        BY <2>2
<1>2. PICK t \in T : \A u \in T : <<u, t>> \notin OpToRel(<, Nat)
    BY <1>1, NatLessThanWellFounded, WFMin, Zenon
<1>3. \A u \in T : u < t => <<u, t>> \in OpToRel(<, Nat)
    BY <1>1 DEF OpToRel
<1>4. \A u \in T : ~(u < t)
    BY <1>2, <1>3, Zenon
<1>5. PICK i \in S : t = n - i
    OBVIOUS
<1>6. \A j \in S : n - j \in T
    OBVIOUS
<1>7. \A j \in S : ~(n - j < n - i)
    BY <1>4, <1>5, <1>6
<1> QED
    BY <1>7

\* The lines of a key that set it, and what the last of them sets.
Lines(lines, k) == {i \in Readable(lines) : lines[i].key = k /\ ~lines[i].off}
LastOf(S) == CHOOSE i \in S : \A j \in S : j <= i

LEMMA LastOfIsIn ==
    ASSUME NEW n \in Nat, NEW S \in SUBSET (1 .. n), S # {}
    PROVE  LastOf(S) \in S
BY GreatestNatural DEF LastOf

LEMMA LoadEnvValue ==
    ASSUME NEW lines \in Seq(TextLine), NEW e \in [Keys -> Written \cup {Unset}],
           NEW k \in Keys
    PROVE  /\ Lines(lines, k) \subseteq 1 .. Len(lines)
           /\ LoadEnv(lines, e)[k] = IF Lines(lines, k) = {} THEN e[k]
                                     ELSE lines[LastOf(Lines(lines, k))].val
           /\ LoadEnv(lines, e)[k] \in Written \cup {Unset}
           /\ Lines(lines, k) # {} => LoadEnv(lines, e)[k] \in Written
<1>1. Lines(lines, k) \subseteq 1 .. Len(lines)
    BY DEF Lines, Readable
<1>2. LoadEnv(lines, e)[k] = IF Lines(lines, k) = {} THEN e[k]
                             ELSE lines[LastOf(Lines(lines, k))].val
    BY DEF LoadEnv, Lines, LastOf
<1>3. ASSUME Lines(lines, k) # {}
      PROVE  lines[LastOf(Lines(lines, k))].val \in Written
    <2>1. Len(lines) \in Nat
        OBVIOUS
    <2>2. LastOf(Lines(lines, k)) \in 1 .. Len(lines)
        BY <1>1, <1>3, <2>1, LastOfIsIn
    <2>3. lines[LastOf(Lines(lines, k))] \in TextLine
        BY <2>2
    <2> QED
        BY <2>3 DEF TextLine
<1> QED
    BY <1>1, <1>2, <1>3

LEMMA LoadEnvTypes ==
    ASSUME NEW lines \in Seq(TextLine), NEW e \in [Keys -> Written \cup {Unset}]
    PROVE  LoadEnv(lines, e) \in [Keys -> Written \cup {Unset}]
<1>1. \A k \in Keys : LoadEnv(lines, e)[k] \in Written \cup {Unset}
    BY LoadEnvValue
<1>2. LoadEnv(lines, e) = [k \in Keys |-> LoadEnv(lines, e)[k]]
    BY DEF LoadEnv
<1> QED
    BY <1>1, <1>2

LEMMA EditTypes ==
    ASSUME NEW lines \in Seq(TextLine), NEW k \in Keys, NEW v \in Written
    PROVE  Edit(lines, k, v) \in Seq(TextLine)
<1>1. On(k, v) \in TextLine
    BY DEF On, TextLine
<1>2. CASE \E i \in 1 .. Len(lines) : lines[i].key = k
    <2>1. Edit(lines, k, v) = [i \in 1 .. Len(lines) |->
                                 IF lines[i].key = k THEN On(k, v) ELSE lines[i]]
        BY <1>2 DEF Edit
    <2> QED
        BY <1>1, <2>1
<1>3. CASE ~\E i \in 1 .. Len(lines) : lines[i].key = k
    BY <1>1, <1>3 DEF Edit
<1> QED
    BY <1>2, <1>3

\* update_env_value sets its key and no other, in a file dotenvy reads to its
\* end: wherever the key's lines are, however many and commented out or not.
LEMMA EditSetsKeyOnly ==
    ASSUME Unparsable \notin Written,
           NEW lines \in Seq(TextLine), NEW k \in Keys, NEW v \in Written,
           NEW e \in [Keys -> Written \cup {Unset}], NEW j \in Keys
    PROVE  LoadEnv(Edit(lines, k, v), e)[j] =
             IF j = k THEN v ELSE LoadEnv(lines, e)[j]
<1> DEFINE new == Edit(lines, k, v)
           n == Len(lines)
<1> n \in Nat
    OBVIOUS
<1>1. new \in Seq(TextLine)
    BY EditTypes
<1>2. \A s \in Seq(TextLine) :
        Lines(s, j) = {i \in 1 .. Len(s) : s[i].key = j /\ ~s[i].off}
    <2>1. ASSUME NEW s \in Seq(TextLine)
          PROVE  Readable(s) = 1 .. Len(s)
        <3>1. \A i \in 1 .. Len(s) : s[i].val # Unparsable
            <4>1. ASSUME NEW i \in 1 .. Len(s)
                  PROVE  s[i] \in TextLine
                OBVIOUS
            <4>2. \A l \in TextLine : l.val # Unparsable
                BY DEF TextLine
            <4> QED
                BY <4>1, <4>2
        <3>2. \A i \in 1 .. Len(s) : 1 .. i \subseteq 1 .. Len(s)
            OBVIOUS
        <3> QED
            BY <3>1, <3>2 DEF Readable
    <2> QED
        BY <2>1 DEF Lines
<1>3. On(k, v).key = k /\ On(k, v).val = v /\ On(k, v).off = FALSE
    BY DEF On
<1> DEFINE old == Lines(lines, j)
<1>4. /\ old \subseteq 1 .. n
      /\ old # {} => LastOf(old) \in old
    BY LoadEnvValue, LastOfIsIn
<1>5. /\ Len(new) \in Nat
      /\ Lines(new, j) \subseteq 1 .. Len(new)
      /\ Lines(new, j) # {} => LastOf(Lines(new, j)) \in Lines(new, j)
    <2> HIDE DEF new
    <2>1. Len(new) \in Nat
        BY <1>1
    <2>2. Lines(new, j) \subseteq 1 .. Len(new)
        BY <1>1, LoadEnvValue
    <2> QED
        BY <2>1, <2>2, LastOfIsIn
<1>6. Lines(new, j) = {i \in 1 .. Len(new) : new[i].key = j /\ ~new[i].off}
    <2> HIDE DEF new
    <2> QED
        BY <1>1, <1>2, Zenon
<1>7. old = {i \in 1 .. n : lines[i].key = j /\ ~lines[i].off}
    BY <1>2
<1>8. ASSUME j # k, Lines(new, j) = old, \A i \in old : new[i] = lines[i]
      PROVE  LoadEnv(new, e)[j] = LoadEnv(lines, e)[j]
    BY <1>1, <1>4, <1>8, LoadEnvValue
<1>9. ASSUME Lines(new, j) # {}, \A i \in Lines(new, j) : new[i].val = v
      PROVE  LoadEnv(new, e)[j] = v
    BY <1>1, <1>5, <1>9, LoadEnvValue
<1>10. CASE \E i \in 1 .. n : lines[i].key = k
    <2>1. new = [i \in 1 .. n |-> IF lines[i].key = k THEN On(k, v) ELSE lines[i]]
        BY <1>10 DEF Edit
    <2> HIDE DEF new
    <2>2. Len(new) = n
        BY <2>1
    <2>3. \A i \in 1 .. n : new[i] = IF lines[i].key = k THEN On(k, v) ELSE lines[i]
        BY <2>1
    <2>4. CASE j # k
        <3>1. \A i \in 1 .. n : new[i].key = j <=> lines[i].key = j
            BY <1>3, <2>3, <2>4
        <3>2. \A i \in 1 .. n : lines[i].key = j => new[i] = lines[i]
            BY <2>3, <2>4
        <3>3. Lines(new, j) = old
            BY <1>6, <1>7, <2>2, <3>1, <3>2
        <3>4. \A i \in old : new[i] = lines[i]
            BY <1>7, <3>2
        <3> QED
            BY <1>8, <2>4, <3>3, <3>4 DEF new
    <2>5. CASE j = k
        <3>1. \A i \in 1 .. n : lines[i].key = k => new[i] = On(k, v)
            BY <2>3
        <3>2. \A i \in 1 .. n : lines[i].key # k => new[i].key # k
            BY <2>3
        <3>3. \A i \in Lines(new, j) : new[i].val = v
            BY <1>3, <1>6, <2>2, <2>5, <3>1, <3>2
        <3>4. Lines(new, j) # {}
            BY <1>3, <1>6, <1>10, <2>2, <2>5, <3>1
        <3> QED
            BY <1>9, <2>5, <3>3, <3>4 DEF new
    <2> QED
        BY <2>4, <2>5
<1>11. CASE ~\E i \in 1 .. n : lines[i].key = k
    <2>1. new = Append(lines, On(k, v)) /\ On(k, v) \in TextLine
        BY <1>11 DEF Edit, On, TextLine
    <2> HIDE DEF new
    <2>2. /\ Len(new) = n + 1 /\ new[n + 1] = On(k, v)
          /\ \A i \in 1 .. n : new[i] = lines[i]
        BY <2>1
    <2>3. CASE j # k
        <3>1. Lines(new, j) = old
            BY <1>3, <1>6, <1>7, <2>2, <2>3
        <3>2. \A i \in old : new[i] = lines[i]
            BY <1>4, <2>2
        <3> QED
            BY <1>8, <2>3, <3>1, <3>2 DEF new
    <2>4. CASE j = k
        <3>1. n + 1 \in Lines(new, j)
            BY <1>3, <1>6, <2>2, <2>4
        <3>2. \A i \in Lines(new, j) : i = n + 1
            BY <1>6, <1>11, <2>2, <2>4
        <3> QED
            BY <1>3, <1>9, <2>2, <2>4, <3>1, <3>2 DEF new
    <2> QED
        BY <2>3, <2>4
<1> QED
    BY <1>10, <1>11

\* A request that is not finished handles one of its fields.
LEMMA CurrentIsField ==
    ASSUME NEW h \in Handlers, todo[h] \in Fields, todo[h] # NoFields
    PROVE  Current(h) \in DOMAIN todo[h]
<1>1. PICK S \in SUBSET (Keys \ SecretKeys) : todo[h] \in [S -> Setting]
    BY DEF Fields
<1>2. S # {}
    BY <1>1 DEF NoFields
<1>3. \E k \in S : k \in Ports => S \subseteq Ports
    BY <1>2
<1> QED
    BY <1>1, <1>3 DEF Current

-----------------------------------------------------------------------------
(* Types.  What the file, the environment and a request's body hold was    *)
(* written by somebody: it is never a secret that is yet to be drawn.      *)

TextInv ==
    /\ TypeOK
    /\ file = NoFile \/ file \in Seq(TextLine)
    /\ content \in [Handlers -> Seq(TextLine)]
    /\ env \in [Keys -> Written \cup {Unset}]
    /\ \A h \in Handlers : \A k \in DOMAIN todo[h] : todo[h][k] \in Written
    /\ \A h \in Handlers : pc[h] \in {"truncate", "write"} => todo[h] # NoFields

LEMMA WrittenIsText ==
    /\ Written \subseteq Setting \ {Unset}
    /\ Written \cap Generated = {}
    /\ Submitted \cup {Zero} \subseteq Written
    /\ "unparsable" \notin Faults => Unparsable \notin Written
BY ValuesAssumption DEF Written, Setting, Submitted

LEMMA TextLineIsLine == Seq(TextLine) \subseteq Seq(Line)
<1>1. TextLine \subseteq Line
    BY WrittenIsText DEF TextLine, Line
<1> SUFFICES ASSUME NEW s \in Seq(TextLine) PROVE s \in Seq(Line)
    OBVIOUS
<1>2. \A i \in 1 .. Len(s) : s[i] \in Line
    BY <1>1
<1> QED
    BY <1>2

\* What a start makes of the file, and of the environment it is given.
LEMMA StartEffect ==
    ASSUME TextInv, NEW e \in [Keys -> Written \cup {Unset}], Start(e)
    PROVE  \E g \in Fresh, ok \in BOOLEAN :
             LET lines == IF file = NoFile THEN Template ELSE file
                 loaded == FetchRemoteDefaults(LoadEnv(lines, e), ok)
             IN  /\ file' = lines /\ lines \in Seq(TextLine)
                 /\ env' = loaded /\ loaded \in [Keys -> Written \cup {Unset}]
                 /\ conf' = Parse(loaded, g)
                 /\ conf' \in [Keys -> Setting \ {Unset}]
                 /\ fetched' = ok /\ up' = TRUE
<1>1. PICK g \in Fresh, ok \in BOOLEAN :
        LET lines == IF file = NoFile THEN Template ELSE file
            loaded == FetchRemoteDefaults(LoadEnv(lines, e), ok)
        IN  /\ file' = lines /\ env' = loaded /\ conf' = Parse(loaded, g)
            /\ fetched' = ok /\ up' = TRUE
    BY Zenon DEF Start
<1> DEFINE lines == IF file = NoFile THEN Template ELSE file
           read == LoadEnv(lines, e)
           loaded == FetchRemoteDefaults(read, ok)
<1>2. Template \in Seq(TextLine)
    BY DEF Template, TextLine, On, Off, Keys, RemoteKeys, Ports, SecretKeys, Written
<1>3. lines \in Seq(TextLine)
    BY <1>2 DEF TextInv
<1> HIDE DEF lines
<1>4. read \in [Keys -> Written \cup {Unset}]
    BY <1>3, LoadEnvTypes
<1> HIDE DEF read
<1>5. loaded \in [Keys -> Written \cup {Unset}]
    BY <1>4 DEF FetchRemoteDefaults, Written
<1> HIDE DEF loaded
<1>6. g \in Setting /\ g # Unset /\ {Empty, Default} \subseteq Setting \ {Unset}
    BY ValuesAssumption DEF Fresh, Setting
<1>7. Parse(loaded, g) \in [Keys -> Setting \ {Unset}]
    <2>1. ASSUME NEW k \in Keys
          PROVE  Parse(loaded, g)[k] \in Setting \ {Unset}
        BY <1>5, <1>6, WrittenIsText DEF Parse
    <2>2. Parse(loaded, g) = [k \in Keys |-> Parse(loaded, g)[k]]
        BY DEF Parse
    <2> QED
        BY <2>1, <2>2
<1>8. /\ file' = lines /\ env' = loaded /\ conf' = Parse(loaded, g)
      /\ fetched' = ok /\ up' = TRUE
    BY <1>1 DEF lines, read, loaded
<1> QED
    BY <1>3, <1>5, <1>7, <1>8 DEF lines, read, loaded

LEMMA CleanTypes == Clean \in [Keys -> Written \cup {Unset}]
BY DEF Clean

LEMMA BootEffect ==
    ASSUME TextInv, Boot
    PROVE  \E e \in [Keys -> Written \cup {Unset}] : Start(e)
BY CleanTypes DEF TextInv, Boot

LEMMA TextInit == Init => TextInv
<1> SUFFICES ASSUME Init PROVE TextInv
    OBVIOUS
<1>1. file = NoFile \/ file \in Seq(TextLine)
    BY FilesAssumption DEF Init, TextLine
<1>2. NoFields \in Fields /\ DOMAIN NoFields = {}
    <2>1. NoFields \in [{} -> Setting]
        BY DEF NoFields
    <2> QED
        BY <2>1 DEF Fields, NoFields
<1>3. <<>> \in Seq(TextLine) /\ <<>> \in Seq(Line)
    OBVIOUS
<1>4. Default \in Setting \ {Unset} /\ Unset \in Setting
    BY ValuesAssumption DEF Setting
<1>5. file = NoFile \/ file \in Seq(Line)
    BY <1>1, TextLineIsLine
<1>6. env \in [Keys -> Setting] /\ acked \in [Keys -> Setting]
      /\ conf \in [Keys -> Setting \ {Unset}]
    BY <1>4 DEF Init, Clean
<1>7. /\ pc \in [Handlers -> {"idle", "next", "truncate", "write"}]
      /\ todo \in [Handlers -> Fields] /\ content \in [Handlers -> Seq(Line)]
    BY <1>2, <1>3 DEF Init
<1>8. /\ up \in BOOLEAN /\ fetched \in BOOLEAN /\ count \in 0 .. MaxUpdates
      /\ sessions \subseteq [key : Setting, pass : Setting] /\ tokens \subseteq Setting
    <2>1. up = FALSE /\ fetched = FALSE /\ count = 0 /\ sessions = {} /\ tokens = {}
        BY DEF Init
    <2>2. MaxUpdates \in Nat
        BY BoundsAssumption
    <2>3. count \in 0 .. MaxUpdates
        BY <2>1, <2>2
    <2> QED
        BY <2>1, <2>3, Zenon
<1>9. TypeOK
    BY <1>5, <1>6, <1>7, <1>8 DEF TypeOK
<1> QED
    BY <1>1, <1>2, <1>3, <1>9 DEF Init, TextInv, Clean

LEMMA WithoutTypes ==
    ASSUME NEW f \in Fields, \A x \in DOMAIN f : f[x] \in Written, NEW k
    PROVE  /\ Without(f, k) \in Fields
           /\ \A x \in DOMAIN Without(f, k) : Without(f, k)[x] \in Written
<1>1. PICK S \in SUBSET (Keys \ SecretKeys) : f \in [S -> Setting]
    BY DEF Fields
<1>2. Without(f, k) \in [S \ {k} -> Setting]
    BY <1>1 DEF Without
<1>3. S \ {k} \in SUBSET (Keys \ SecretKeys)
    OBVIOUS
<1>4. Without(f, k) \in Fields
    BY <1>2, <1>3, Zenon DEF Fields
<1> QED
    BY <1>1, <1>4 DEF Without

\* A step of an update request, up to its write, keeps TextInv.
LEMMA TextRequest ==
    ASSUME TextInv, NEW h \in Handlers,
           BeginUpdate(h) \/ ReadEnv(h) \/ FieldFails(h) \/ Truncate(h) \/ Respond(h)
    PROVE  TextInv'
<1> USE TextLineIsLine DEF TextInv, TypeOK
<1>1. CASE BeginUpdate(h)
    <2>1. PICK b \in Bodies : todo' = [todo EXCEPT ![h] = b]
        BY <1>1 DEF BeginUpdate
    <2>2. PICK S \in SUBSET (Keys \ SecretKeys) : b \in [S -> Submitted \cup {Zero}]
        BY DEF Bodies, Keys, SecretKeys, RemoteKeys, Ports
    <2>3. b \in [S -> Setting] /\ \A k \in DOMAIN b : b[k] \in Written
        BY <2>2, WrittenIsText
    <2>4. b \in Fields
        BY <2>3 DEF Fields
    <2>5. count + 1 \in 0 .. MaxUpdates
        BY <1>1, BoundsAssumption DEF BeginUpdate
    <2>6. UNCHANGED <<file, env, conf, up, content, acked, sessions, tokens, fetched>>
          /\ pc' = [pc EXCEPT ![h] = "next"] /\ count' = count + 1
        BY <1>1 DEF BeginUpdate
    <2> QED
        BY <2>1, <2>3, <2>4, <2>5, <2>6
<1>2. CASE ReadEnv(h)
    BY <1>2 DEF ReadEnv
<1>3. CASE FieldFails(h)
    <2>1. Without(todo[h], Current(h)) \in Fields
          /\ \A k \in DOMAIN Without(todo[h], Current(h)) :
               Without(todo[h], Current(h))[k] \in Written
        BY WithoutTypes
    <2> QED
        BY <1>3, <2>1 DEF FieldFails
<1>4. CASE Truncate(h)
    BY <1>4 DEF Truncate
<1>5. CASE Respond(h)
    BY <1>5 DEF Respond
<1> QED
    BY <1>1, <1>2, <1>3, <1>4, <1>5

\* WriteEnv writes what Edit makes of what was read.
LEMMA WriteEffect ==
    ASSUME TextInv, NEW h \in Handlers, WriteEnv(h)
    PROVE  LET k == Current(h)
               v == todo[h][k]
           IN  /\ k \in Keys \ SecretKeys /\ v \in Written
               /\ file' = Edit(content[h], k, v) /\ file' \in Seq(TextLine)
               /\ acked' = [acked EXCEPT ![k] = v]
               /\ todo' = [todo EXCEPT ![h] = Without(todo[h], k)]
               /\ Without(todo[h], k) \in Fields
               /\ \A x \in DOMAIN Without(todo[h], k) : Without(todo[h], k)[x] \in Written
<1> DEFINE k == Current(h)
           v == todo[h][k]
<1>1. todo[h] \in Fields /\ todo[h] # NoFields /\ content[h] \in Seq(TextLine)
      /\ DOMAIN todo = Handlers
    BY DEF TextInv, TypeOK, WriteEnv
<1>2. k \in DOMAIN todo[h]
    BY <1>1, CurrentIsField
<1>3. DOMAIN todo[h] \subseteq Keys \ SecretKeys
    BY <1>1 DEF Fields
<1>4. v \in Written
    BY <1>2 DEF TextInv
<1>5. file' = Edit(content[h], k, v) /\ acked' = [acked EXCEPT ![k] = v]
      /\ todo' = [todo EXCEPT ![h] = Without(todo[h], k)]
    BY <1>1 DEF WriteEnv
<1>6. Edit(content[h], k, v) \in Seq(TextLine)
    BY <1>1, <1>2, <1>3, <1>4, EditTypes
<1>7. Without(todo[h], k) \in Fields
      /\ \A x \in DOMAIN Without(todo[h], k) : Without(todo[h], k)[x] \in Written
    BY <1>1, WithoutTypes DEF TextInv
<1> QED
    BY <1>2, <1>3, <1>4, <1>5, <1>6, <1>7

LEMMA TextWrite ==
    ASSUME TextInv, NEW h \in Handlers, WriteEnv(h)
    PROVE  TextInv'
<1>1. /\ UNCHANGED <<env, conf, up, count, sessions, tokens, fetched>>
      /\ content' = [content EXCEPT ![h] = <<>>] /\ pc' = [pc EXCEPT ![h] = "next"]
    BY DEF WriteEnv
<1>2. <<>> \in Seq(TextLine) /\ <<>> \in Seq(Line)
    OBVIOUS
<1> DEFINE k == Current(h)
           v == todo[h][k]
           rest == Without(todo[h], k)
<1>3. /\ k \in Keys /\ v \in Written /\ file' \in Seq(TextLine)
      /\ acked' = [acked EXCEPT ![k] = v]
      /\ todo' = [todo EXCEPT ![h] = rest]
      /\ rest \in Fields /\ \A x \in DOMAIN rest : rest[x] \in Written
    BY WriteEffect
<1>4. v \in Setting /\ file' \in Seq(Line)
    BY <1>3, WrittenIsText, TextLineIsLine
<1> HIDE DEF k, v, rest
<1>5. TypeOK'
    BY <1>1, <1>2, <1>3, <1>4 DEF TextInv, TypeOK
<1> QED
    BY <1>1, <1>2, <1>3, <1>5 DEF TextInv, TypeOK

LEMMA TextOther ==
    ASSUME TextInv,
           Boot \/ Exit \/ DeleteFile \/ Login \/ SessionExpires \/ SignToken
    PROVE  TextInv'
<1> USE TextLineIsLine DEF TextInv, TypeOK
<1>1. CASE Boot
    <2>1. PICK e \in [Keys -> Written \cup {Unset}] : Start(e)
        BY <1>1, BootEffect
    <2>2. /\ file' \in Seq(TextLine) /\ env' \in [Keys -> Written \cup {Unset}]
          /\ conf' \in [Keys -> Setting \ {Unset}]
          /\ fetched' \in BOOLEAN /\ up' = TRUE
        BY <2>1, StartEffect, Zenon
    <2>3. env' \in [Keys -> Setting]
        BY <2>2, WrittenIsText DEF Setting
    <2>4. UNCHANGED <<count, request, acked, sessions, tokens>>
        BY <1>1 DEF Boot
    <2>5. /\ fetched' \in BOOLEAN /\ up' \in BOOLEAN
        BY <2>2, Zenon
    <2> QED
        BY <2>2, <2>3, <2>4, <2>5 DEF request
<1>2. CASE Exit
    <2>1. NoFields \in Fields /\ DOMAIN NoFields = {}
        <3>1. NoFields \in [{} -> Setting]
            BY DEF NoFields
        <3> QED
            BY <3>1 DEF Fields, NoFields
    <2>2. /\ pc' = [x \in Handlers |-> "idle"] /\ todo' = [x \in Handlers |-> NoFields]
          /\ content' = [x \in Handlers |-> <<>>]
          /\ UNCHANGED <<file, env, conf, count, acked, sessions, tokens, fetched>>
        BY <1>2 DEF Exit
    <2>3. up' \in BOOLEAN
        BY <1>2, Zenon DEF Exit
    <2> QED
        BY <2>1, <2>2, <2>3
<1>3. CASE DeleteFile
    BY <1>3 DEF DeleteFile, request, Clean, Setting
<1>4. CASE Login
    <2>1. conf["JWT_SECRET"] \in Setting /\ conf["LOGIN_PASSWORD"] \in Setting
        BY DEF Keys, SecretKeys
    <2> QED
        BY <1>4, <2>1 DEF Login, request
<1>5. CASE SessionExpires
    BY <1>5 DEF SessionExpires, request
<1>6. CASE SignToken
    <2>1. conf["LEASE_TOKEN_SECRET"] \in Setting
        BY DEF Keys, SecretKeys
    <2> QED
        BY <1>6, <2>1 DEF SignToken, request
<1> QED
    BY <1>1, <1>2, <1>3, <1>4, <1>5, <1>6

LEMMA TextStep == TextInv /\ [Next]_vars => TextInv'
<1> SUFFICES ASSUME TextInv, [Next]_vars PROVE TextInv'
    OBVIOUS
<1>1. CASE Next
    BY <1>1, TextRequest, TextWrite, TextOther DEF Next
<1>2. CASE UNCHANGED vars
    BY <1>2 DEF vars, request, TextInv, TypeOK
<1> QED
    BY <1>1, <1>2

\* Every variable keeps its type: an update never touches a secret's line, and
\* the configuration leaves no setting without a value.
THEOREM TypeCorrect == Spec => []TypeOK
<1>1. TextInv => TypeOK
    BY DEF TextInv
<1> QED
    BY <1>1, TextInit, TextStep, PTL DEF Spec

-----------------------------------------------------------------------------
(* Sessions.                                                               *)

SessionInv == TextInv /\ SessionMatchesPassword

\* A generated secret was drawn by this start: no session has it yet.
LEMMA SessionBoot ==
    ASSUME TextInv, Boot
    PROVE  SessionMatchesPassword'
<1>1. PICK e \in [Keys -> Written \cup {Unset}] : Start(e)
    BY BootEffect
<1>2. PICK g \in Fresh, loaded \in [Keys -> Written \cup {Unset}] :
        conf' = Parse(loaded, g)
    BY <1>1, StartEffect, Zenon
<1>3. "JWT_SECRET" \in Keys /\ "JWT_SECRET" \in SecretKeys
    BY DEF Keys, SecretKeys
<1>4. conf'["JWT_SECRET"] = g \/ conf'["JWT_SECRET"] \in Written \cup {Unset}
    BY <1>2, <1>3 DEF Parse
<1>5. conf'["JWT_SECRET"] \in Generated => conf'["JWT_SECRET"] = g
    BY <1>4, WrittenIsText, ValuesAssumption
<1>6. \A s \in sessions : s.key # g
    BY DEF Fresh
<1>7. sessions' = sessions
    BY DEF Boot
<1> QED
    BY <1>5, <1>6, <1>7 DEF SessionMatchesPassword, Accepts

LEMMA SessionStep == SessionInv /\ [Next]_vars => SessionInv'
<1> SUFFICES ASSUME SessionInv, [Next]_vars PROVE SessionInv'
    OBVIOUS
<1>1. TextInv'
    BY TextStep DEF SessionInv
<1>2. CASE Boot
    BY <1>1, <1>2, SessionBoot DEF SessionInv
<1>3. CASE Login \/ SessionExpires
    BY <1>1, <1>3 DEF SessionInv, SessionMatchesPassword, Accepts, Login, SessionExpires
<1>4. CASE Exit
    BY <1>1, <1>4 DEF SessionInv, SessionMatchesPassword, Exit
<1>5. CASE ~(Boot \/ Login \/ SessionExpires \/ Exit)
    <2>1. UNCHANGED <<conf, up, sessions>>
        BY <1>5 DEF Next, BeginUpdate, ReadEnv, FieldFails, Truncate, WriteEnv,
                    Respond, DeleteFile, SignToken, vars
    <2> QED
        BY <1>1, <2>1 DEF SessionInv, SessionMatchesPassword, Accepts
<1> QED
    BY <1>2, <1>3, <1>4, <1>5

\* A JWT is accepted only while the password it was given for is in force,
\* whatever is edited, torn or unreadable, unless the operator fixes
\* JWT_SECRET.
THEOREM SessionMatchesPasswordCorrect == Spec => []SessionMatchesPassword
<1>1. Init => SessionInv
    BY TextInit DEF Init, SessionInv, SessionMatchesPassword
<1>2. SessionInv => SessionMatchesPassword
    BY DEF SessionInv
<1> QED
    BY <1>1, <1>2, SessionStep, PTL DEF Spec

-----------------------------------------------------------------------------
(* Updates and lease tokens.  Between an update and the next start its     *)
(* value is in the file, or in what the only request that edits has read:  *)
(* the invariant follows the text through read, truncation and write.      *)

Secret == "LEASE_TOKEN_SECRET"

\* The text sets what was reported as updated, and the secret of the tokens.
Keeps(lines) ==
    /\ \A k \in Keys : acked[k] # Unset => LoadEnv(lines, Clean)[k] = acked[k]
    /\ \A t \in tokens : LoadEnv(lines, Clean)[Secret] = t

Alone ==
    \A h, x \in Handlers : pc[h] # "idle" /\ pc[x] # "idle" => h = x
Quiet == ~up => \A h \in Handlers : pc[h] = "idle"
FileKeeps ==
    (\A h \in Handlers : pc[h] # "write") =>
        IF file = NoFile THEN acked = Clean /\ tokens = {} ELSE Keeps(file)
ReadKeeps ==
    \A h \in Handlers :
        /\ pc[h] = "truncate" => file \in {NoFile, content[h]}
        /\ pc[h] = "write" => file = <<>> /\ Keeps(content[h])
SecretInv ==
    /\ \A k \in SecretKeys : acked[k] = Unset
    /\ up => conf[Secret] # Empty
    /\ tokens \cap {Unset, Empty} = {}

SourceInv ==
    /\ TextInv
    /\ Alone /\ Quiet /\ FileKeeps /\ ReadKeeps /\ SecretInv
    /\ FixedTokensSurvive

LEMMA EmptyFileSetsNothing ==
    ASSUME NEW k \in Keys
    PROVE  LoadEnv(<<>>, Clean)[k] = Unset
<1>1. <<>> \in Seq(TextLine) /\ Len(<<>>) = 0
    OBVIOUS
<1>2. Lines(<<>>, k) = {}
    <2>1. Readable(<<>>) = {}
        BY <1>1 DEF Readable
    <2> QED
        BY <2>1 DEF Lines
<1> QED
    BY <1>1, <1>2, LoadEnvValue, CleanTypes DEF Clean

\* What the file sets is in the environment of a start, whatever it inherits,
\* unless the remote defaults replace it.
LEMMA StartTakes ==
    ASSUME TextInv, NEW e \in [Keys -> Written \cup {Unset}], Start(e),
           file # NoFile, NEW k \in Keys, NEW v, v # Unset,
           LoadEnv(file, Clean)[k] = v
    PROVE  ~(fetched' /\ k \in RemoteKeys) /\ (k \in SecretKeys => v # Empty)
             => conf'[k] = v
<1>1. PICK g \in Fresh, ok \in BOOLEAN :
        /\ conf' = Parse(FetchRemoteDefaults(LoadEnv(file, e), ok), g)
        /\ fetched' = ok
    BY StartEffect, Zenon
<1>2. file \in Seq(TextLine)
    BY DEF TextInv
<1>3. LoadEnv(file, e)[k] = v
    BY <1>2, LoadEnvValue, CleanTypes DEF Clean
<1>4. ~(ok /\ k \in RemoteKeys) => FetchRemoteDefaults(LoadEnv(file, e), ok)[k] = v
    BY <1>3 DEF FetchRemoteDefaults
<1> QED
    BY <1>1, <1>4 DEF Parse

LEMMA SourceInit == Init => SourceInv
<1> SUFFICES ASSUME Init PROVE SourceInv
    OBVIOUS
<1>1. TextInv
    BY TextInit
<1>2. Keeps(file)
    BY DEF Init, Keeps, Clean
<1>3. \A k \in SecretKeys : acked[k] = Unset
    BY DEF Init, Clean, Keys
<1> QED
    BY <1>1, <1>2, <1>3
       DEF Init, SourceInv, Alone, Quiet, FileKeeps, ReadKeeps, SecretInv,
           FixedTokensSurvive

LEMMA SourceBoot ==
    ASSUME SourceInv, Boot, TextInv'
    PROVE  SourceInv'
<1>1. PICK e \in [Keys -> Written \cup {Unset}] : Start(e)
    BY BootEffect DEF SourceInv
<1>2. UNCHANGED <<count, request, acked, sessions, tokens>> /\ ~up
    BY DEF Boot
<1>3. \A h \in Handlers : pc[h] = "idle" /\ pc'[h] = "idle"
    BY <1>2 DEF SourceInv, Quiet, request
<1>4. IF file = NoFile THEN acked = Clean /\ tokens = {} ELSE Keeps(file)
    BY <1>3 DEF SourceInv, FileKeeps
<1>5. file' = (IF file = NoFile THEN Template ELSE file) /\ file' \in Seq(TextLine)
    BY <1>1, StartEffect, Zenon DEF SourceInv
<1>6. file' # NoFile
    BY <1>5, TextLineIsLine, NoFileAssumption
<1>7. Keeps(file)'
    BY <1>2, <1>4, <1>5 DEF Keeps, Clean
<1>8. Secret \in Keys /\ Secret \in SecretKeys /\ Secret \notin RemoteKeys
    BY DEF Secret, Keys, SecretKeys, RemoteKeys
<1>9. conf'[Secret] # Empty
    <2>1. PICK g \in Fresh, loaded \in [Keys -> Written \cup {Unset}] :
            conf' = Parse(loaded, g)
        BY <1>1, StartEffect, Zenon DEF SourceInv
    <2>2. g # Empty
        BY ValuesAssumption DEF Fresh
    <2> QED
        BY <1>8, <2>1, <2>2 DEF Parse
<1>10. \A t \in tokens : conf'[Secret] = t
    <2> SUFFICES ASSUME NEW t \in tokens PROVE conf'[Secret] = t
        OBVIOUS
    <2>1. t # Unset /\ t # Empty
        BY DEF SourceInv, SecretInv
    <2>2. file # NoFile /\ LoadEnv(file, Clean)[Secret] = t
        BY <1>4 DEF Keeps
    <2> QED
        BY <1>1, <1>8, <2>1, <2>2, StartTakes DEF SourceInv
<1> QED
    BY <1>2, <1>3, <1>6, <1>7, <1>9, <1>10
       DEF SourceInv, Alone, Quiet, FileKeeps, ReadKeeps, SecretInv,
           FixedTokensSurvive, Secret

LEMMA SourceWrite ==
    ASSUME SourceInv, NEW h \in Handlers, WriteEnv(h), TextInv',
           "unparsable" \notin Faults
    PROVE  SourceInv'
<1> DEFINE k == Current(h)
           v == todo[h][k]
<1>1. /\ k \in Keys \ SecretKeys /\ v \in Written
      /\ file' = Edit(content[h], k, v) /\ file' \in Seq(TextLine)
      /\ acked' = [acked EXCEPT ![k] = v]
    BY WriteEffect DEF SourceInv
<1> HIDE DEF k, v
<1>2. /\ pc[h] = "write" /\ pc' = [pc EXCEPT ![h] = "next"]
      /\ UNCHANGED <<env, conf, up, count, sessions, tokens, fetched>>
    BY DEF WriteEnv
<1>3. Keeps(content[h]) /\ content[h] \in Seq(TextLine)
    BY <1>2 DEF SourceInv, ReadKeeps, TextInv
<1>4. \A j \in Keys : LoadEnv(file', Clean)[j] =
                        IF j = k THEN v ELSE LoadEnv(content[h], Clean)[j]
    BY <1>1, <1>3, EditSetsKeyOnly, WrittenIsText, CleanTypes
<1>5. Secret \in Keys /\ Secret # k
    BY <1>1 DEF Secret, Keys, SecretKeys
<1>6. acked \in [Keys -> Setting]
    BY DEF SourceInv, TextInv, TypeOK
<1>7. Keeps(file)'
    BY <1>1, <1>2, <1>3, <1>4, <1>5, <1>6 DEF Keeps, Clean
<1>8. file' # NoFile
    BY <1>1, TextLineIsLine, NoFileAssumption
<1>9. \A x \in Handlers : pc'[x] # "write" /\ pc'[x] # "truncate"
    BY <1>2 DEF SourceInv, Alone, TextInv, TypeOK
<1>10. Alone' /\ Quiet'
    BY <1>2 DEF SourceInv, Alone, Quiet, TextInv, TypeOK
<1>11. SecretInv' /\ FixedTokensSurvive'
    BY <1>1, <1>2, <1>6 DEF SourceInv, SecretInv, FixedTokensSurvive, Keys
<1> QED
    BY <1>7, <1>8, <1>9, <1>10, <1>11 DEF SourceInv, FileKeeps, ReadKeeps

\* The other steps of an update request.
LEMMA SourceRequest ==
    ASSUME SourceInv, NEW h \in Handlers, TextInv', "overlap" \notin Faults,
           BeginUpdate(h) \/ ReadEnv(h) \/ FieldFails(h) \/ Truncate(h) \/ Respond(h)
    PROVE  SourceInv'
<1> USE DEF SourceInv
<1>1. UNCHANGED <<conf, up, acked, tokens>>
    BY DEF BeginUpdate, ReadEnv, FieldFails, Truncate, Respond
<1>2. SecretInv' /\ FixedTokensSurvive'
    BY <1>1 DEF SecretInv, FixedTokensSurvive
<1>3. \A s : Keeps(s) => Keeps(s)'
    BY <1>1 DEF Keeps, Clean
<1>4. pc \in [Handlers -> {"idle", "next", "truncate", "write"}]
      /\ DOMAIN content = Handlers
    BY DEF TextInv, TypeOK
<1>5. CASE BeginUpdate(h) \/ FieldFails(h) \/ Respond(h)
    <2>1. /\ UNCHANGED <<file, content>>
          /\ pc[h] \in {"idle", "next"}
          /\ pc' = pc \/ pc' = [pc EXCEPT ![h] = "next"] \/ pc' = [pc EXCEPT ![h] = "idle"]
          /\ pc[h] = "idle" => up /\ \A x \in Handlers : pc[x] = "idle"
        BY <1>5 DEF BeginUpdate, FieldFails, Respond
    <2> QED
        BY <1>1, <1>2, <1>3, <1>4, <2>1 DEF Alone, Quiet, FileKeeps, ReadKeeps, Keeps, Clean
<1>6. CASE ReadEnv(h)
    <2>1. /\ pc[h] = "next" /\ pc' = [pc EXCEPT ![h] = "truncate"]
          /\ content' = [content EXCEPT ![h] = file] /\ UNCHANGED file
        BY <1>6 DEF ReadEnv
    <2> QED
        BY <1>1, <1>2, <1>3, <1>4, <2>1 DEF Alone, Quiet, FileKeeps, ReadKeeps, Keeps, Clean
<1>7. CASE Truncate(h)
    <2>1. /\ pc[h] = "truncate" /\ pc' = [pc EXCEPT ![h] = "write"]
          /\ file' = <<>> /\ UNCHANGED content
        BY <1>7 DEF Truncate
    <2>2. \A x \in Handlers : pc[x] # "write" /\ (x # h => pc[x] = "idle")
        BY <1>4, <2>1 DEF Alone
    <2>3. Keeps(content[h])
        BY <2>1, <2>2 DEF FileKeeps, ReadKeeps, Keeps, Clean
    <2>4. Keeps(content[h])'
        BY <1>1, <2>1, <2>3 DEF Keeps, Clean
    <2> QED
        BY <1>1, <1>2, <1>4, <2>1, <2>2, <2>4 DEF Alone, Quiet, FileKeeps, ReadKeeps
<1> QED
    BY <1>5, <1>6, <1>7

LEMMA SourceOther ==
    ASSUME SourceInv, TextInv', "torn" \notin Faults,
           Exit \/ DeleteFile \/ Login \/ SessionExpires \/ SignToken
    PROVE  SourceInv'
<1> USE DEF SourceInv
<1>1. CASE Exit
    <2>1. /\ \A h \in Handlers : pc[h] # "write" /\ pc'[h] = "idle"
          /\ ~up' /\ UNCHANGED <<file, acked, tokens>>
        BY <1>1 DEF Exit
    <2> QED
        BY <2>1 DEF Alone, Quiet, FileKeeps, ReadKeeps, SecretInv,
                    FixedTokensSurvive, Keeps, Clean
<1>2. CASE DeleteFile
    <2>1. /\ \A h \in Handlers : pc[h] # "write"
          /\ file' = NoFile /\ acked' = Clean /\ tokens' = {}
          /\ UNCHANGED <<conf, up, pc, content>>
        BY <1>2 DEF DeleteFile, request
    <2> QED
        BY <2>1 DEF Alone, Quiet, FileKeeps, ReadKeeps, SecretInv,
                    FixedTokensSurvive, Clean, Keys
<1>3. CASE Login \/ SessionExpires
    <2>1. UNCHANGED <<file, conf, up, pc, content, acked, tokens>>
        BY <1>3 DEF Login, SessionExpires, request
    <2> QED
        BY <2>1 DEF Alone, Quiet, FileKeeps, ReadKeeps, SecretInv,
                    FixedTokensSurvive, Keeps, Clean
<1>4. CASE SignToken
    <2>1. /\ up /\ file # NoFile /\ conf[Secret] = LoadEnv(file, Clean)[Secret]
          /\ tokens' = tokens \cup {conf[Secret]}
          /\ UNCHANGED <<file, conf, up, pc, content, acked>>
        BY <1>4 DEF SignToken, request, Secret
    <2>2. Secret \in Keys /\ conf[Secret] # Unset /\ conf[Secret] # Empty
        BY <2>1 DEF Secret, Keys, SecretKeys, TextInv, TypeOK, SecretInv
    <2>3. file # <<>>
        BY <2>1, <2>2, EmptyFileSetsNothing
    <2>4. \A h \in Handlers : pc[h] # "write"
        BY <2>3 DEF ReadKeeps
    <2>5. Keeps(file)'
        BY <2>1, <2>4 DEF FileKeeps, Keeps, Clean
    <2>6. SecretInv' /\ FixedTokensSurvive'
        BY <2>1, <2>2 DEF SecretInv, FixedTokensSurvive, Secret
    <2> QED
        BY <2>1, <2>4, <2>5, <2>6 DEF Alone, Quiet, FileKeeps, ReadKeeps
<1> QED
    BY <1>1, <1>2, <1>3, <1>4

LEMMA SourceStep ==
    ASSUME Faults = {}
    PROVE  SourceInv /\ [Next]_vars => SourceInv'
<1> SUFFICES ASSUME SourceInv, [Next]_vars PROVE SourceInv'
    OBVIOUS
<1>1. TextInv'
    BY TextStep DEF SourceInv
<1>2. CASE Next
    BY <1>1, <1>2, SourceBoot, SourceWrite, SourceRequest, SourceOther DEF Next
<1>3. CASE UNCHANGED vars
    <2>1. UNCHANGED <<file, conf, up, pc, content, acked, tokens>>
        BY <1>3 DEF vars, request
    <2> QED
        BY <1>1, <2>1 DEF SourceInv, Alone, Quiet, FileKeeps, ReadKeeps,
                          SecretInv, FixedTokensSurvive, Keeps, Clean
<1> QED
    BY <1>2, <1>3

\* A lease token signed under a secret that .env fixes stays valid: no edit of
\* another setting loses the secret's line, and every start reads it back, when
\* edits neither overlap nor are torn and every value can be parsed.
THEOREM FixedTokensSurviveCorrect ==
    ASSUME Faults = {}
    PROVE  Spec => []FixedTokensSurvive
<1>1. SourceInv => FixedTokensSurvive
    BY DEF SourceInv
<1> QED
    BY <1>1, SourceInit, SourceStep, PTL DEF Spec

\* What a request reported as updated is in force after the next start, however
\* the worker is started and for every file the operator left.
THEOREM UpdatesTakeEffectCorrect ==
    ASSUME Faults = {}
    PROVE  Spec => UpdatesTakeEffect
<1> DEFINE TakeEffect ==
        ~up /\ up' =>
            \A k \in Keys : acked[k] # Unset /\ ~(fetched' /\ k \in RemoteKeys) =>
                conf'[k] = acked[k]
<1>1. SourceInv /\ [Next]_vars => TakeEffect
    <2> SUFFICES ASSUME SourceInv, [Next]_vars, ~up, up', NEW k \in Keys,
                        acked[k] # Unset, ~(fetched' /\ k \in RemoteKeys)
                 PROVE  conf'[k] = acked[k]
        BY Zenon
    <2>1. Boot
        <3>1. ~Boot => up' = up \/ ~up'
            BY DEF Next, BeginUpdate, ReadEnv, FieldFails, Truncate, WriteEnv,
                   Respond, Exit, DeleteFile, Login, SessionExpires, SignToken, vars
        <3> QED
            BY <3>1
    <2>2. PICK e \in [Keys -> Written \cup {Unset}] : Start(e)
        BY <2>1, BootEffect DEF SourceInv
    <2>3. \A h \in Handlers : pc[h] = "idle"
        BY DEF SourceInv, Quiet
    <2>4. file # NoFile /\ LoadEnv(file, Clean)[k] = acked[k]
        BY <2>3 DEF SourceInv, FileKeeps, Keeps, Clean
    <2>5. k \notin SecretKeys
        BY DEF SourceInv, SecretInv
    <2> QED
        BY <2>2, <2>4, <2>5, StartTakes DEF SourceInv
<1> QED
    BY <1>1, SourceInit, SourceStep, PTL DEF Spec, UpdatesTakeEffect
=============================================================================
