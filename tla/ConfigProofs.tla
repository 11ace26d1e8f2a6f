---------------------------- MODULE ConfigProofs ----------------------------
(***************************************************************************)
(* Config for every .env file and every environment.                       *)
(*                                                                         *)
(* Decided is inductive once it is known that no line's text is the        *)
(* absence of a text: a line that has assigned to a variable takes it away *)
(* from every later one.                                                   *)
(***************************************************************************)
EXTENDS Config, TLAPS

\* The part of TypeOK that Scan and Setenv rely on.
FileInv ==
  /\ environment \in [Keys -> Raws \union {Unset}]
  /\ file \in Seq(Lines)
  /\ line \in 1..Len(file) + 1
  /\ env \in [Keys -> Raws \union {Unset}]

\* Empty is a text, no text is Unset, and a line that names a key has a text.
LEMMA Texts ==
  /\ Empty \in Raws
  /\ Unset \notin Raws
  /\ \A l \in Lines : l.raw \in Raws
<1>1. Empty \in Raws
  BY DEF Empty, Raws
<1>2. Unset \notin Raws
  <2> SUFFICES ASSUME Unset \in Raws PROVE FALSE
    OBVIOUS
  <2>1. Unset.kind \in {"integer", "text", "empty"}
    BY DEF Raws
  <2> QED
    BY <2>1 DEF Unset
<1>3. \A l \in Lines : l.raw \in Raws
  BY <1>1 DEF Lines
<1> QED
  BY <1>1, <1>2, <1>3

LEMMA FileInit == ConfigAssumption /\ Init => FileInv
BY DEF ConfigAssumption, Init, FileInv

LEMMA FileStep == FileInv /\ [Load \/ Use]_vars => FileInv'
<1> SUFFICES ASSUME FileInv, [Load \/ Use]_vars PROVE FileInv'
  OBVIOUS
<1> USE DEF FileInv
<1>1. CASE ReadLine
  <2>1. line \in 1..Len(file) /\ file[line] \in Lines
    BY <1>1 DEF ReadLine
  <2>2. file[line].raw \in Raws
    BY <2>1, Texts
  <2> QED
    BY <1>1, <2>1, <2>2 DEF ReadLine
<1>2. CASE EndOfFile \/ Accept \/ Reject
  BY <1>2 DEF EndOfFile, Accept, Reject
<1>3. CASE Use
  BY <1>3, Texts DEF Use
<1>4. CASE UNCHANGED vars
  BY <1>4 DEF vars
<1> QED
  BY <1>1, <1>2, <1>3, <1>4 DEF Load

\* The line Scan has returned is the last of those of its key.
LEMMA NextLine ==
  ASSUME FileInv, ReadLine, NEW k \in Keys
  PROVE  LinesOf(k, line)' = LinesOf(k, line) \union (IF file[line].key = k THEN {line} ELSE {})
BY DEF FileInv, ReadLine, LinesOf

LEMMA DecidedStep ==
  ASSUME FileInv, [Load \/ Use]_vars, NEW k \in Keys, Decided(k)
  PROVE  Decided(k)'
<1>1. CASE ReadLine
  <2>1. /\ LinesOf(k, line)' = LinesOf(k, line) \union (IF file[line].key = k THEN {line} ELSE {})
        /\ LinesOf(k, line) \subseteq 1..line - 1
        /\ \A i \in LinesOf(k, line) : file[i].raw \in Raws
    BY <1>1, NextLine, Texts DEF LinesOf, FileInv
  <2>2. /\ environment' = environment /\ file' = file
        /\ env'[k] = IF file[line].key = k /\ env[k] = Unset THEN file[line].raw ELSE env[k]
        /\ line \in 1..Len(file)
    BY <1>1 DEF ReadLine, FileInv
  <2>3. CASE environment[k] # Unset
    BY <2>2, <2>3 DEF Decided
  <2>4. ASSUME environment[k] = Unset, NEW i \in LinesOf(k, line),
               \A j \in LinesOf(k, line) : i <= j, env[k] = file[i].raw
        PROVE  Decided(k)'
    <3>1. env[k] # Unset
      BY <2>1, <2>4, Texts
    <3>2. \A j \in LinesOf(k, line)' : i <= j
      BY <2>1, <2>2, <2>4
    <3> QED
      BY <2>1, <2>2, <2>4, <3>1, <3>2 DEF Decided
  <2>5. CASE environment[k] = Unset /\ LinesOf(k, line) = {} /\ env[k] = Unset
    <3>1. CASE file[line].key = k
      <4>1. LinesOf(k, line)' = {line} /\ env'[k] = file[line].raw
        BY <2>1, <2>2, <2>5, <3>1
      <4> QED
        BY <2>2, <2>5, <4>1 DEF Decided
    <3>2. CASE file[line].key # k
      BY <2>1, <2>2, <2>5, <3>2 DEF Decided
    <3> QED
      BY <3>1, <3>2
  <2> QED
    BY <2>3, <2>4, <2>5 DEF Decided
<1>2. CASE UNCHANGED <<environment, file, line, env>>
  BY <1>2 DEF Decided, LinesOf
<1>3. CASE EndOfFile \/ Accept \/ Reject \/ UNCHANGED vars
  BY <1>2, <1>3 DEF EndOfFile, Accept, Reject, vars
<1>4. CASE Use
  BY <1>4, Texts DEF Use, Decided
<1> QED
  BY <1>1, <1>3, <1>4 DEF Load

-----------------------------------------------------------------------------
\* Whatever .env and the environment hold, each variable is decided by the
\* environment if it has it, else by the first line that assigns to it, else
\* it stays unset.
THEOREM FirstDecides == ASSUME ConfigAssumption PROVE Spec => []Precedence
<1>1. Init => FileInv /\ Precedence
  BY FileInit, ConfigAssumption DEF Init, Precedence, Decided, LinesOf, ConfigAssumption
<1>2. FileInv /\ Precedence /\ [Load \/ Use]_vars => FileInv' /\ Precedence'
  BY FileStep, DecidedStep DEF Precedence
<1> QED
  BY <1>1, <1>2, PTL DEF Spec

-----------------------------------------------------------------------------
\* What Wrap returns is an integer, and so is what Load parses.
LEMMA ParsedInts ==
  ASSUME ConfigAssumption, FileInv
  PROVE  /\ \A key \in Keys, def \in Int : IntEnv(key, def) \in Int
         /\ Parsed \in [DOMAIN NoConfig -> Int]
<1>1. ASSUME NEW key \in Keys, NEW def \in Int PROVE IntEnv(key, def) \in Int
  <2>1. env[key] \in Raws \/ env[key] = Unset
    BY DEF FileInv
  <2> QED
    BY <2>1 DEF IntEnv, Raws, Unset
<1>2. ASSUME NEW n \in Int PROVE Wrap(n) \in Int
  <2>1. MaxInt \in Nat /\ 2 * MaxInt + 2 \in Nat \ {0}
    BY DEF ConfigAssumption
  <2>2. \A a \in Int, m \in Nat \ {0} : a % m \in Int
    OBVIOUS
  <2>3. (n + MaxInt + 1) % (2 * MaxInt + 2) \in Int
    BY <2>1, <2>2
  <2> QED
    BY <2>1, <2>3 DEF Wrap
<1>3. Second \in Int
  BY DEF ConfigAssumption
<1>4. ASSUME NEW key \in Keys, NEW def \in Int PROVE SecondsEnv(key, def) \in Int
  BY <1>1, <1>2, <1>3 DEF SecondsEnv
<1>k. /\ "PORT" \in Keys /\ "MAX_WORKERS" \in Keys /\ "DOMAIN_RPS" \in Keys
      /\ "CHECK_INTERVAL_SECONDS" \in Keys /\ "CHECK_TIMEOUT_SECONDS" \in Keys
  BY DEF Keys, IntKeys
<1>5. /\ IntEnv("PORT", 8080) \in Int
      /\ IntEnv("MAX_WORKERS", 64) \in Int
      /\ IntEnv("DOMAIN_RPS", 5) \in Int
  BY <1>1, <1>k
<1>6. SecondsEnv("CHECK_INTERVAL_SECONDS", 30) \in Int
  BY <1>4, <1>k
<1>7. SecondsEnv("CHECK_TIMEOUT_SECONDS", 10) \in Int
  BY <1>4, <1>k
<1>8. Parsed \in [DOMAIN NoConfig -> Int]
  BY <1>5, <1>6, <1>7 DEF Parsed, NoConfig
<1> QED
  BY <1>1, <1>8

\* The configuration Load returns is parsed from texts.
LoadedInv ==
  /\ stage \in {"dotenv", "read", "loaded", "rejected", "used"}
  /\ cfg \in [DOMAIN NoConfig -> Int]

LEMMA LoadedInit == Init => LoadedInv
BY DEF Init, LoadedInv, NoConfig

LEMMA LoadedStep ==
  ASSUME ConfigAssumption, FileInv, LoadedInv, [Load \/ Use]_vars
  PROVE  LoadedInv'
<1> USE DEF LoadedInv
<1>1. CASE ReadLine
  BY <1>1 DEF ReadLine
<1>2. CASE EndOfFile
  BY <1>2 DEF EndOfFile
<1>3. CASE Accept
  BY <1>3, ParsedInts DEF Accept, NoConfig
<1>4. CASE Reject
  BY <1>4 DEF Reject
<1>5. CASE Use
  BY <1>5 DEF Use, NoConfig
<1>6. CASE UNCHANGED vars
  BY <1>6 DEF vars
<1> QED
  BY <1>1, <1>2, <1>3, <1>4, <1>5, <1>6 DEF Load

\* Every field of a configuration is a number, whatever the texts are.
THEOREM TypeCorrect == ASSUME ConfigAssumption PROVE Spec => []TypeOK
<1>1. Init => FileInv /\ LoadedInv
  BY FileInit, LoadedInit, ConfigAssumption
<1>2. FileInv /\ LoadedInv /\ [Load \/ Use]_vars => FileInv' /\ LoadedInv'
  BY FileStep, LoadedStep, ConfigAssumption
<1>3. FileInv /\ LoadedInv => TypeOK
  BY DEF FileInv, LoadedInv, TypeOK
<1> QED
  BY <1>1, <1>2, <1>3, PTL DEF Spec
=============================================================================
