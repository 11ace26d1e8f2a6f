------------------------------ MODULE MCServer ------------------------------
(***************************************************************************)
(* Small instances of Server for TLC.  A unit of time is five seconds.     *)
(* An int has 16 bits, and a second 1000 nanoseconds, so that 33 and more  *)
(* seconds overflow as 9223372037 and more do in the program.              *)
(***************************************************************************)
EXTENDS Server, TLC

CONSTANTS short, stream

MCRequests == {short, stream}
MCKind     == (short :> "short") @@ (stream :> "stream")

\* Config's raw values and keys, written out: the substitution of Files must
\* not refer to the instance it is made for.
MCRaw(kind, n) == [kind |-> kind, n |-> n]
MCText    == MCRaw("text", 0)
MCEmpty   == MCRaw("empty", 0)
MCInts(S) == {MCRaw("integer", n) : n \in S}
MCKeys    == {"PORT", "DATABASE_URL", "MAX_WORKERS", "CHECK_INTERVAL_SECONDS",
              "CHECK_TIMEOUT_SECONDS", "DOMAIN_RPS"}

MCRaws(k) ==
  {MCText, MCEmpty}
    \union (IF k = "DATABASE_URL" THEN {} ELSE MCInts({-66, 0, 1, 33, 66}))
    \union (IF k = "DOMAIN_RPS" THEN MCInts({1001}) ELSE {})

\* One variable of the environment is given a value, or none.
MCUnset == [k \in MCKeys |-> MCRaw("unset", 0)]
MCEnvironments ==
  LET url == [MCUnset EXCEPT !["DATABASE_URL"] = MCText] IN
  {MCUnset, url} \union UNION {{[url EXCEPT ![k] = v] : v \in MCRaws(k)} : k \in MCKeys}

\* Up to two lines, about the same variable or not.
MCLine(key, raw) == [key |-> key, raw |-> raw]
MCLines ==
  {MCLine("DATABASE_URL", MCText), MCLine("too long", MCEmpty), MCLine("skipped", MCEmpty)}
    \union {MCLine("CHECK_TIMEOUT_SECONDS", v) : v \in {MCText, MCEmpty} \union MCInts({1, 66})}
MCFiles == {<<>>} \union {<<l>> : l \in MCLines} \union {<<l, m>> : l, m \in MCLines}
=============================================================================
