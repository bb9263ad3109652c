--------------------------------- MODULE MCSite ---------------------------------
(***************************************************************************)
(* A small instance of Site: one address that marks the dashboard and one  *)
(* that marks nothing.  The pure functions of the site are compared with   *)
(* what they are for, on bounded inputs, by the assumptions below.         *)
(***************************************************************************)
EXTENDS Site

CONSTANT Null

Values == INSTANCE SiteValues

MCAddresses == {{}, {"/private"}}

\* Characters at the borders between the lengths of their encodings.
Texts ==
  UNION {[1..n -> {10, 13, 65, 127, 128, 2047, 2048, 65535}] : n \in 0..3}

\* Decoding what was encoded gives the text, but for the ends of its lines.
ASSUME Base64RoundTrip ==
  \A t \in Texts : Values!Base64Decode(Values!Base64Encode(t)) = Values!WithUnixLines(t)

\* A decoder gets what it can decode: digits in fours, "=" at the end only.
ASSUME Base64WellFormed ==
  \A t \in Texts :
    LET digits == Values!Base64Encode(t)
    IN /\ Len(digits) % 4 = 0
       /\ \A i \in DOMAIN digits : digits[i] \in 0..64 /\ (digits[i] = 64 => i > Len(digits) - 2)

\* A status with a bit other than deleteMessage has a description.
ASSUME StatusesDescribed ==
  \A mask \in 0..255 : Values!StatusDescription(mask) = <<>> <=> mask \in {0, 64}

\* Every number that the server sends for a type has a name of its own.
ASSUME TypesNamed ==
  /\ Cardinality({Values!ServiceTypeName(t) : t \in 0..8}) = 9
  /\ \A t \in 0..8 : Values!FindServiceType(t) \notin {Null, "Unknown"}
  /\ \A a \in 1..5 : Values!ActionName(a) # "Unknown"
  /\ \A e \in 0..3, p \in 1..2 : Values!EventName(e) # Null /\ Values!PurposeName(p) # "Unknown"

\* The selected page and the next one have an indicator, unless they are ends.
ASSUME SelectedPageVisible ==
  \A n \in 1..12 : \A s \in 0..(n - 1) : \A i \in {s, s + 1} \cap 1..(n - 2) :
    Values!PageVisible(i, n, s)

\* The first pair of a key is found whatever follows.
ASSUME FirstPairFound ==
  \A n \in 1..3 : \A pairs \in [1..n -> [key : {"a", "b"}, value : 1..2]] :
    Values!QueryString(pairs, pairs[1].key) = pairs[1].value

\* However a time span is typed, its fields stay in their ranges, and stand for
\* the seconds that were typed.
ASSUME TimeSpanTyped ==
  \A first \in {0, 59, 3599, 86399, 90061} : \A f \in {"hours", "minutes", "seconds"} :
    \A v \in {0, 23, 24, 59, 60, 1500, Null} :
      LET before == Values!TimeSpan(first)
          after == Values!Typed(before, f, v)
      IN /\ Values!TotalSeconds(before) = first
         /\ Values!TotalSeconds(after) = Values!TotalSeconds([before EXCEPT ![f] = v])
         /\ Values!Number(after.hours) <= 23
         /\ Values!Number(after.minutes) <= 59 /\ Values!Number(after.seconds) <= 59

\* No transaction is counted as both of two counts, unless its mask has both.
ASSUME PivotCounts ==
  \A masks \in [1..2 -> {1, 2, 2 + 64, 16, 32 + 64}] :
    LET p == Values!Pivot(masks) IN p.pending + p.done + p.retrying + p.err = p.total
=============================================================================
