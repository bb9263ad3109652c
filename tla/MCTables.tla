---------------------------------- MODULE MCTables ----------------------------------
(***************************************************************************)
(* A small instance of Tables: two secrets, two instances of their         *)
(* service, two names.  The scripts of arrays are also checked by          *)
(* themselves, on all arrays of three items or fewer, repeated ones too.   *)
(***************************************************************************)
EXTENDS Tables

Short == UNION {[1 .. n -> {"a", "b", "c"}] : n \in 0 .. 3}

\* What a reader of a script makes of it: the deleted items leave, the added
\* ones come to their places in order.
Replay(old, script) ==
  LET deleted == {script[k].index : k \in {j \in DOMAIN script : script[j].status = "deleted"}}
      kept == SelectSeq([i \in DOMAIN old |-> i], LAMBDA i : i \notin deleted)
      added == SelectSeq(script, LAMBDA entry : entry.status = "added")
  IN FoldLeft(LAMBDA acc, entry : InsertAt(acc, entry.index, entry.value), [k \in DOMAIN kept |-> old[kept[k]]], added)

\* The script tells of both contents, leads from the old ones to the new, and
\* says what moved.
Leads(script, old, new) ==
  Tells(script, old, new) /\ MovesPair(script) /\ NoMoveMissed(script) /\ Replay(old, script) = new

\* A script that compareArrays finds, or that is known of an operation, leads
\* from the old contents to the new ones (knockout-debug.js, compareArrays
\* and cacheDiffForKnownOperation).
ASSUME ScriptsFound == \A old, new \in Short : Leads(CompareArrays(old, new), old, new)

ASSUME ScriptsKnown ==
  \A old \in Short :
    /\ \A v \in {"a", "d"} : /\ Leads(PushDiff(old, <<v>>), old, Append(old, v))
                             /\ Leads(UnshiftDiff(<<v>>), old, <<v>> \o old)
    /\ old # <<>> => Leads(PopDiff(old), old, Front(old)) /\ Leads(ShiftDiff(old), old, Tail(old))
    /\ \A start \in 1 .. Len(old) + 1, count \in 0 .. 3, args \in {<<>>, <<"a">>, <<"d", "b">>} :
         Leads(SpliceDiff(old, start, count, args), old, Spliced(old, start, count, args))

\* A script that tells of the old contents fits no other new ones.
ASSUME ScriptsDecide ==
  \A old, new, other \in Short : Tells(CompareArrays(old, new), old, other) => other = new

\* Rows that follow a script are those of the new contents, in their order in
\* the document, and one whose item stays is the same row, moved or not
\* (knockout-debug.js, setDomNodeChildrenFromArrayMapping).
OldRows(old) == [i \in DOMAIN old |-> <<i, old[i]>>]

ASSUME RowsFollow ==
  \A old \in Short : \A new \in {a \in Short : Cardinality(ToSet(a)) = Len(a)} :
    LET result == ApplyScript(OldRows(old), CompareArrays(old, new), Len(new))
        dom == Rearranged(OldRows(old), result, [v \in {"a", "b", "c"} |-> <<0, v>>])
    IN /\ [i \in DOMAIN dom |-> dom[i][2]] = new
       /\ \A i \in DOMAIN dom : (dom[i][1] = 0) <=> new[i] \notin ToSet(old)

=============================================================================
