-------------------------- MODULE AxonDenomTrace --------------------------
(***************************************************************************)
(* query_denom_trace of the Axon chain endpoint and the parser it calls,   *)
(* parse_denom_trace and extract_path_and_base_from_full_denom             *)
(* (crates/relayer/src/chain/axon.rs).  The transfer contract stores, for  *)
(* the hash of a voucher denom, its full path "port/channel/.../base"; the *)
(* relayer reads it back and splits it into the trace path and the base.   *)
(*                                                                         *)
(* Strings are sequences of characters over a small alphabet: "/" the      *)
(* separator, "c" the token "channel-" (the only text that starts_with    *)
(* tests), the digits "0" and "1", "+" (accepted by usize::from_str in    *)
(* front of the digits) and "a" for any other character.  usize::MAX is   *)
(* scaled down to MaxUsize so that a channel number can overflow.          *)
(***************************************************************************)
EXTENDS Naturals, Sequences, SequencesExt

CONSTANTS
    MaxUsize,      \* the largest value usize::from_str accepts
    MaxStored,     \* length bound on an arbitrary stored full path
    MaxBase,       \* length bound on the base denom of a voucher
    MaxHops,       \* bound on the number of port/channel hops of a voucher
    PortIds,       \* the port ids of the hops
    ChannelIds     \* the channel ids the chains hand out

Chars == {"/", "c", "0", "1", "+", "a"}
Digits == {"0", "1"}

VARIABLES
    full,     \* the full path the transfer contract stores for the hash
    origin,   \* ghost: the hops and base the contract encoded, or NoOrigin
    trace     \* what the last query_denom_trace returned

vars == <<full, origin, trace>>

NoOrigin == [hops |-> <<>>, base |-> <<"none">>]
NoTrace == [ok |-> FALSE, err |-> "none", path |-> <<>>, base |-> <<>>]

-----------------------------------------------------------------------------
(* str::split('/') and [&str]::join("/").                                  *)

\* split('/'): the separated pieces, one (empty) piece for "".
Split(s) ==
    FoldLeft(LAMBDA acc, ch : IF ch = "/"
                                THEN Append(acc, <<>>)
                                ELSE [acc EXCEPT ![Len(acc)] = Append(@, ch)],
             <<<<>>>>, s)

\* join("/"): the pieces with a separator between two neighbours.
JoinSlash(parts) ==
    IF parts = <<>> THEN <<>>
    ELSE FoldLeft(LAMBDA acc, p : acc \o <<"/">> \o p, Head(parts), Tail(parts))

\* The value of a digit string.
Value(ds) ==
    FoldLeft(LAMBDA v, d : 10 * v + (IF d = "1" THEN 1 ELSE 0), 0, ds)

\* usize::from_str: an optional "+", then one or more digits, no overflow.
ParseUsizeOk(s) ==
    LET ds == IF s # <<>> /\ Head(s) = "+" THEN Tail(s) ELSE s
    IN  /\ ds # <<>>
        /\ \A i \in 1..Len(ds) : ds[i] \in Digits
        /\ Value(ds) <= MaxUsize

\* is_valid_channel_id: starts with "channel-" and the rest parses.
IsValidChannelId(c) ==
    /\ c # <<>>
    /\ Head(c) = "c"
    /\ ParseUsizeOk(Tail(c))

ASSUME MaxUsizeAssumption == MaxUsize \in Nat
ASSUME ChannelIdsAssumption == \A c \in ChannelIds : IsValidChannelId(c)

-----------------------------------------------------------------------------
(* extract_path_and_base_from_full_denom(parts).                           *)

\* Mutant: tests the port of the pair instead of its channel.
ContinuesPathCheckingPort(parts, i) ==
    LET len == Len(parts)
    IN  i < len - 1 /\ len > 2 /\ IsValidChannelId(parts[i + 1])

\* The loop condition at the (0-based, even) index i: one more pair is
\* pushed on the path when parts[i + 1] is a channel id.
ContinuesPath(parts, i) ==
    LET len == Len(parts)
    IN  i < len - 1 /\ len > 2 /\ IsValidChannelId(parts[i + 2])

\* Mutant: the base loses the first piece after the path.
ExtractPathAndBaseSkipping(parts) ==
    LET len == Len(parts)
        stops == {i \in 0..(len - 1) : i % 2 = 0 /\ ~ContinuesPath(parts, i)}
        n == IF stops = {} THEN len ELSE Min(stops)
    IN  [path |-> JoinSlash(SubSeq(parts, 1, n)),
         base |-> JoinSlash(SubSeq(parts, n + 2, len))]

\* for i in (0..len).step_by(2): the pairs are pushed on path until the
\* first i that fails the condition, whose pieces parts[i..] make the base
\* (break); when no i fails, the base is empty.
ExtractPathAndBase(parts) ==
    LET len == Len(parts)
        stops == {i \in 0..(len - 1) : i % 2 = 0 /\ ~ContinuesPath(parts, i)}
        n == IF stops = {} THEN len ELSE Min(stops)
    IN  [path |-> JoinSlash(SubSeq(parts, 1, n)),
         base |-> JoinSlash(SubSeq(parts, n + 1, len))]

\* parse_denom_trace: a denom without "/" is its own base.
ParseDenomTrace(raw) ==
    LET parts == Split(raw)
    IN  IF parts[1] = raw THEN [path |-> <<>>, base |-> raw]
                          ELSE ExtractPathAndBase(parts)

-----------------------------------------------------------------------------
(* The transfer contract and the relayer.                                  *)

\* The full path of a voucher: each hop "port/channel", then the base.
Encode(hops, base) ==
    JoinSlash(FlattenSeq([i \in 1..Len(hops) |-> <<hops[i][1], hops[i][2]>>])
              \o <<base>>)

Hops == BoundedSeq(PortIds \X ChannelIds, MaxHops)
Bases == BoundedSeq(Chars, MaxBase) \ {<<>>}

\* What the contract may hold for a hash: the full path of a voucher it
\* minted, or any string at all (an unknown hash reads as "").
Init ==
    /\ \/ \E h \in Hops, b \in Bases :
            /\ full = Encode(h, b)
            /\ origin = [hops |-> h, base |-> b]
       \/ /\ full \in BoundedSeq(Chars, MaxStored)
          /\ origin = NoOrigin
    /\ trace = NoTrace

\* query_denom_trace(hash): H256::from_str of the hash, the
\* denom_traces(hash) call, the empty check, then parse_denom_trace.
QueryDenomTrace ==
    /\ \/ trace' = [NoTrace EXCEPT !.err = "invalid_hash"]
       \/ trace' = [NoTrace EXCEPT !.err = "query"]
       \/ /\ full = <<>>
          /\ trace' = [NoTrace EXCEPT !.err = "empty_denom_trace"]
       \/ /\ full # <<>>
          /\ LET dt == ParseDenomTrace(full)
             IN  trace' = [ok |-> TRUE, err |-> "none", path |-> dt.path,
                           base |-> dt.base]
    /\ UNCHANGED <<full, origin>>

Next == QueryDenomTrace

Spec == Init /\ [][Next]_vars

-----------------------------------------------------------------------------
(* Properties.                                                             *)

\* A base denom whose second piece reads as a channel id is taken for one
\* more hop by the parser (ibc-go makes the same split).
AmbiguousBase(b) ==
    LET ps == Split(b) IN Len(ps) >= 2 /\ IsValidChannelId(ps[2])

\* Spec section 8, round trip: the trace read back for the full path of a
\* voucher is the path and base the transfer contract encoded, for zero,
\* one or several hops and a base with or without "/", when the base does
\* not itself look like a hop.
RoundTrip ==
    (trace.ok /\ origin # NoOrigin /\ ~AmbiguousBase(origin.base)) =>
        /\ trace.path = JoinSlash(FlattenSeq([i \in 1..Len(origin.hops) |->
                                   <<origin.hops[i][1], origin.hops[i][2]>>]))
        /\ trace.base = origin.base

\* For every stored string, the trace denotes that string: its full denom
\* path (path "/" base, or the base alone for an empty path) is what the
\* contract stores for the hash, unless the parser left the base empty.
TraceDenotesStoredPath ==
    (trace.ok /\ trace.base # <<>>) =>
        full = IF trace.path = <<>> THEN trace.base
                                    ELSE trace.path \o <<"/">> \o trace.base

=============================================================================
