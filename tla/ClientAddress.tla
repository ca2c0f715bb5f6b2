---------------------------- MODULE ClientAddress ----------------------------
(***************************************************************************)
(* The address a request is counted under (internal/api/ip.go): that of    *)
(* the peer, or the last one of a header when the administrator has named  *)
(* the header or the peer is a proxy inside the network.                   *)
(*                                                                         *)
(* A header is a sequence of lines and a line one of entries: what a       *)
(* client has sent comes first, and what each proxy has added after it.    *)
(***************************************************************************)
EXTENDS Naturals, Sequences

CONSTANTS
    Address,        \* addresses that parse
    Inside,         \* private, loopback and link-local ones
    Blank,          \* an entry without text
    NoAddress       \* what does not parse

ASSUME AddressAssumption ==
    Inside \subseteq Address /\ Blank \notin Address /\ NoAddress \notin Address

\* rightmostIP: the last entry that has text counts, if it parses.
Entries(line)     == {i \in DOMAIN line : line[i] # Blank}
LastEntry(line)   == CHOOSE i \in Entries(line) : \A j \in Entries(line) : j <= i
RightmostIP(line) ==
    IF Entries(line) # {} /\ line[LastEntry(line)] \in Address
    THEN line[LastEntry(line)]
    ELSE NoAddress

\* Header.Get: only the first line counts.
FirstLine(lines) == IF lines = <<>> THEN <<>> ELSE Head(lines)

\* clientIP, of the header that was named, or of X-Forwarded-For.
ClientIP(named, peer, lines) ==
    LET found == RightmostIP(FirstLine(lines))
    IN  IF (named \/ peer \in Inside) /\ found # NoAddress THEN found ELSE peer
=============================================================================
