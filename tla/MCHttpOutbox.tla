---------------------------- MODULE MCHttpOutbox ----------------------------
(* Values of the HttpOutbox constants for TLC. *)
EXTENDS HttpOutbox

Rejecting == {"RejectNewest"}
NoHint    == {0}
SomeBase  == <<1, Slash>>

\* The longest path there is and one longer; a compact body that cannot be expanded.
LongPath(n) == [i \in 1..n |-> IF i = 1 THEN Slash ELSE 1]
AllRequests == {
    [encoding |-> Raw, path |-> LongPath(Limit16 - 1), body |-> <<0, 2>>],
    [encoding |-> Raw, path |-> LongPath(Limit16), body |-> <<>>],
    [encoding |-> Compact, path |-> <<1>>, body |-> <<2>>],
    [encoding |-> Compact, path |-> <<>>, body |-> <<0>>]}
BadBodies == {<<0>>}

\* A record of the first envelope version, and bytes behind a request.
OldRequest == [encoding |-> Raw, path |-> <<Slash, 1>>, body |-> <<1, 0>>]
OldBytes   == EncodeV1(OldRequest)
OldRecords == {[bytes |-> OldBytes, request |-> OldRequest],
               [bytes |-> Append(OldBytes, 0), request |-> None]}

Heard(s)   == [error |-> FALSE, status |-> s, hint |-> 0]
AllAnswers == {Heard(s) : s \in {200, 299, 404, 408, 429, 500, 501}}
              \cup {[error |-> TRUE, status |-> s, hint |-> 0] : s \in {0, 200}}
=============================================================================
