---------------------------- MODULE MCHttpStack ----------------------------
(***************************************************************************)
(* Two clients share an address: one sends an access token, which expires, *)
(* and sets the request id itself, the other sends no token.               *)
(***************************************************************************)
EXTENDS HttpStack, TLC

CONSTANTS access, address

MCTokens == {access}
MCAddresses == {address}
MCKeys == {access, address}
MCAccessTokens == {access}
MCExpiry == [t \in MCAccessTokens |-> 1]    \* in the middle of the first window
MCBuckets == {1}

Made(path, token, sent) == [path |-> path, token |-> token, address |-> address, sent |-> sent]

MCTraffic == {Made("exempt", access, "trace"), Made("guarded", access, "trace"),
              Made("open", NULL, NULL)}

Symmetry == Permutations(Requests)
=============================================================================
