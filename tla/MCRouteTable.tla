---------------------------- MODULE MCRouteTable ----------------------------
(***************************************************************************)
(* An instance of RouteTable for TLC: addresses of two octets with two     *)
(* bits each.                                                              *)
(***************************************************************************)
EXTENDS RouteTable, TLC

CONSTANTS g1, g2

(* The addresses 2.0, 2.1, 2.3 and 1.1                                     *)
A20 == {<<0, 1>>}
A21 == {<<0, 1>>, <<1, 0>>}
A23 == {<<0, 1>>, <<1, 0>>, <<1, 1>>}
A11 == {<<0, 0>>, <<1, 0>>}

Slash(addr, len) == [addr |-> addr, slash |-> TRUE, len |-> len]

(* Prefixes of whole octets and of other lengths, one without a length,    *)
(* the default route, and what is refused.                                 *)
Texts == {Slash(A20, 2), Slash(A21, 4), Slash(A11, 4),
          [addr |-> A23, slash |-> FALSE, len |-> 0],
          Slash(A20, 3), Slash({}, 0),
          Slash(A20, 5), Slash(Bit, 2)}

(* The masks are those of the prefixes for the lengths of whole octets and *)
(* for no others, and the length shown for a mask is then the one given.   *)
ASSUME ExactForWholeOctets ==
  \A len \in Length :
    /\ Aligned(len) <=> Masks(len) = {NetworkBits(len)}
    /\ Aligned(len) => \A m \in Masks(len) : ops_fpa_ip4mask_to_prefix_len(m) = len

(* ops_fpa_ip4mask_to_prefix_len is right for the masks of all prefixes.   *)
ASSUME ShownForNetworkMasks ==
  \A len \in Length : ops_fpa_ip4mask_to_prefix_len(NetworkBits(len)) = len

GroupSymmetry == Permutations(Group)
=============================================================================
