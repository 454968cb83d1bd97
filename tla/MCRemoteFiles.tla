--------------------------- MODULE MCRemoteFiles ---------------------------
(* Instances of RemoteFiles: what the calls are.                           *)
EXTENDS RemoteFiles, TLC

CONSTANTS c1, c2, c3

(* Two calls that write, each in any way, and one that reads.  A write and an
   upload that may overwrite the file differ in nothing but their name.    *)
AnyTwo == [c \in Calls |-> IF c = c3 THEN {"read"} ELSE Kinds \ {"upload", "read"}]
OneReplace == [c \in Calls |-> {"replace"}]

(* Nothing but their name tells the two calls of AnyTwo apart.             *)
Symmetry == Permutations({c1, c2})
=============================================================================
