---------------------------- MODULE AdminHandover ----------------------------
(***************************************************************************)
(* What every contract of the platform promises about its administrator:   *)
(* the role is given once at initialisation and from then on only moves    *)
(* from its holder to an address the holder nominated, when that address   *)
(* itself accepts; a nomination serves at most once, and only the holder   *)
(* can make, replace or withdraw one.                                      *)
(***************************************************************************)
CONSTANTS Address,    \* the accounts and contracts that can sign
          NoAddress   \* the absent address (Rust: None), not in Address

VARIABLES admin,          \* holder of the role, NoAddress before initialisation
          pending_admin,  \* nominated successor, if any
          signer          \* address that authorised the last step

Init == /\ admin = NoAddress
        /\ pending_admin = NoAddress
        /\ signer = NoAddress

Appoint(a) == /\ admin = NoAddress
              /\ signer' = a
              /\ admin' = a
              /\ UNCHANGED pending_admin

Nominate(a) == /\ admin # NoAddress
               /\ signer' = admin
               /\ pending_admin' = a
               /\ UNCHANGED admin

Withdraw == /\ pending_admin # NoAddress
            /\ signer' = admin
            /\ pending_admin' = NoAddress
            /\ UNCHANGED admin

TakeOver == /\ pending_admin # NoAddress
            /\ signer' = pending_admin
            /\ admin' = pending_admin
            /\ pending_admin' = NoAddress

\* Steps of the contract that do not concern the role.
Other == /\ signer' \in Address \union {NoAddress}
         /\ UNCHANGED <<admin, pending_admin>>

Next == \/ \E a \in Address : Appoint(a) \/ Nominate(a)
        \/ Withdraw
        \/ TakeOver
        \/ Other

Spec == Init /\ [][Next]_<<admin, pending_admin, signer>>
=============================================================================
