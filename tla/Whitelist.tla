------------------------------ MODULE Whitelist ------------------------------
(***************************************************************************)
(* The whitelist program, programs/whitelist/src/lib.rs: one authority, and *)
(* a ResolverAccess account for every user it has registered with a client *)
(* program.  The account's address is derived from the client and the user, *)
(* so the pair is the account.  The module has no specification of its own: *)
(* Swap composes it with its two clients.                                  *)
(***************************************************************************)

CONSTANTS Users,    \* wallets
          Clients,  \* the programs that resolvers are registered with
          Nobody    \* not a user: the authority before there is one

VARIABLES
  authority,       \* of the WhitelistState account, Nobody while it does not exist
  resolver_access  \* the ResolverAccess accounts

WhitelistInit == authority = Nobody /\ resolver_access = {}

\* The users with access to a client program.
ResolversOf(client) == {u \in Users : <<client, u>> \in resolver_access}

\* Whoever comes first creates the only WhitelistState account there can be.
Initialize(u) ==
  /\ authority = Nobody
  /\ authority' = u
  /\ UNCHANGED resolver_access

\* The constraint that the three other instructions share.
IsAuthority(signer) == signer \in Users /\ signer = authority

Register(signer, user, client) ==
  /\ IsAuthority(signer)
  /\ <<client, user>> \notin resolver_access
  /\ resolver_access' = resolver_access \cup {<<client, user>>}
  /\ UNCHANGED authority

Deregister(signer, user, client) ==
  /\ IsAuthority(signer)
  /\ <<client, user>> \in resolver_access
  /\ resolver_access' = resolver_access \ {<<client, user>>}
  /\ UNCHANGED authority

SetAuthority(signer, new_authority) ==
  /\ IsAuthority(signer)
  /\ authority' = new_authority
  /\ UNCHANGED resolver_access

=============================================================================
