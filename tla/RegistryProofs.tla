--------------------------- MODULE RegistryProofs ---------------------------
(***************************************************************************)
(* The promises of the registry follow from its steps, for any number of   *)
(* connections and addresses.                                              *)
(***************************************************************************)
EXTENDS Registry, TLAPS

\* An empty map keeps every promise.
LEMMA RegistryStarts == RegInit => RegistryOK
  BY RegistryAssumption
     DEF RegInit, RegistryOK, RegTypeOK, EntriesCurrent, FoundUnlessShadowed,
         AddressesExclusive, EntryIsOwn

\* Registering a connection keeps the promises: its address belongs to nobody
\* who is up, and an entry it displaces is of a connection that is not.
LEMMA RegisterKeeps ==
    ASSUME RegistryOK, NEW c \in Conn, NEW a \in Addr, Register(c, a)
    PROVE  RegistryOK'
<1> PICK p \in Open : phase' = [phase EXCEPT ![c] = p]
  BY DEF Register
<1> USE RegistryAssumption DEF RegistryOK, RegTypeOK, Register, Open
<1>1. RegTypeOK' /\ \A d \in Conn : phase'[d] # "off" <=> addr'[d] \in Addr
  OBVIOUS
<1>2. EntriesCurrent'
  BY DEF EntriesCurrent
<1>3. FoundUnlessShadowed'
  BY DEF FoundUnlessShadowed
<1>4. AddressesExclusive'
  BY DEF AddressesExclusive
<1>5. EntryIsOwn'
  BY DEF EntryIsOwn
<1> QED
  BY <1>1, <1>2, <1>3, <1>4, <1>5

\* A connection that has lost its peer stays in the map.
LEMMA LeaveKeeps ==
    ASSUME RegistryOK, NEW c \in Conn, Leave(c)
    PROVE  RegistryOK'
  BY RegistryAssumption
     DEF RegistryOK, RegTypeOK, Leave, Open, EntriesCurrent,
         FoundUnlessShadowed, AddressesExclusive, EntryIsOwn

\* A connection that ends may stay in the map.
LEMMA EndKeeps ==
    ASSUME RegistryOK, NEW c \in Conn, End(c)
    PROVE  RegistryOK'
  BY RegistryAssumption
     DEF RegistryOK, RegTypeOK, End, Open, EntriesCurrent,
         FoundUnlessShadowed, AddressesExclusive, EntryIsOwn

\* Taking a connection out by address may take out a later one's entry, and
\* then leaves the earlier connection as the witness.
LEMMA UnregisterKeeps ==
    ASSUME RegistryOK, NEW c \in Conn, Unregister(c)
    PROVE  RegistryOK'
<1> USE RegistryAssumption DEF RegistryOK, RegTypeOK, Unregister, Open
<1>1. RegTypeOK' /\ \A d \in Conn : phase'[d] # "off" <=> addr'[d] \in Addr
  OBVIOUS
<1>2. EntriesCurrent'
  BY DEF EntriesCurrent
<1>3. FoundUnlessShadowed'
  BY DEF FoundUnlessShadowed
<1>4. AddressesExclusive'
  BY DEF AddressesExclusive
<1>5. EntryIsOwn'
  BY DEF EntryIsOwn
<1> QED
  BY <1>1, <1>2, <1>3, <1>4, <1>5

\* Every step of the registry, and every step that leaves it alone, keeps the
\* promises.
LEMMA RegistryKeeps == RegistryOK /\ [RegNext]_regVars => RegistryOK'
<1> SUFFICES ASSUME RegistryOK, [RegNext]_regVars PROVE RegistryOK'
  OBVIOUS
<1>1. CASE UNCHANGED regVars
  BY <1>1 DEF RegistryOK, RegTypeOK, EntriesCurrent, FoundUnlessShadowed,
     AddressesExclusive, EntryIsOwn, regVars
<1> QED
  BY <1>1, RegisterKeeps, LeaveKeeps, EndKeeps, UnregisterKeeps DEF RegNext

\* Whoever looks a client up by address in app.clients finds one that was
\* registered there and has not been taken out; a connection that is up is
\* found unless an earlier one with its address was taken out; and no two that
\* are up, with their peers, share an address.
THEOREM RegistryCorrect == RegSpec => []RegistryOK
  BY RegistryStarts, RegistryKeeps, PTL DEF RegSpec
=============================================================================
