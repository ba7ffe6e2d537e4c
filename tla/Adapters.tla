------------------------------ MODULE Adapters ------------------------------
(***************************************************************************)
(* What the kernel tells of the network adapters and what becomes of it    *)
(* (hbm/communication/netadapterlist.cpp), and the checks of addresses and *)
(* netmasks (netadapter.cpp).  An address is the sequence of its bytes.    *)
(***************************************************************************)
EXTENDS Texts

(* One entry of getifaddrs: an adapter's index, flags, and an address of   *)
(* one family with its netmask.                                            *)
Flags == {"up", "broadcast", "loopback"}

Qualifies(entry) ==
  /\ entry.family # "null"
  /\ {"up", "broadcast"} \subseteq entry.flags /\ "loopback" \notin entry.flags

(* The bits of a byte that are set.                                        *)
BitCount(byte) == Cardinality({k \in 0 .. 7 : (byte \div 2^k) % 2 = 1})

(* The prefix of an address of IPv6: the counting ends at a byte of zeros. *)
PrefixOf(mask) ==
  LET ends == {i \in DOMAIN mask : mask[i] = 0}
      counted == IF ends = {} THEN Len(mask) ELSE First(ends) - 1
  IN  FoldLeft(LAMBDA n, byte : n + BitCount(byte), 0, SubSeq(mask, 1, counted))

Unknown == [ipv4 |-> <<>>, ipv6 |-> <<>>]

(* What an entry adds to the adapters known so far.                        *)
AddEntry(adapters, entry) ==
  LET i == entry.index
      known == IF i \in DOMAIN adapters THEN adapters[i] ELSE Unknown
      next == CASE entry.family = "inet" ->
                     [known EXCEPT !.ipv4 = Append(@, <<entry.address, entry.mask>>)]
                [] entry.family = "inet6" ->
                     [known EXCEPT !.ipv6 = Append(@, <<entry.address, PrefixOf(entry.mask)>>)]
                [] OTHER -> known
  IN  IF Qualifies(entry)
      THEN [j \in DOMAIN adapters \cup {i} |-> IF j = i THEN next ELSE adapters[j]]
      ELSE adapters

(* enumAdapters on Linux.                                                  *)
EnumAdapters(entries) == FoldLeft(AddEntry, [i \in {} |-> Unknown], entries)

(* On Windows GetAdaptersInfo gives for each adapter the address that is   *)
(* current, NoAddress where none is said to be, and the first one.  An     *)
(* adapter that is not connected has the address 0.0.0.0.                  *)
NoAddress == 0
NotConnected == 1

WinAddress(info) == IF info.current # NoAddress THEN info.current ELSE info.first

WinAddInfo(adapters, info) ==
  IF WinAddress(info) = NotConnected THEN adapters
  ELSE [i \in DOMAIN adapters \cup {info.index} |->
          IF i = info.index THEN WinAddress(info) ELSE adapters[i]]

(* Faulty: the adapters of an earlier list stay in it.                     *)
WinAddToAdapters(adapters, succeeds, infos) ==
  IF succeeds THEN FoldLeft(WinAddInfo, adapters, infos) ELSE adapters

(* enumAdapters on Windows: a call that fails leaves the list as it is.    *)
WinEnumAdapters(adapters, succeeds, infos) ==
  IF succeeds THEN FoldLeft(WinAddInfo, [i \in {} |-> NoAddress], infos) ELSE adapters

(* A dotted address as text.                                               *)
Dotted(address) == Joined([i \in DOMAIN address |-> UIntText(address[i])], <<".">>)

(* isApipaAddress looks at the text.                                       *)
IsApipaAddress(text) == IsPrefix(<<"1", "6", "9", ".", "2", "5", "4">>, text)

IsValidManualIpV4Address(address) ==
  /\ address[1] \notin {0, 24, 25, 26, 127} /\ address[1] < 224
  /\ ~IsApipaAddress(Dotted(address))

IsValidIpV4Netmask(mask) == mask \notin {<<0, 0, 0, 0>>, <<255, 255, 255, 255>>}
-----------------------------------------------------------------------------
(* Properties.                                                             *)

(* The netmask of so many bytes with the first n bits set.                 *)
MaskOf(n, bytes) ==
  [i \in 1 .. bytes |->
     IF n >= 8 * i THEN 255
     ELSE IF n <= 8 * (i - 1) THEN 0
     ELSE 256 - 2^(8 * i - n)]

(* Each netmask gives its prefix; a netmask of IPv4 is valid unless it     *)
(* covers nothing or a single address.                                     *)
PrefixesAgree(n) ==
  /\ PrefixOf(MaskOf(n, 16)) = n
  /\ n <= 32 => (IsValidIpV4Netmask(MaskOf(n, 4)) <=> n \in 1 .. 31)

(* The text tells the addresses of 169.254.0.0/16 from all others.         *)
ApipaAgrees(address) ==
  IsApipaAddress(Dotted(address)) <=> address[1] = 169 /\ address[2] = 254

(* Each adapter of the list has exactly the addresses the kernel told of   *)
(* while it was up, in their order, and one without an entry that          *)
(* qualifies is not in the list.                                           *)
AdaptersAgree(entries) ==
  LET list == EnumAdapters(entries)
      good == SelectSeq(entries, Qualifies)
      told(i, family) == SelectSeq(good, LAMBDA e : e.index = i /\ e.family = family)
  IN  /\ DOMAIN list = {good[k].index : k \in DOMAIN good}
      /\ \A i \in DOMAIN list :
           /\ list[i].ipv4 = [k \in DOMAIN told(i, "inet") |->
                                <<told(i, "inet")[k].address, told(i, "inet")[k].mask>>]
           /\ Len(list[i].ipv6) = Len(told(i, "inet6"))

(* On Windows the list follows what GetAdaptersInfo told: it has the       *)
(* connected adapters with the address told last, none of an earlier list, *)
(* and all of the earlier list when the call failed.                       *)
WinAdaptersAgree(before, after) ==
  LET old == WinEnumAdapters([i \in {} |-> NoAddress], TRUE, before)
      list == WinEnumAdapters(old, TRUE, after)
      connected(i) == SelectSeq(after, LAMBDA a : a.index = i /\ WinAddress(a) # NotConnected)
      told == {after[k].index : k \in DOMAIN after}
  IN  /\ DOMAIN list = {i \in told : connected(i) # <<>>}
      /\ \A i \in DOMAIN list : list[i] = WinAddress(Last(connected(i)))
      /\ WinEnumAdapters(old, FALSE, after) = old
=============================================================================
