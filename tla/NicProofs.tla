----------------------------- MODULE NicProofs ------------------------------
(***************************************************************************)
(* The network card from the boot to its interrupts: what maink makes of a  *)
(* machine (Boot), and the handler, the system calls and the card of Nic    *)
(* over the two rings of RingProofs.                                        *)
(***************************************************************************)
EXTENDS Nic, RingProofs, FiniteSetTheorems
-----------------------------------------------------------------------------
(* What maink leaves of a machine.                                          *)

Pci == [slot : Nat, id : STRING, class_code : Nat, interrupt_line : Nat]
Device == [name : {"eth"} \X Nat, slot : Nat, irq : Nat, state : {"down", "up"},
           rx_buf_len_idx : -1 .. 2]

\* The tables of a kernel on machine m.
Kernel(m) ==
  {k \in [machine : {m}, slots : Seq(PciSlot), pci_devices : Seq(Pci), netdevs : Seq(Device),
          eth_counter : Nat, callbacks : SUBSET Nat] : Len(k.slots) = Len(m.slots)}

IsCard(k, n) == k.slots[n].id = RTL8139
Started(k, n, fails) ==
  IsCard(k, n) /\ ~("rtl8139" \in fails) /\ ~(Len(k.netdevs) >= MAX_NETDEVS \/ "netdev" \in fails)

(* What one turn of the PCI scan does to the tables, from k to l.           *)
Scanned(m, k, n, fails, l) ==
  /\ l \in Kernel(m) /\ l.callbacks = k.callbacks
  /\ l.slots = IF IsCard(k, n)
               THEN [k.slots EXCEPT ![n] = [@ EXCEPT !.command =
                       (k.slots[n].command \cup {"io", "master"}) \ {"intx_disable"}]]
               ELSE k.slots
  /\ l.pci_devices = IF k.slots[n].id = PCI_INVALID_VENDOR THEN k.pci_devices
                     ELSE Append(k.pci_devices,
                            [slot |-> n, id |-> k.slots[n].id, class_code |-> k.slots[n].class_code,
                             interrupt_line |-> k.slots[n].interrupt_line])
  /\ l.netdevs = IF Started(k, n, fails)
                 THEN Append(k.netdevs, [name |-> <<"eth", k.eth_counter>>, slot |-> n,
                                         irq |-> k.slots[n].interrupt_line, state |-> "down",
                                         rx_buf_len_idx |-> -1])
                 ELSE k.netdevs
  /\ l.eth_counter = IF Started(k, n, fails) THEN k.eth_counter + 1 ELSE k.eth_counter

(* A turn of the scan does to the tables what Scanned says: it notes what   *)
(* is in the slot, enables a card, and registers it unless memory or places *)
(* run out.                                                                 *)
LEMMA ScanSlotIs ==
  ASSUME NEW m \in Machine, NEW k \in Kernel(m), NEW n \in 1 .. Len(m.slots), NEW fails
  PROVE  Scanned(m, k, n, fails, ScanSlot(k, n, fails))
<1> DEFINE s == k.slots
           dev == [slot |-> n, id |-> s[n].id, class_code |-> s[n].class_code,
                   interrupt_line |-> s[n].interrupt_line]
           noted == [k EXCEPT !.pci_devices = Append(k.pci_devices, dev)]
           cmd == (s[n].command \cup {"io", "master"}) \ {"intx_disable"}
           on == [noted EXCEPT !.slots = [s EXCEPT ![n] = [@ EXCEPT !.command = cmd]]]
           eth == [name |-> <<"eth", k.eth_counter>>, slot |-> n,
                   irq |-> s[n].interrupt_line, state |-> "down", rx_buf_len_idx |-> -1]
           made == [on EXCEPT !.netdevs = Append(k.netdevs, eth), !.eth_counter = k.eth_counter + 1]
<1>1. s \in Seq(PciSlot) /\ n \in 1 .. Len(s) /\ s[n] \in PciSlot /\ n \in Nat
  BY DEF Kernel, Machine
<1>2. /\ s[n].id \in STRING /\ s[n].class_code \in Nat /\ s[n].interrupt_line \in Nat
      /\ s[n].command \in SUBSET {"io", "memory", "master", "intx_disable"}
  BY <1>1 DEF PciSlot
<1>b. /\ k = [machine |-> m, slots |-> s, pci_devices |-> k.pci_devices, netdevs |-> k.netdevs,
              eth_counter |-> k.eth_counter, callbacks |-> k.callbacks]
      /\ k.pci_devices \in Seq(Pci) /\ k.netdevs \in Seq(Device)
      /\ k.eth_counter \in Nat /\ k.callbacks \in SUBSET Nat
  BY DEF Kernel
<1>3. dev \in Pci /\ dev # NoPci
  <2>1. dev.slot = n /\ NoPci.slot = 0
    BY DEF NoPci
  <2> QED
    BY <1>1, <1>2, <2>1 DEF Pci
<1>4. pci_read_device_info(s, n) = IF s[n].id = PCI_INVALID_VENDOR THEN NoPci ELSE dev
  BY DEF pci_read_device_info, pci_config_read_32
<1>5. CASE s[n].id = PCI_INVALID_VENDOR
  <2>1. ScanSlot(k, n, fails) = k
    BY <1>4, <1>5, Zenon DEF ScanSlot
  <2>2. ~IsCard(k, n) /\ ~Started(k, n, fails)
    BY <1>5 DEF IsCard, Started, PCI_INVALID_VENDOR, RTL8139
  <2> QED
    BY <2>1, <2>2, <1>5, Zenon DEF Scanned
<1>a. noted \in Kernel(m) /\ noted.slots = s /\ noted.callbacks = k.callbacks
      /\ noted.pci_devices = Append(k.pci_devices, dev)
      /\ noted.netdevs = k.netdevs /\ noted.eth_counter = k.eth_counter
  <2>1. Append(k.pci_devices, dev) \in Seq(Pci)
    <3> HIDE DEF dev
    <3> QED
      BY <1>3, <1>b
  <2> HIDE DEF dev
  <2> QED
    BY <2>1, <1>1 DEF Kernel
<1>6. CASE s[n].id # PCI_INVALID_VENDOR /\ s[n].id # RTL8139
  <2>1. ScanSlot(k, n, fails) = noted
    <3>1. dev.id # RTL8139
      BY <1>6
    <3> HIDE DEF dev
    <3> QED
      BY <1>3, <1>4, <1>6, <3>1, Zenon DEF ScanSlot
  <2>2. ~IsCard(k, n) /\ ~Started(k, n, fails)
    BY <1>6 DEF IsCard, Started
  <2> HIDE DEF noted
  <2> QED
    BY <2>1, <2>2, <1>a, <1>6, Zenon DEF Scanned
<1>7. CASE s[n].id # PCI_INVALID_VENDOR /\ s[n].id = RTL8139
  <2>1. ScanSlot(k, n, fails) = rtl8139_init(noted, dev, fails)
    <3>1. dev.id = RTL8139
      BY <1>7
    <3> HIDE DEF dev
    <3> QED
      BY <1>3, <1>4, <1>7, <3>1, Zenon DEF ScanSlot
  <2>2. rtl8139_init(noted, dev, fails) = IF "rtl8139" \in fails THEN on ELSE netdev_create(on, dev, fails)
    <3>1. dev.slot = n
      OBVIOUS
    <3>2. pci_config_read_32(s, n, "command") = s[n].command
      BY <1>7 DEF pci_config_read_32
    <3>3. \A v : pci_config_write_32(s, n, "command", v) = [s EXCEPT ![n] = [@ EXCEPT !.command = v]]
      BY DEF pci_config_write_32
    <3> HIDE DEF noted, dev
    <3>4. pci_config_read_32(noted.slots, dev.slot, "command") = s[n].command
      BY <1>a, <3>1, <3>2, Zenon
    <3>5. pci_config_write_32(noted.slots, dev.slot, "command", cmd)
            = [s EXCEPT ![n] = [@ EXCEPT !.command = cmd]]
      BY <1>a, <3>1, <3>3, Zenon
    <3>6. on = [noted EXCEPT !.slots = pci_config_write_32(noted.slots, dev.slot, "command",
                  (pci_config_read_32(noted.slots, dev.slot, "command") \cup {"io", "master"})
                    \ {"intx_disable"})]
      BY <3>4, <3>5, Zenon
    <3> HIDE DEF on
    <3> QED
      BY <3>6, Zenon DEF rtl8139_init
  <2>3. [s EXCEPT ![n] = [@ EXCEPT !.command = cmd]] \in Seq(PciSlot)
        /\ Len([s EXCEPT ![n] = [@ EXCEPT !.command = cmd]]) = Len(s)
    <3>1. [s[n] EXCEPT !.command = cmd] \in PciSlot
      <4>1. cmd \in SUBSET {"io", "memory", "master", "intx_disable"}
        BY <1>2
      <4> HIDE DEF cmd
      <4> QED
        BY <1>1, <4>1 DEF PciSlot
    <3>2. s \in Seq(PciSlot) /\ n \in 1 .. Len(s)
      BY <1>1
    <3> HIDE DEF s, cmd
    <3>3. PICK x \in PciSlot : x = [s[n] EXCEPT !.command = cmd]
      BY <3>1, Zenon
    <3>4. [s EXCEPT ![n] = [@ EXCEPT !.command = cmd]] = [s EXCEPT ![n] = x]
      BY <3>3, Zenon
    <3>5. [s EXCEPT ![n] = x] \in Seq(PciSlot) /\ Len([s EXCEPT ![n] = x]) = Len(s)
      BY <3>2
    <3> QED
      BY <3>4, <3>5, Zenon
  <2>4. on \in Kernel(m) /\ on.slots = [s EXCEPT ![n] = [@ EXCEPT !.command = cmd]]
        /\ on.callbacks = k.callbacks /\ on.pci_devices = Append(k.pci_devices, dev)
        /\ on.netdevs = k.netdevs /\ on.eth_counter = k.eth_counter
    <3> HIDE DEF cmd, noted
    <3> QED
      BY <1>a, <2>3 DEF Kernel
  <2>5. netdev_create(on, dev, fails) = IF Len(k.netdevs) >= MAX_NETDEVS \/ "netdev" \in fails THEN on ELSE made
    <3>1. dev.slot = n /\ dev.interrupt_line = s[n].interrupt_line
      OBVIOUS
    <3> HIDE DEF on, dev
    <3> QED
      BY <2>4, <3>1, Zenon DEF netdev_create, generate_device_name
  <2>6. made \in Kernel(m) /\ made.slots = on.slots
        /\ made.callbacks = k.callbacks /\ made.pci_devices = on.pci_devices
        /\ made.netdevs = Append(k.netdevs, eth) /\ made.eth_counter = k.eth_counter + 1
    <3>1. eth \in Device
      <4>1. <<"eth", k.eth_counter>> \in {"eth"} \X Nat
        BY <1>b
      <4>2. -1 \in -1 .. 2
        BY SMT
      <4> QED
        BY <1>1, <1>2, <4>1, <4>2 DEF Device
    <3>2. Append(k.netdevs, eth) \in Seq(Device) /\ k.eth_counter + 1 \in Nat
      <4> HIDE DEF eth
      <4> QED
        BY <1>b, <3>1
    <3> HIDE DEF on, eth
    <3> QED
      BY <2>4, <3>2 DEF Kernel
  <2>7. IsCard(k, n)
    BY <1>7 DEF IsCard
  <2> HIDE DEF on, made, eth, dev, cmd
  <2>8. CASE Started(k, n, fails)
    <3>1. ScanSlot(k, n, fails) = made
      BY <2>1, <2>2, <2>5, <2>8, Zenon DEF Started
    <3> QED
      BY <3>1, <2>4, <2>6, <2>7, <2>8, <1>7, Zenon DEF Scanned, eth, dev, cmd
  <2>9. CASE ~Started(k, n, fails)
    <3>1. ScanSlot(k, n, fails) = on
      BY <2>1, <2>2, <2>5, <2>7, <2>9, Zenon DEF Started
    <3> QED
      BY <3>1, <2>4, <2>7, <2>9, <1>7, Zenon DEF Scanned, dev, cmd
  <2> QED
    BY <2>8, <2>9
<1> QED
  BY <1>5, <1>6, <1>7

\* The cards in the first n slots.
Seen(m, n) == {t \in Cards(m) : t <= n}

\* The slots answer as the machine's, up to the command register.
SameSlots(m, k) ==
  \A s \in 1 .. Len(m.slots) : /\ k.slots[s].id = m.slots[s].id
                               /\ k.slots[s].interrupt_line = m.slots[s].interrupt_line

\* Device i of the registry is a card of the first n slots; it may use memory.
Placed(m, n, k, i) ==
  /\ k.netdevs[i].name = <<"eth", i - 1>> /\ k.netdevs[i].state = "down"
  /\ k.netdevs[i].slot \in Cards(m) /\ k.netdevs[i].slot <= n
  /\ k.netdevs[i].irq = m.slots[k.netdevs[i].slot].interrupt_line
  /\ {"io", "master"} \subseteq k.slots[k.netdevs[i].slot].command
  /\ "intx_disable" \notin k.slots[k.netdevs[i].slot].command

InSlotOrder(k) ==
  \A i, j \in 1 .. Len(k.netdevs) : i < j => k.netdevs[i].slot < k.netdevs[j].slot

Registered(k, s) == \E i \in 1 .. Len(k.netdevs) : k.netdevs[i].slot = s

(* With memory for every device, the first MAX_NETDEVS cards are registered *)
(* and no other.                                                            *)
FirstRegistered(m, n, k) ==
  /\ \A s \in Seen(m, n) : Registered(k, s) <=> Cardinality(Seen(m, s)) <= MAX_NETDEVS
  /\ Len(k.netdevs) = IF Cardinality(Seen(m, n)) <= MAX_NETDEVS THEN Cardinality(Seen(m, n))
                      ELSE MAX_NETDEVS

\* A card in the registry is also found by pci_find_device.
Findable(k) ==
  /\ \A p \in 1 .. Len(k.pci_devices) : k.pci_devices[p].slot # 0
  /\ Len(k.netdevs) > 0 => \E p \in 1 .. Len(k.pci_devices) : k.pci_devices[p].id = RTL8139

\* The tables after n slots.
ScanInv(m, n, k) ==
  /\ k \in Kernel(m) /\ SameSlots(m, k)
  /\ k.eth_counter = Len(k.netdevs)
  /\ \A i \in 1 .. Len(k.netdevs) : Placed(m, n, k, i)
  /\ InSlotOrder(k)
  /\ Findable(k)
  /\ m.fails \cap {"rtl8139", "netdev"} = {} => FirstRegistered(m, n, k)

(* Counting the cards slot by slot.                                         *)
LEMMA SeenNext ==
  ASSUME NEW m \in Machine, NEW n \in 0 .. Len(m.slots) - 1
  PROVE  /\ Seen(m, 0) = {} /\ Cardinality(Seen(m, n)) \in Nat
         /\ n + 1 \notin Cards(m) => Seen(m, n + 1) = Seen(m, n)
         /\ n + 1 \in Cards(m) => /\ Seen(m, n + 1) = Seen(m, n) \cup {n + 1}
                                  /\ Cardinality(Seen(m, n + 1)) = Cardinality(Seen(m, n)) + 1
<1>1. Len(m.slots) \in Nat /\ Cards(m) \subseteq 1 .. Len(m.slots)
  BY DEF Machine, Cards
<1>2. IsFiniteSet(1 .. Len(m.slots))
  BY <1>1, FS_Interval
<1>3. IsFiniteSet(Seen(m, n)) /\ Cardinality(Seen(m, n)) \in Nat
  <2>1. Seen(m, n) \subseteq 1 .. Len(m.slots)
    BY <1>1 DEF Seen
  <2> QED
    BY <1>2, <2>1, FS_Subset, FS_CardinalityType
<1>4. Seen(m, 0) = {}
  BY <1>1 DEF Seen
<1>5. n + 1 \notin Cards(m) => Seen(m, n + 1) = Seen(m, n)
  BY <1>1 DEF Seen
<1>6. ASSUME n + 1 \in Cards(m)
      PROVE  /\ Seen(m, n + 1) = Seen(m, n) \cup {n + 1}
             /\ Cardinality(Seen(m, n + 1)) = Cardinality(Seen(m, n)) + 1
  <2>1. Seen(m, n + 1) = Seen(m, n) \cup {n + 1} /\ n + 1 \notin Seen(m, n)
    BY <1>1, <1>6 DEF Seen
  <2> QED
    BY <2>1, <1>3, FS_AddElement
<1> QED
  BY <1>3, <1>4, <1>5, <1>6

(* Before the first turn no slot was looked at and no card is registered.   *)
LEMMA ScanStart ==
  ASSUME NEW m \in Machine
  PROVE  ScanInv(m, 0, Unscanned(m)) /\ Unscanned(m).callbacks = {}
<1> DEFINE k == Unscanned(m)
<1>1. /\ k \in Kernel(m) /\ k.slots = m.slots /\ k.netdevs = <<>> /\ k.pci_devices = <<>>
      /\ k.eth_counter = 0 /\ k.callbacks = {}
  BY DEF Unscanned, Kernel, Machine
<1> HIDE DEF k
<1>2. Len(k.netdevs) = 0 /\ Len(k.pci_devices) = 0
  BY <1>1
<1>3. SameSlots(m, k)
  BY <1>1 DEF SameSlots
<1>4. InSlotOrder(k) /\ Findable(k) /\ \A i \in 1 .. Len(k.netdevs) : Placed(m, 0, k, i)
  BY <1>2 DEF InSlotOrder, Findable
<1>5. FirstRegistered(m, 0, k)
  <2>1. Seen(m, 0) = {}
    BY DEF Seen, Cards, Machine
  <2>2. Cardinality(Seen(m, 0)) = 0
    BY <2>1, FS_EmptySet
  <2> QED
    BY <2>1, <2>2, <1>2, BootAssumption DEF FirstRegistered
<1> QED
  BY <1>1, <1>2, <1>3, <1>4, <1>5, Zenon DEF ScanInv, k

(* Another turn of pci_init keeps the loop's invariant: the cards seen so   *)
(* far are registered in the order of their slots until the table of        *)
(* devices is full, and each can be found by its number.                    *)
LEMMA ScanStep ==
  ASSUME NEW m \in Machine, NEW n \in 0 .. Len(m.slots) - 1, NEW k, ScanInv(m, n, k),
         NEW l, Scanned(m, k, n + 1, m.fails, l)
  PROVE  ScanInv(m, n + 1, l)
<1> DEFINE s == n + 1
           N == Len(k.netdevs)
           card == k.slots[s].id = RTL8139
           started == Started(k, s, m.fails)
           eth == [name |-> <<"eth", k.eth_counter>>, slot |-> s,
                   irq |-> k.slots[s].interrupt_line, state |-> "down", rx_buf_len_idx |-> -1]
<1>1. /\ k \in Kernel(m) /\ SameSlots(m, k) /\ k.eth_counter = N
      /\ \A i \in 1 .. N : Placed(m, n, k, i)
      /\ InSlotOrder(k) /\ Findable(k)
      /\ m.fails \cap {"rtl8139", "netdev"} = {} => FirstRegistered(m, n, k)
  BY Zenon DEF ScanInv
<1>2. Len(m.slots) \in Nat /\ n \in Nat /\ s \in 1 .. Len(m.slots)
  BY DEF Machine
<1>3. /\ k.slots \in Seq(PciSlot) /\ Len(k.slots) = Len(m.slots) /\ k.pci_devices \in Seq(Pci)
      /\ k.netdevs \in Seq(Device) /\ N \in Nat
  BY <1>1 DEF Kernel
<1>4. k.slots[s].id = m.slots[s].id /\ k.slots[s].interrupt_line = m.slots[s].interrupt_line
  BY <1>1, <1>2 DEF SameSlots
<1>5. card <=> s \in Cards(m)
  BY <1>2, <1>4 DEF Cards
<1>6. started => card
  BY DEF Started, IsCard
<1>7. l \in Kernel(m)
  BY Zenon DEF Scanned
<1>8. /\ l.netdevs = IF started THEN Append(k.netdevs, eth) ELSE k.netdevs
      /\ l.eth_counter = IF started THEN k.eth_counter + 1 ELSE k.eth_counter
  BY <1>1, Zenon DEF Scanned
<1>9. l.slots = IF card THEN [k.slots EXCEPT ![s] = [@ EXCEPT !.command =
                                (k.slots[s].command \cup {"io", "master"}) \ {"intx_disable"}]]
                ELSE k.slots
  BY Zenon DEF Scanned, IsCard
<1>10. l.pci_devices = IF k.slots[s].id = PCI_INVALID_VENDOR THEN k.pci_devices
                       ELSE Append(k.pci_devices,
                              [slot |-> s, id |-> k.slots[s].id, class_code |-> k.slots[s].class_code,
                               interrupt_line |-> k.slots[s].interrupt_line])
  BY Zenon DEF Scanned
<1> HIDE DEF s, started, eth, card
<1>11. ASSUME NEW t \in 1 .. Len(m.slots)
       PROVE  /\ l.slots[t].id = k.slots[t].id
              /\ l.slots[t].interrupt_line = k.slots[t].interrupt_line
              /\ t # s => l.slots[t].command = k.slots[t].command
              /\ t = s /\ card => /\ {"io", "master"} \subseteq l.slots[t].command
                                  /\ "intx_disable" \notin l.slots[t].command
  <2>1. t \in DOMAIN k.slots /\ k.slots[t] \in PciSlot
    BY <1>3
  <2>2. CASE t = s /\ card
    <3>1. l.slots[t] = [k.slots[t] EXCEPT !.command =
                          (k.slots[t].command \cup {"io", "master"}) \ {"intx_disable"}]
      BY <2>1, <2>2, <1>9, <1>3
    <3>2. l.slots[t].command = (k.slots[t].command \cup {"io", "master"}) \ {"intx_disable"}
          /\ l.slots[t].id = k.slots[t].id /\ l.slots[t].interrupt_line = k.slots[t].interrupt_line
      BY <2>1, <3>1 DEF PciSlot
    <3> QED
      BY <3>2, <2>2
  <2>3. CASE ~(t = s /\ card)
    <3>1. l.slots[t] = k.slots[t]
      BY <2>1, <2>3, <1>9, <1>3
    <3> QED
      BY <3>1, <2>3
  <2> QED
    BY <2>2, <2>3
<1>12. SameSlots(m, l)
  BY <1>1, <1>11 DEF SameSlots
<1>13. /\ Len(l.netdevs) = IF started THEN N + 1 ELSE N
       /\ \A i \in 1 .. N : l.netdevs[i] = k.netdevs[i]
       /\ started => l.netdevs[N + 1] = eth
  <2>1. CASE started
    <3>1. l.netdevs = Append(k.netdevs, eth)
      BY <2>1, <1>8
    <3> QED
      BY <2>1, <3>1, <1>3
  <2>2. CASE ~started
    BY <2>2, <1>8
  <2> QED
    BY <2>1, <2>2
<1>14. l.eth_counter = Len(l.netdevs)
  BY <1>1, <1>8, <1>13
<1> HIDE DEF N
<1>15. ASSUME NEW i \in 1 .. N
       PROVE  Placed(m, s, l, i) /\ k.netdevs[i].slot <= n /\ k.netdevs[i].slot \in Nat
  <2>1. Placed(m, n, k, i) /\ l.netdevs[i] = k.netdevs[i]
    BY <1>1, <1>13
  <2>2. PICK t \in 1 .. Len(m.slots) : t = k.netdevs[i].slot /\ t <= n
    BY <2>1 DEF Placed, Cards
  <2>3. t # s /\ t <= s
    BY <1>2, <2>2 DEF s
  <2>4. l.slots[t].command = k.slots[t].command
    BY <2>3, <1>11
  <2> QED
    BY <2>1, <2>2, <2>3, <2>4 DEF Placed
<1>16. ASSUME started PROVE Placed(m, s, l, N + 1) /\ l.netdevs[N + 1].slot = s
  <2>1. l.netdevs[N + 1] = eth
    BY <1>13, <1>16
  <2>2. l.netdevs[N + 1].name = <<"eth", k.eth_counter>> /\ l.netdevs[N + 1].slot = s
        /\ l.netdevs[N + 1].irq = k.slots[s].interrupt_line /\ l.netdevs[N + 1].state = "down"
    BY <2>1 DEF eth
  <2>3. s \in Cards(m) /\ card /\ k.eth_counter = (N + 1) - 1 /\ s <= s
    BY <1>1, <1>2, <1>3, <1>5, <1>6, <1>16
  <2>4. {"io", "master"} \subseteq l.slots[s].command /\ "intx_disable" \notin l.slots[s].command
    BY <1>2, <1>11, <2>3
  <2> QED
    BY <2>2, <2>3, <2>4, <1>4 DEF Placed
<1>17. \A i \in 1 .. Len(l.netdevs) : Placed(m, s, l, i)
  BY <1>3, <1>13, <1>15, <1>16
<1>18. InSlotOrder(l)
  <2>1. ASSUME NEW i \in 1 .. Len(l.netdevs), NEW j \in 1 .. Len(l.netdevs), i < j
        PROVE  l.netdevs[i].slot < l.netdevs[j].slot
    <3>1. i \in 1 .. N
      BY <2>1, <1>3, <1>13
    <3>2. CASE j \in 1 .. N
      <4>1. k.netdevs[i].slot < k.netdevs[j].slot
        BY <2>1, <3>1, <3>2, <1>1 DEF InSlotOrder, N
      <4> QED
        BY <3>1, <3>2, <4>1, <1>13
    <3>3. CASE j \notin 1 .. N
      <4>1. j = N + 1 /\ started
        BY <2>1, <3>3, <1>3, <1>13
      <4>2. l.netdevs[j].slot = s
        BY <4>1, <1>16
      <4>3. l.netdevs[i].slot <= n /\ l.netdevs[i].slot \in Nat
        BY <3>1, <1>13, <1>15
      <4> QED
        BY <4>2, <4>3, <1>2 DEF s
    <3> QED
      BY <3>2, <3>3
  <2> QED
    BY <2>1 DEF InSlotOrder
<1>19. Findable(l)
  <2> DEFINE M == Len(k.pci_devices)
             dev == [slot |-> s, id |-> k.slots[s].id, class_code |-> k.slots[s].class_code,
                     interrupt_line |-> k.slots[s].interrupt_line]
  <2>1. M \in Nat /\ s # 0 /\ dev.slot = s /\ dev.id = k.slots[s].id
    BY <1>2, <1>3
  <2> HIDE DEF dev
  <2>2. /\ Len(l.pci_devices) \in Nat /\ Len(l.pci_devices) >= M
        /\ \A p \in 1 .. M : l.pci_devices[p] = k.pci_devices[p]
        /\ \A p \in 1 .. Len(l.pci_devices) : p \notin 1 .. M => l.pci_devices[p] = dev
        /\ card => M + 1 \in 1 .. Len(l.pci_devices) /\ l.pci_devices[M + 1] = dev
    <3>1. CASE k.slots[s].id = PCI_INVALID_VENDOR
      <4>1. ~card
        BY <3>1 DEF card, PCI_INVALID_VENDOR, RTL8139
      <4> QED
        BY <3>1, <4>1, <1>3, <1>10
    <3>2. CASE k.slots[s].id # PCI_INVALID_VENDOR
      <4>1. l.pci_devices = Append(k.pci_devices, dev)
        BY <3>2, <1>10 DEF dev
      <4> QED
        BY <4>1, <1>3
    <3> QED
      BY <3>1, <3>2
  <2> HIDE DEF M
  <2>3. \A p \in 1 .. Len(l.pci_devices) : l.pci_devices[p].slot # 0
    <3>1. \A p \in 1 .. M : k.pci_devices[p].slot # 0
      BY <1>1 DEF Findable, M
    <3> QED
      BY <3>1, <2>1, <2>2
  <2>4. ASSUME Len(l.netdevs) > 0
        PROVE  \E p \in 1 .. Len(l.pci_devices) : l.pci_devices[p].id = RTL8139
    <3>1. CASE card
      <4>1. l.pci_devices[M + 1].id = RTL8139
        BY <2>1, <2>2, <3>1 DEF card
      <4> QED
        BY <4>1, <2>2, <3>1
    <3>2. CASE ~card
      <4>1. Len(k.netdevs) > 0
        BY <2>4, <3>2, <1>6, <1>13 DEF N
      <4>2. PICK p \in 1 .. M : k.pci_devices[p].id = RTL8139
        BY <4>1, <1>1 DEF Findable, M
      <4>3. p \in 1 .. Len(l.pci_devices) /\ l.pci_devices[p].id = RTL8139
        BY <4>2, <2>1, <2>2
      <4> QED
        BY <4>3
    <3> QED
      BY <3>1, <3>2
  <2> QED
    BY <2>3, <2>4 DEF Findable
<1>20. ASSUME m.fails \cap {"rtl8139", "netdev"} = {}
       PROVE  FirstRegistered(m, s, l)
  <2> DEFINE C == Cardinality(Seen(m, n))
             D == Cardinality(Seen(m, s))
  <2>1. C \in Nat /\ (s \notin Cards(m) => Seen(m, s) = Seen(m, n))
        /\ (s \in Cards(m) => Seen(m, s) = Seen(m, n) \cup {s} /\ D = C + 1)
    BY SeenNext DEF s
  <2>2. /\ \A t \in Seen(m, n) : Registered(k, t) <=> Cardinality(Seen(m, t)) <= MAX_NETDEVS
        /\ N = IF C <= MAX_NETDEVS THEN C ELSE MAX_NETDEVS
    BY <1>1, <1>20 DEF FirstRegistered, N
  <2>3. started <=> card /\ N < MAX_NETDEVS
    BY <1>3, <1>20, BootAssumption DEF started, Started, IsCard, card, N
  <2>4. \A t \in Seen(m, n) : t \in Nat /\ t # s
    BY <1>2 DEF Seen, Cards, s
  <2>5. ASSUME NEW t \in Seen(m, n) PROVE Registered(l, t) <=> Registered(k, t)
    <3>1. started => l.netdevs[N + 1].slot # t
      BY <2>4, <1>16
    <3>2. Registered(l, t) <=> \E i \in 1 .. N : l.netdevs[i].slot = t
      BY <3>1, <1>3, <1>13 DEF Registered
    <3> QED
      BY <3>2, <1>13 DEF Registered, N
  <2>6. CASE ~card
    <3>1. ~started /\ Seen(m, s) = Seen(m, n) /\ Len(l.netdevs) = N
      BY <2>1, <2>3, <2>6, <1>5, <1>13
    <3> QED
      BY <3>1, <2>2, <2>5 DEF FirstRegistered
  <2>7. CASE card
    <3>1. Seen(m, s) = Seen(m, n) \cup {s} /\ D = C + 1
      BY <2>1, <2>7, <1>5
    <3> HIDE DEF C, D
    <3>2. started <=> D <= MAX_NETDEVS
      BY <2>1, <2>2, <2>3, <2>7, <3>1, BootAssumption
    <3>3. Len(l.netdevs) = IF D <= MAX_NETDEVS THEN D ELSE MAX_NETDEVS
      BY <2>1, <2>2, <3>1, <3>2, <1>13, BootAssumption
    <3>4. Registered(l, s) <=> started
      <4>1. \A i \in 1 .. N : l.netdevs[i].slot # s
        BY <1>2, <1>13, <1>15 DEF s
      <4> QED
        BY <4>1, <1>3, <1>13, <1>16 DEF Registered
    <3> QED
      BY <3>1, <3>2, <3>3, <3>4, <2>2, <2>5 DEF FirstRegistered, D
  <2> QED
    BY <2>6, <2>7
<1> QED
  BY <1>7, <1>12, <1>14, <1>17, <1>18, <1>19, <1>20, Zenon DEF ScanInv, s

(* The scan of all slots.                                                   *)
LEMMA ScanIs ==
  ASSUME NEW m \in Machine
  PROVE  ScanInv(m, Len(m.slots), pci_enumerate_devices(m))
<1> DEFINE N == Len(m.slots)
           V == Kernel(m)
           F == [n \in 1 .. N |-> [k \in V |-> ScanSlot(k, n, m.fails)]]
           f == CHOOSE f : f = [n \in 0 .. Len(m.slots) |->
                  IF n = 0 THEN Unscanned(m) ELSE ScanSlot(f[n - 1], n, m.fails)]
<1>1. N \in Nat /\ Unscanned(m) \in V
  BY ScanStart DEF Machine, ScanInv
<1>2. F \in Bodies(N, V)
  <2>1. \A n \in 1 .. N : \A k \in V : ScanSlot(k, n, m.fails) \in V
    BY ScanSlotIs DEF Scanned
  <2> HIDE DEF V
  <2> QED
    BY <2>1 DEF Bodies
<1>3. PICK g : IsLoop(g, N, V, Unscanned(m), F)
  <2> HIDE DEF F, N, V
  <2> QED
    BY <1>1, <1>2, LoopExists
<1>4. g = [n \in 0 .. N |-> IF n = 0 THEN Unscanned(m) ELSE ScanSlot(g[n - 1], n, m.fails)]
  <2>1. g \in [0 .. N -> V] /\ g[0] = Unscanned(m) /\ \A n \in 1 .. N : g[n] = F[n][g[n - 1]]
    BY <1>3 DEF IsLoop
  <2>2. \A n \in 1 .. N : g[n - 1] \in V
    <3> HIDE DEF F, N, V
    <3> QED
      BY <1>1, <2>1
  <2>3. \A n \in 1 .. N : F[n][g[n - 1]] = ScanSlot(g[n - 1], n, m.fails)
    <3> HIDE DEF V
    <3> QED
      BY <2>2
  <2> HIDE DEF F, V
  <2> QED
    BY <2>1, <2>3, <1>1
<1>5. f = [n \in 0 .. Len(m.slots) |->
             IF n = 0 THEN Unscanned(m) ELSE ScanSlot(f[n - 1], n, m.fails)]
  BY <1>4, Zenon
<1>6. pci_enumerate_devices(m) = f[Len(m.slots)]
  BY Zenon DEF pci_enumerate_devices
<1> HIDE DEF f, F, V, N
<1> DEFINE S == {n \in 0 .. N : ScanInv(m, n, f[n])}
<1>7. 0 \in S
  <2>1. f[0] = Unscanned(m)
    BY <1>1, <1>5 DEF N
  <2> QED
    BY <2>1, <1>1, ScanStart
<1>8. ASSUME NEW n \in 0 .. N - 1, n \in S PROVE n + 1 \in S
  <2>1. f[n + 1] = ScanSlot(f[n], n + 1, m.fails) /\ n + 1 \in 1 .. N
    BY <1>1, <1>5 DEF N
  <2>2. ScanInv(m, n, f[n]) /\ f[n] \in Kernel(m)
    BY <1>8 DEF ScanInv
  <2>3. Scanned(m, f[n], n + 1, m.fails, f[n + 1])
    BY <2>1, <2>2, ScanSlotIs DEF N
  <2>4. ScanInv(m, n + 1, f[n + 1])
    BY <2>2, <2>3, ScanStep DEF N
  <2> QED
    BY <2>1, <2>4
<1>9. \A n \in 0 .. N : n \in S
  <2> HIDE DEF S
  <2> QED
    BY <1>1, <1>7, <1>8, InductUpTo
<1> QED
  BY <1>1, <1>6, <1>9 DEF N

\* What rtl8139_open does to device i, from k to l.
Opened(m, k, i, fails, l) ==
  /\ l \in Kernel(m) /\ l.slots = k.slots /\ l.pci_devices = k.pci_devices
  /\ Len(l.netdevs) = Len(k.netdevs)
  /\ l.callbacks = k.callbacks \cup {k.netdevs[i].irq}
  /\ \A j \in 1 .. Len(k.netdevs) :
       /\ l.netdevs[j].name = k.netdevs[j].name /\ l.netdevs[j].slot = k.netdevs[j].slot
       /\ l.netdevs[j].irq = k.netdevs[j].irq
       /\ j # i \/ RingIndex(fails) = -1 => l.netdevs[j] = k.netdevs[j]
  /\ RingIndex(fails) # -1 => /\ l.netdevs[i].state = "up"
                              /\ l.netdevs[i].rx_buf_len_idx = RingIndex(fails)

(* rtl8139_open does what Opened says: it installs the interrupt callback   *)
(* whatever happens, and takes the device up if there is memory for a ring. *)
LEMMA OpenIs ==
  ASSUME NEW m \in Machine, NEW k \in Kernel(m), NEW i \in 1 .. Len(k.netdevs), NEW fails
  PROVE  Opened(m, k, i, fails, rtl8139_open(k, i, fails))
<1> DEFINE d == k.netdevs
           idx == RingIndex(fails)
           on == [k EXCEPT !.callbacks = k.callbacks \cup {d[i].irq}]
<1>1. idx \in -1 .. 2
  BY SMT DEF RingIndex
<1>2. d \in Seq(Device) /\ i \in 1 .. Len(d) /\ i \in DOMAIN d /\ d[i] \in Device /\ d[i].irq \in Nat
  <2>1. d \in Seq(Device) /\ i \in 1 .. Len(d)
    BY DEF Kernel
  <2> HIDE DEF d
  <2>2. i \in DOMAIN d /\ d[i] \in Device
    BY <2>1
  <2> QED
    BY <2>1, <2>2 DEF Device
<1>3. on \in Kernel(m) /\ on.slots = k.slots /\ on.pci_devices = k.pci_devices /\ on.netdevs = d
      /\ on.callbacks = k.callbacks \cup {d[i].irq}
  <2>1. k.callbacks \cup {d[i].irq} \in SUBSET Nat
    BY <1>2 DEF Kernel
  <2> HIDE DEF d
  <2> QED
    BY <2>1 DEF Kernel, d
<1>4. rtl8139_open(k, i, fails) =
        IF idx = -1 THEN on
        ELSE [on EXCEPT !.netdevs[i].rx_buf_len_idx = idx, !.netdevs[i].state = "up"]
  BY Zenon DEF rtl8139_open, idt_register_interrupt_callback
<1> HIDE DEF on, idx, d
<1>5. CASE idx = -1
  BY <1>3, <1>4, <1>5, Zenon DEF Opened, idx, d
<1>6. CASE idx # -1
  <2> DEFINE up == [[d[i] EXCEPT !.rx_buf_len_idx = idx] EXCEPT !.state = "up"]
             l == [on EXCEPT !.netdevs = [d EXCEPT ![i] = up]]
  <2>1. up \in Device /\ up.name = d[i].name /\ up.slot = d[i].slot /\ up.irq = d[i].irq
        /\ up.state = "up" /\ up.rx_buf_len_idx = idx
    BY <1>1, <1>2 DEF Device
  <2> HIDE DEF up
  <2>2. [d EXCEPT ![i] = up] \in Seq(Device) /\ Len([d EXCEPT ![i] = up]) = Len(d)
        /\ [d EXCEPT ![i] = up][i] = up
        /\ \A j \in 1 .. Len(d) : j # i => [d EXCEPT ![i] = up][j] = d[j]
    BY <1>2, <2>1
  <2>3. l \in Kernel(m) /\ l.slots = k.slots /\ l.pci_devices = k.pci_devices
        /\ l.netdevs = [d EXCEPT ![i] = up] /\ l.callbacks = k.callbacks \cup {d[i].irq}
    BY <1>3, <2>2 DEF Kernel
  <2>4. rtl8139_open(k, i, fails) = l
    BY <1>2, <1>3, <1>4, <1>6 DEF up, Kernel
  <2> HIDE DEF l
  <2>5. \A j \in 1 .. Len(d) :
          /\ l.netdevs[j].name = d[j].name /\ l.netdevs[j].slot = d[j].slot
          /\ l.netdevs[j].irq = d[j].irq
          /\ j # i => l.netdevs[j] = d[j]
    BY <1>2, <2>1, <2>2, <2>3
  <2>6. l.netdevs[i].state = "up" /\ l.netdevs[i].rx_buf_len_idx = idx /\ Len(l.netdevs) = Len(d)
    BY <1>2, <2>1, <2>2, <2>3
  <2> QED
    BY <1>6, <2>3, <2>4, <2>5, <2>6, Zenon DEF Opened, idx, d
<1> QED
  BY <1>5, <1>6

\* The tables after the first i devices of the scanned kernel k were opened.
UpInv(m, k, i, l) ==
  /\ l \in Kernel(m) /\ l.slots = k.slots /\ l.pci_devices = k.pci_devices
  /\ Len(l.netdevs) = Len(k.netdevs)
  /\ \A j \in 1 .. Len(k.netdevs) :
       /\ l.netdevs[j].name = k.netdevs[j].name /\ l.netdevs[j].slot = k.netdevs[j].slot
       /\ l.netdevs[j].irq = k.netdevs[j].irq
       /\ j <= i => l.netdevs[j].irq \in l.callbacks
       /\ IF j <= i /\ RingIndex(m.fails) # -1
          THEN l.netdevs[j].state = "up" /\ l.netdevs[j].rx_buf_len_idx = RingIndex(m.fails)
          ELSE l.netdevs[j].state = k.netdevs[j].state

(* Another turn of netdev_bring_all_up keeps the loop's invariant.          *)
LEMMA UpStep ==
  ASSUME NEW m \in Machine, NEW k \in Kernel(m), NEW i \in 0 .. Len(k.netdevs) - 1,
         NEW g, UpInv(m, k, i, g), NEW l, Opened(m, g, i + 1, m.fails, l)
  PROVE  UpInv(m, k, i + 1, l)
<1> DEFINE N == Len(k.netdevs)
<1>1. /\ g \in Kernel(m) /\ g.slots = k.slots /\ g.pci_devices = k.pci_devices
      /\ Len(g.netdevs) = N
  BY Zenon DEF UpInv
<1>2. /\ l \in Kernel(m) /\ l.slots = g.slots /\ l.pci_devices = g.pci_devices
      /\ Len(l.netdevs) = N /\ l.callbacks = g.callbacks \cup {g.netdevs[i + 1].irq}
  BY <1>1, Zenon DEF Opened
<1>3. N \in Nat /\ i \in Nat /\ i + 1 \in 1 .. N
  BY DEF Kernel
<1> HIDE DEF N
<1>4. ASSUME NEW j \in 1 .. N
      PROVE  /\ l.netdevs[j].name = k.netdevs[j].name /\ l.netdevs[j].slot = k.netdevs[j].slot
             /\ l.netdevs[j].irq = k.netdevs[j].irq
             /\ j <= i + 1 => l.netdevs[j].irq \in l.callbacks
             /\ IF j <= i + 1 /\ RingIndex(m.fails) # -1
                THEN l.netdevs[j].state = "up" /\ l.netdevs[j].rx_buf_len_idx = RingIndex(m.fails)
                ELSE l.netdevs[j].state = k.netdevs[j].state
  <2>1. /\ g.netdevs[j].name = k.netdevs[j].name /\ g.netdevs[j].slot = k.netdevs[j].slot
        /\ g.netdevs[j].irq = k.netdevs[j].irq
        /\ j <= i => g.netdevs[j].irq \in g.callbacks
        /\ IF j <= i /\ RingIndex(m.fails) # -1
           THEN g.netdevs[j].state = "up" /\ g.netdevs[j].rx_buf_len_idx = RingIndex(m.fails)
           ELSE g.netdevs[j].state = k.netdevs[j].state
    BY Zenon DEF UpInv, N
  <2>2. /\ l.netdevs[j].name = g.netdevs[j].name /\ l.netdevs[j].slot = g.netdevs[j].slot
        /\ l.netdevs[j].irq = g.netdevs[j].irq
        /\ j # i + 1 \/ RingIndex(m.fails) = -1 => l.netdevs[j] = g.netdevs[j]
    BY <1>1, Zenon DEF Opened
  <2>3. RingIndex(m.fails) # -1 => /\ l.netdevs[i + 1].state = "up"
                                   /\ l.netdevs[i + 1].rx_buf_len_idx = RingIndex(m.fails)
    BY Zenon DEF Opened
  <2>4. CASE j = i + 1
    <3>1. ~(j <= i) /\ j <= i + 1
      BY <2>4, <1>3
    <3> QED
      BY <3>1, <2>1, <2>2, <2>3, <2>4, <1>2, Zenon
  <2>5. CASE j # i + 1
    <3>1. j <= i <=> j <= i + 1
      BY <2>5, <1>3
    <3> QED
      BY <3>1, <2>1, <2>2, <2>5, <1>2, Zenon
  <2> QED
    BY <2>4, <2>5
<1> QED
  BY <1>1, <1>2, <1>4, Zenon DEF UpInv, N

(* After the loop every registered device has been opened.                  *)
LEMMA UpIs ==
  ASSUME NEW m \in Machine, NEW k \in Kernel(m)
  PROVE  UpInv(m, k, Len(k.netdevs), netdev_bring_all_up(k, m.fails))
<1> DEFINE N == Len(k.netdevs)
           V == {l \in Kernel(m) : Len(l.netdevs) = N}
           F == [i \in 1 .. N |-> [l \in V |-> rtl8139_open(l, i, m.fails)]]
           f == CHOOSE f : f = [i \in 0 .. Len(k.netdevs) |->
                  IF i = 0 THEN k ELSE rtl8139_open(f[i - 1], i, m.fails)]
<1>1. N \in Nat /\ k \in V
  BY DEF Kernel
<1>2. F \in Bodies(N, V)
  <2>1. \A i \in 1 .. N : \A l \in V : rtl8139_open(l, i, m.fails) \in V
    <3>1. ASSUME NEW i \in 1 .. N, NEW l \in V PROVE rtl8139_open(l, i, m.fails) \in V
      <4>1. l \in Kernel(m) /\ i \in 1 .. Len(l.netdevs) /\ Len(l.netdevs) = N
        BY <3>1
      <4>2. Opened(m, l, i, m.fails, rtl8139_open(l, i, m.fails))
        BY <4>1, OpenIs
      <4> QED
        BY <4>1, <4>2, Zenon DEF Opened
    <3> QED
      BY <3>1
  <2> HIDE DEF V
  <2> QED
    BY <2>1 DEF Bodies
<1>3. PICK g : IsLoop(g, N, V, k, F)
  <2> HIDE DEF F, N, V
  <2> QED
    BY <1>1, <1>2, LoopExists
<1>4. g = [i \in 0 .. N |-> IF i = 0 THEN k ELSE rtl8139_open(g[i - 1], i, m.fails)]
  <2>1. g \in [0 .. N -> V] /\ g[0] = k /\ \A n \in 1 .. N : g[n] = F[n][g[n - 1]]
    BY <1>3 DEF IsLoop
  <2>2. \A n \in 1 .. N : g[n - 1] \in V
    <3> HIDE DEF F, N, V
    <3> QED
      BY <1>1, <2>1
  <2>3. \A n \in 1 .. N : F[n][g[n - 1]] = rtl8139_open(g[n - 1], n, m.fails)
    <3> HIDE DEF V
    <3> QED
      BY <2>2
  <2> HIDE DEF F, V
  <2> QED
    BY <2>1, <2>3, <1>1
<1>5. f = [i \in 0 .. Len(k.netdevs) |->
             IF i = 0 THEN k ELSE rtl8139_open(f[i - 1], i, m.fails)]
  BY <1>4, Zenon
<1>6. netdev_bring_all_up(k, m.fails) = f[Len(k.netdevs)]
  BY Zenon DEF netdev_bring_all_up
<1> HIDE DEF f, F, V, N
<1> DEFINE S == {i \in 0 .. N : UpInv(m, k, i, f[i])}
<1>7. 0 \in S
  <2>1. f[0] = k
    BY <1>1, <1>5 DEF N
  <2>2. UpInv(m, k, 0, k)
    <3>1. \A j \in 1 .. Len(k.netdevs) : ~(j <= 0)
      BY <1>1 DEF N
    <3> QED
      BY <3>1, Zenon DEF UpInv
  <2> QED
    BY <2>1, <2>2, <1>1
<1>8. ASSUME NEW i \in 0 .. N - 1, i \in S PROVE i + 1 \in S
  <2>1. f[i + 1] = rtl8139_open(f[i], i + 1, m.fails) /\ i + 1 \in 1 .. N /\ i + 1 \in 0 .. N
    BY <1>1, <1>5 DEF N
  <2>2. UpInv(m, k, i, f[i])
    BY <1>8
  <2>3. f[i] \in Kernel(m) /\ Len(f[i].netdevs) = N
    BY <2>2, Zenon DEF UpInv, N
  <2>4. Opened(m, f[i], i + 1, m.fails, f[i + 1])
    BY <2>1, <2>3, OpenIs
  <2>5. UpInv(m, k, i + 1, f[i + 1])
    BY <2>2, <2>4, UpStep DEF N
  <2> QED
    BY <2>1, <2>5
<1>9. \A i \in 0 .. N : i \in S
  <2> HIDE DEF S
  <2> QED
    BY <1>1, <1>7, <1>8, InductUpTo
<1> QED
  BY <1>1, <1>6, <1>9 DEF N

(* The heap had room for one of the three rings, or for none.               *)
LEMMA RingIndexIs ==
  ASSUME NEW fails
  PROVE  /\ RingIndex(fails) \in -1 .. 2
         /\ RingIndex(fails) # -1 <=> ~({"ring0", "ring1", "ring2"} \subseteq fails)
<1>1. RingIndex(fails) \in -1 .. 2
  BY SMT DEF RingIndex
<1>2. RingIndex(fails) = -1 <=> "ring0" \in fails /\ "ring1" \in fails /\ "ring2" \in fails
  BY SMT DEF RingIndex
<1> QED
  BY <1>1, <1>2

(* What maink leaves of every machine, the slots, the cards and the failing *)
(* allocations whatever they are.                                           *)
LEMMA Booted ==
  ASSUME NEW m \in Machine
  PROVE  /\ CardsStarted(maink(m)) /\ FirstCardServed(maink(m))
         /\ Served(maink(m)).state = "up" => Served(maink(m)).rx_buf_len_idx \in 0 .. 2
<1> DEFINE k == pci_enumerate_devices(m)
           l == maink(m)
           N == Len(l.netdevs)
           d == l.netdevs
<1>1. ScanInv(m, Len(m.slots), k)
  BY ScanIs
<1>2. k \in Kernel(m)
  BY <1>1, Zenon DEF ScanInv
<1>3. UpInv(m, k, Len(k.netdevs), l)
  BY <1>2, UpIs DEF maink
<1> HIDE DEF k, l
<1>4. l \in Kernel(m) /\ l.slots = k.slots /\ l.pci_devices = k.pci_devices /\ N = Len(k.netdevs)
  BY <1>3, Zenon DEF UpInv
<1>5. l.machine = m /\ d \in Seq(Device) /\ N \in Nat
  BY <1>4 DEF Kernel
<1>a. /\ \A i \in 1 .. N : Placed(m, Len(m.slots), k, i)
      /\ InSlotOrder(k) /\ Findable(k)
      /\ m.fails \cap {"rtl8139", "netdev"} = {} => FirstRegistered(m, Len(m.slots), k)
  BY <1>1, <1>4, Zenon DEF ScanInv
<1>6. ASSUME NEW i \in 1 .. N
      PROVE  /\ d[i].name = <<"eth", i - 1>> /\ d[i].slot = k.netdevs[i].slot
             /\ d[i].slot \in Cards(m) /\ d[i].irq = m.slots[d[i].slot].interrupt_line
             /\ d[i].irq \in l.callbacks
             /\ {"io", "master"} \subseteq l.slots[d[i].slot].command
             /\ "intx_disable" \notin l.slots[d[i].slot].command
             /\ d[i].state = "up" <=> RingIndex(m.fails) # -1
             /\ d[i].state = "up" => d[i].rx_buf_len_idx = RingIndex(m.fails)
  <2>1. /\ d[i].name = k.netdevs[i].name /\ d[i].slot = k.netdevs[i].slot
        /\ d[i].irq = k.netdevs[i].irq
        /\ i <= N => d[i].irq \in l.callbacks
        /\ IF i <= N /\ RingIndex(m.fails) # -1
           THEN d[i].state = "up" /\ d[i].rx_buf_len_idx = RingIndex(m.fails)
           ELSE d[i].state = k.netdevs[i].state
    BY <1>3, <1>4, Zenon DEF UpInv
  <2>2. i <= N
    BY <1>5
  <2>3. Placed(m, Len(m.slots), k, i)
    BY <1>a
  <2>4. d[i].state = "up" <=> RingIndex(m.fails) # -1
    BY <2>1, <2>2, <2>3 DEF Placed
  <2> QED
    BY <2>1, <2>2, <2>3, <2>4, <1>4, Zenon DEF Placed
<1> HIDE DEF d, N
<1>7. \A i, j \in 1 .. N : i < j => d[i].slot < d[j].slot /\ d[i].name # d[j].name
  <2>1. ASSUME NEW i \in 1 .. N, NEW j \in 1 .. N, i < j PROVE d[i].slot < d[j].slot
    <3>1. k.netdevs[i].slot < k.netdevs[j].slot
      BY <2>1, <1>a, <1>4 DEF InSlotOrder
    <3> QED
      BY <3>1, <1>6
  <2>2. ASSUME NEW i \in 1 .. N, NEW j \in 1 .. N, i < j PROVE d[i].name # d[j].name
    <3>1. d[i].name[2] = i - 1 /\ d[j].name[2] = j - 1
      BY <1>6
    <3> QED
      BY <3>1, <2>2, <1>5
  <2> QED
    BY <2>1, <2>2
<1>8. ASSUME m.fails \cap {"rtl8139", "netdev"} = {}, NEW s \in Cards(m)
      PROVE  (\E i \in 1 .. N : d[i].slot = s) <=> Cardinality({t \in Cards(m) : t <= s}) <= MAX_NETDEVS
  <2>1. s \in Seen(m, Len(m.slots))
    BY DEF Seen, Cards, Machine
  <2>2. Registered(k, s) <=> Cardinality(Seen(m, s)) <= MAX_NETDEVS
    BY <2>1, <1>8, <1>a DEF FirstRegistered
  <2>3. Registered(k, s) <=> \E i \in 1 .. N : d[i].slot = s
    BY <1>4, <1>6 DEF Registered
  <2> QED
    BY <2>2, <2>3 DEF Seen
<1>9. CardsStarted(l)
  <2>1. \A i \in 1 .. N : d[i].state = "up" <=> ~({"ring0", "ring1", "ring2"} \subseteq m.fails)
    BY <1>6, RingIndexIs, Zenon
  <2> QED
    BY <2>1, <1>5, <1>6, <1>7, <1>8, Zenon DEF CardsStarted, d, N
<1>10. ASSUME N > 0 PROVE Served(l) = d[1]
  <2> DEFINE at == {p \in 1 .. Len(l.pci_devices) : l.pci_devices[p].id = RTL8139}
  <2>1. PICK p : p \in at
    BY <1>10, <1>a, <1>4 DEF Findable
  <2>2. at \subseteq Nat /\ at # {}
    BY <2>1
  <2>3. \E x \in at : \A y \in at : x <= y
    <3> HIDE DEF at
    <3> QED
      BY <2>2, LeastElement
  <2>4. PICK x \in at : x = CHOOSE i \in at : \A j \in at : i <= j
    <3> HIDE DEF at
    <3> QED
      BY <2>3, Zenon
  <2>5. l.pci_devices[x].slot # 0
    BY <2>4, <1>a, <1>4 DEF Findable
  <2>6. pci_find_device(l, RTL8139) = l.pci_devices[x]
    BY <2>2, <2>4, Zenon DEF pci_find_device
  <2>7. pci_find_device(l, RTL8139) # NoPci
    <3>1. NoPci.slot = 0
      BY DEF NoPci
    <3> QED
      BY <2>5, <2>6, <3>1, Zenon
  <2> DEFINE named == {i \in 1 .. N : d[i].name = <<"eth", 0>>}
  <2>8. named = {1}
    <3>1. \A i \in 1 .. N : d[i].name = <<"eth", i - 1>>
      BY <1>6
    <3>2. \A i \in 1 .. N : d[i].name = <<"eth", 0>> <=> i = 1
      <4>1. ASSUME NEW i \in 1 .. N, d[i].name = <<"eth", 0>> PROVE i = 1
        <5>1. d[i].name[2] = i - 1 /\ d[i].name[2] = 0
          BY <3>1, <4>1
        <5> QED
          BY <5>1, <1>5
      <4>2. ASSUME NEW i \in 1 .. N, i = 1 PROVE d[i].name = <<"eth", 0>>
        <5>1. i - 1 = 0
          BY <4>2
        <5> QED
          BY <3>1, <5>1
      <4> QED
        BY <4>1, <4>2
    <3>3. 1 \in 1 .. N
      BY <1>5, <1>10
    <3> QED
      BY <3>2, <3>3
  <2>9. (CHOOSE i \in {1} : \A j \in {1} : i <= j) = 1
    BY SMT
  <2>10. netdev_get_by_name(l, <<"eth", 0>>) = d[1]
    <3>1. netdev_get_by_name(l, <<"eth", 0>>)
            = IF named = {} THEN NoDevice ELSE d[CHOOSE i \in named : \A j \in named : i <= j]
      BY Zenon DEF netdev_get_by_name, d, N
    <3> HIDE DEF named
    <3> QED
      BY <3>1, <2>8, <2>9, Zenon
  <2> QED
    BY <2>7, <2>10, Zenon DEF Served
<1>11. ASSUME N = 0 PROVE Served(l) = NoDevice
  <2>1. {i \in 1 .. N : d[i].name = <<"eth", 0>>} = {}
    BY <1>11
  <2>2. netdev_get_by_name(l, <<"eth", 0>>) = NoDevice
    BY <2>1, Zenon DEF netdev_get_by_name, d, N
  <2> QED
    BY <2>2, Zenon DEF Served
<1>12. FirstCardServed(l)
  <2>1. CASE N = 0
    <3>1. netdev_get_by_index(l, 0) = NoDevice
      BY <2>1, SMT DEF netdev_get_by_index, N
    <3>2. 1 .. N = {}
      BY <2>1
    <3> QED
      BY <2>1, <3>1, <3>2, <1>11, Zenon DEF FirstCardServed, N
  <2>2. CASE N > 0
    <3>1. netdev_get_by_index(l, 0) = d[1]
      BY <2>2, <1>5, SMT DEF netdev_get_by_index, N, d
    <3>2. \A i \in 1 .. N : d[1] = d[i] <=> i = 1
      <4>1. ASSUME NEW i \in 1 .. N, d[1] = d[i] PROVE i = 1
        <5>1. 1 \in 1 .. N
          BY <2>2, <1>5
        <5>2. 1 < i => d[1].name # d[i].name
          BY <5>1, <1>7
        <5> QED
          BY <5>2, <4>1, <1>5
      <4> QED
        BY <4>1
    <3> QED
      BY <2>2, <3>1, <3>2, <1>10, Zenon DEF FirstCardServed, d, N
  <2> QED
    BY <2>1, <2>2, <1>5
<1>13. ASSUME Served(l).state = "up" PROVE Served(l).rx_buf_len_idx \in 0 .. 2
  <2>1. N # 0
    <3>1. NoDevice.state = "none"
      BY DEF NoDevice
    <3>2. NoDevice.state # "up"
      BY <3>1
    <3> QED
      BY <3>2, <1>11, <1>13, Zenon
  <2>2. Served(l) = d[1] /\ 1 \in 1 .. N
    BY <2>1, <1>5, <1>10
  <2>3. d[1].rx_buf_len_idx = RingIndex(m.fails) /\ RingIndex(m.fails) # -1
    BY <2>2, <1>6, <1>13
  <2>4. RingIndex(m.fails) \in 0 .. 2
    BY <2>3, RingIndexIs
  <2> QED
    BY <2>2, <2>3, <2>4
<1> QED
  BY <1>9, <1>12, <1>13 DEF l

-----------------------------------------------------------------------------
(* The whole driver: what the handler, the system calls and the card do to  *)
(* the transmit ring is what TxRing allows.                                 *)

(* Buffers that are in use stay in use when a new one is: the ring keeps    *)
(* its own.                                                                 *)
LEMMA AllocatedKeepsRing ==
  ASSUME TxInv, NEW held \in SUBSET Buf, allocated \subseteq held
  PROVE  KeepsRing(held)
BY DEF TxInv, RingHoldsPending, KeepsRing

(* Every step of the driver and the card is a step of the transmit ring or  *)
(* leaves it alone.                                                         *)
LEMMA NicTxStep ==
  ASSUME TxInv, [Next]_vars
  PROVE  [TxNext]_tx_vars
<1>1. CASE \E frame \in Frame : Arrive(frame)
  BY <1>1 DEF Arrive
<1>2. CASE Send
  BY <1>2 DEF Send, TxNext
<1>a. ASSUME NEW held \in SUBSET Buf, allocated \subseteq held, NEW b \in Buf,
             b \notin allocated, rtl8139_transmit(b, held \cup {b})
      PROVE  TxNext
  <2>1. held \cup {b} \in SUBSET Buf /\ b \in (held \cup {b}) \ allocated
    BY <1>a
  <2>2. KeepsRing(held \cup {b})
    BY <2>1, <1>a, AllocatedKeepsRing
  <2> HIDE DEF rtl8139_transmit, KeepsRing
  <2> QED
    BY <1>a, <2>1, <2>2 DEF TxNext
<1>b. allocated \in SUBSET Buf
  BY DEF TxInv, TxTypeOK
<1>3. CASE sendto
  <2>1. PICK b \in Buf : netbuf_alloc(allocated, b) /\ rtl8139_transmit(b, allocated \cup {b})
    BY <1>3 DEF sendto
  <2>2. b \notin allocated
    BY <2>1 DEF netbuf_alloc
  <2> QED
    BY <2>1, <2>2, <1>a, <1>b
<1>4. CASE RxDeliver
  <2>1. PICK b \in Buf :
       /\ netbuf_alloc(allocated, b)
       /\ \E held \in {allocated \cup {b}, netbuf_free(allocated \cup {b}, b)} :
            \/ /\ allocated' = held
               /\ UNCHANGED <<cur_tx, dirty_tx, tx_bufs, tx_buffer, tx_status, dev_tx, outgoing>>
            \/ \E r \in Buf : netbuf_alloc(allocated \cup {b}, r) /\ rtl8139_transmit(r, held \cup {r})
    BY <1>4 DEF RxDeliver
  <2>2. PICK held \in {allocated \cup {b}, netbuf_free(allocated \cup {b}, b)} :
            \/ /\ allocated' = held
               /\ UNCHANGED <<cur_tx, dirty_tx, tx_bufs, tx_buffer, tx_status, dev_tx, outgoing>>
            \/ \E r \in Buf : netbuf_alloc(allocated \cup {b}, r) /\ rtl8139_transmit(r, held \cup {r})
    BY <2>1
  <2>3. held \in SUBSET Buf /\ allocated \subseteq held
    BY <2>1, <1>b DEF netbuf_alloc, netbuf_free
  <2>4. CASE /\ allocated' = held
             /\ UNCHANGED <<cur_tx, dirty_tx, tx_bufs, tx_buffer, tx_status, dev_tx, outgoing>>
    <3>1. KeepsRing(held)
      BY <2>3, AllocatedKeepsRing
    <3> QED
      BY <2>3, <2>4, <3>1 DEF TxNext, OtherBuffers
  <2>5. CASE \E r \in Buf : netbuf_alloc(allocated \cup {b}, r) /\ rtl8139_transmit(r, held \cup {r})
    <3>1. PICK r \in Buf : netbuf_alloc(allocated \cup {b}, r) /\ rtl8139_transmit(r, held \cup {r})
      BY <2>5
    <3>2. r \notin allocated
      BY <3>1 DEF netbuf_alloc
    <3> QED
      BY <3>1, <3>2, <2>3, <1>a
  <2> QED
    BY <2>2, <2>4, <2>5
<1>5. CASE TxClear
  BY <1>5 DEF TxClear, TxNext
<1>6. CASE \/ Interrupt \/ ReadStatus \/ Acknowledge \/ RxDone \/ RxSkip \/ RxSqueeze \/ TxDone
  BY <1>6 DEF Interrupt, ReadStatus, Acknowledge, RxDone, RxSkip, RxSqueeze, TxDone
<1>7. CASE UNCHANGED vars
  BY <1>7 DEF vars
<1> QED
  BY <1>1, <1>2, <1>3, <1>4, <1>5, <1>6, <1>7 DEF Next, rtl8139_interrupt

(* So the ring keeps its invariant in the whole driver.                     *)
LEMMA NicTxInvariant == Spec => []TxInv
<1>1. Init => TxInv
  BY TxInit DEF Init
<1>2. TxInv /\ [Next]_vars => TxInv'
  BY NicTxStep, TxStep
<1> QED
  BY <1>1, <1>2, PTL DEF Spec

(* The interrupt handler, the system calls that send and the card, in any   *)
(* interleaving, drive the transmit ring as the specification of the ring   *)
(* allows: all that is proved of TxSpec holds of the driver.                *)
THEOREM NicImplementsTxRing == Spec => ImplementsTxRing
<1>1. Init => rtl8139_init_ring
  BY DEF Init
<1>2. TxInv /\ [Next]_vars => [TxNext]_tx_vars
  BY NicTxStep
<1>3. Spec => TxSpec
  BY <1>1, <1>2, NicTxInvariant, PTL DEF Spec, TxSpec
<1> QED
  BY <1>3 DEF ImplementsTxRing

(* No step of the handler, of a system call or of the card changes a bounce *)
(* buffer the card may still read.                                          *)
THEOREM NicBounceBufferStable == Spec => BounceBufferStable
<1>1. ImplementsTxRing <=> TxSpec
  BY DEF ImplementsTxRing
<1> QED
  BY <1>1, NicImplementsTxRing, BounceBufferStableAlways, PTL
-----------------------------------------------------------------------------
(* Every step of the driver and of the card keeps the receive ring.         *)
LEMMA RxStep ==
  ASSUME RxInv, [Next]_vars
  PROVE  RxInv'
<1>1. CASE UNCHANGED rx_vars
  <2>1. UNCHANGED <<rx_ring, rx_buf_len, rx_config, cur_rx, RxBufPtr, RxBufAddr, arrived>>
    BY <1>1 DEF rx_vars
  <2> QED
    BY <2>1, Zenon DEF RxInv, ring_offset, RxLength
<1>2. ASSUME NEW f \in Frame, Arrive(f) PROVE RxInv'
  BY <1>2, ReceiveStep DEF Arrive
<1>3. CASE RxSkip \/ RxDeliver
  <2>1. ~RxBufEmpty /\ rtl8139_rx_advance
    BY <1>3 DEF RxSkip, RxDeliver
  <2> QED
    BY <2>1, AdvanceStep
<1>4. CASE \/ Send \/ sendto \/ Interrupt \/ ReadStatus \/ Acknowledge \/ RxDone
           \/ RxSqueeze \/ TxClear \/ TxDone \/ UNCHANGED vars
  BY <1>1, <1>4 DEF Send, sendto, Interrupt, ReadStatus, Acknowledge, RxDone, RxSqueeze, TxClear,
                    TxDone, vars
<1> QED
  BY <1>2, <1>3, <1>4 DEF Next, rtl8139_interrupt

(* The ring as rtl8139_open leaves it.                                      *)
LEMMA RxStart ==
  ASSUME Init, rx_config \in 0 .. 2
  PROVE  RxInv
<1>1. /\ rx_buf_len = RxLength(rx_config)
      /\ rx_ring = [o \in 0 .. rx_buf_len - 1 |-> NoByte]
      /\ cur_rx = 0 /\ RxBufPtr = U16 - 16 /\ RxBufAddr = 0
      /\ arrived = <<>>
  BY DEF Init
<1>2. rx_buf_len \in Nat \ {0} /\ U16 \in Nat \ {0} /\ 16 <= U16
  BY <1>1, RingLength, RxAssumption
<1>3. (0 - 16) % U16 = U16 - 16 /\ 0 \in 0 .. U16 - 1 /\ 0 % 4 = 0 /\ 0 \in 0 .. rx_buf_len - 1
  BY <1>2, SMT
<1>4. ring_offset = 0
  BY <1>1, <1>2, SMT DEF ring_offset
<1>5. arrived \in Seq(Queued(rx_buf_len)) /\ Len(arrived) = 0
  BY <1>1
<1>6. LaidOut(rx_buf_len, ring_offset, RxBufAddr, arrived)
  BY <1>1, <1>4, <1>5, SMT DEF LaidOut, StartOf
<1>7. InPlace(rx_buf_len, rx_ring, arrived)
  BY <1>5, SMT DEF InPlace
<1> QED
  BY <1>1, <1>3, <1>5, <1>6, <1>7, Zenon DEF RxInv

\* The tables stay as maink left them.
FromMachine == \E machine \in Machines : kernel = maink(machine)

(* No step after the boot changes the tables.                               *)
LEMMA KernelStays == FromMachine /\ [Next]_vars => FromMachine'
<1> SUFFICES ASSUME FromMachine, [Next]_vars PROVE FromMachine'
  OBVIOUS
<1>1. kernel' = kernel
  BY DEF Next, rtl8139_interrupt, Arrive, Send, sendto, Interrupt, ReadStatus, Acknowledge, RxDone,
         RxSkip, RxDeliver, RxSqueeze, TxClear, TxDone, vars, nic_vars
<1> QED
  BY <1>1 DEF FromMachine

(* Whatever is in the machine's slots and wherever memory runs short, maink *)
(* leaves every card that has a place in the registry and a receive ring    *)
(* running, and the handler serves the first one registered, for any number *)
(* of slots and of places in the registry.                                  *)
THEOREM CardsServedAlways == Spec => []CardsServed
<1>1. Init => FromMachine
  BY DEF Init, FromMachine
<1>2. FromMachine => CardsServed
  BY NicAssumption, Booted DEF FromMachine, CardsServed
<1> QED
  BY <1>1, <1>2, KernelStays, PTL DEF Spec

-----------------------------------------------------------------------------
(* The interrupt handler.                                                   *)

(* The inductive invariant: while there is a frame in the ring, or a        *)
(* descriptor to clear, its bit is set in the card's status register or in  *)
(* the copy that the handler has still to act on.                           *)
HandlerInv ==
  /\ IntrStatus \subseteq Interrupts /\ status \subseteq Interrupts
  /\ pc \in {"idle", "status", "ack", "rx", "tx"}
  /\ max_work \in 0 .. max_interrupt_work
  /\ squeezed \in BOOLEAN
  /\ arrived # <<>> /\ ~squeezed =>
       "Rx" \in IntrStatus \/ (pc \in {"ack", "rx"} /\ "Rx" \in status)
  /\ ClearGoesOn =>
       "Tx" \in IntrStatus \/ (pc \in {"ack", "rx", "tx"} /\ "Tx" \in status)

(* A frame taken for sending gives rtl8139_tx_clear nothing to do.          *)
LEMMA TransmitClear ==
  ASSUME TxInv, NEW b \in Buf, NEW held \in SUBSET Buf, rtl8139_transmit(b, held), ClearGoesOn'
  PROVE  ClearGoesOn
<1> USE TxAssumption
<1> DEFINE d == dirty_tx % NUM_TX_DESC
           entry == cur_tx % NUM_TX_DESC
<1>1. d \in Desc /\ entry \in Desc /\ Pending \in 0 .. NUM_TX_DESC
  BY TxFacts
<1>2. CASE Pending >= NUM_TX_DESC
  <2>1. UNCHANGED <<cur_tx, dirty_tx, tx_status>>
    BY <1>2 DEF rtl8139_transmit
  <2> QED
    BY <2>1 DEF ClearGoesOn, Pending
<1>3. CASE ~(Pending >= NUM_TX_DESC)
  <2>1. /\ tx_status' = [tx_status EXCEPT ![entry] = "started"] /\ dirty_tx' = dirty_tx
    BY <1>3 DEF rtl8139_transmit
  <2>2. tx_status'[d] = "sent"
    BY <2>1 DEF ClearGoesOn
  <2>3. tx_status \in [Desc -> {"host", "started", "sent"}] /\ entry = Place(d, Pending)
    BY DEF TxInv, TxTypeOK
  <2> HIDE DEF d, entry
  <2>4. d # entry /\ tx_status[d] = "sent"
    BY <1>1, <2>1, <2>2, <2>3
  <2>5. Pending # 0
    BY <1>1, <2>3, <2>4, SMT DEF Place, Desc
  <2> QED
    BY <1>1, <2>4, <2>5, SMT DEF ClearGoesOn, d
<1> QED
  BY <1>2, <1>3

(* What the stack does with a frame gives rtl8139_tx_clear nothing to do.   *)
LEMMA DeliverClear ==
  ASSUME TxInv, sendto \/ RxDeliver, ClearGoesOn'
  PROVE  ClearGoesOn
<1>b. allocated \in SUBSET Buf
  BY DEF TxInv, TxTypeOK
<1>1. CASE sendto
  <2>1. PICK b \in Buf : rtl8139_transmit(b, allocated \cup {b})
    BY <1>1 DEF sendto
  <2>2. allocated \cup {b} \in SUBSET Buf
    BY <1>b
  <2> QED
    BY <2>1, <2>2, TransmitClear
<1>2. CASE RxDeliver
  <2>1. PICK b \in Buf :
       \E held \in {allocated \cup {b}, netbuf_free(allocated \cup {b}, b)} :
            \/ /\ allocated' = held
               /\ UNCHANGED <<cur_tx, dirty_tx, tx_bufs, tx_buffer, tx_status, dev_tx, outgoing>>
            \/ \E r \in Buf : netbuf_alloc(allocated \cup {b}, r) /\ rtl8139_transmit(r, held \cup {r})
    BY <1>2 DEF RxDeliver
  <2>2. PICK held \in {allocated \cup {b}, netbuf_free(allocated \cup {b}, b)} :
            \/ /\ allocated' = held
               /\ UNCHANGED <<cur_tx, dirty_tx, tx_bufs, tx_buffer, tx_status, dev_tx, outgoing>>
            \/ \E r \in Buf : netbuf_alloc(allocated \cup {b}, r) /\ rtl8139_transmit(r, held \cup {r})
    BY <2>1
  <2>3. CASE UNCHANGED <<cur_tx, dirty_tx, tx_status>>
    BY <2>3 DEF ClearGoesOn, Pending
  <2>4. CASE \E r \in Buf : rtl8139_transmit(r, held \cup {r})
    <3>1. PICK r \in Buf : rtl8139_transmit(r, held \cup {r})
      BY <2>4
    <3>2. held \cup {r} \in SUBSET Buf
      BY <1>b DEF netbuf_free
    <3> QED
      BY <3>1, <3>2, TransmitClear
  <2> QED
    BY <2>2, <2>3, <2>4
<1> QED
  BY <1>1, <1>2

(* Every step of the handler, and every step that happens between two of    *)
(* its own, keeps the promises its program counter makes.                   *)
LEMMA HandlerStep ==
  ASSUME TxInv, RxInv, HandlerInv, [Next]_vars
  PROVE  HandlerInv'
<1> USE DEF HandlerInv
<1>1. ASSUME NEW frame \in Frame, Arrive(frame) PROVE HandlerInv'
  <2>1. ClearGoesOn' = ClearGoesOn
    BY <1>1 DEF Arrive, tx_vars, ClearGoesOn, Pending
  <2> QED
    BY <1>1, <2>1 DEF Arrive, Interrupts
<1>2. CASE Send
  BY <1>2 DEF Send, rx_vars, Interrupts
<1>3. CASE sendto
  <2>1. UNCHANGED <<arrived, IntrStatus, pc, status, max_work, squeezed>>
    BY <1>3 DEF sendto, rx_vars, nic_vars
  <2> QED
    BY <1>3, <2>1, DeliverClear
<1>4. CASE RxDeliver
  <2>1. UNCHANGED <<IntrStatus, pc, status, max_work>> /\ pc = "rx" /\ "Rx" \in status /\ squeezed' = FALSE
    BY <1>4 DEF RxDeliver
  <2> QED
    BY <1>4, <2>1, DeliverClear
<1>5. CASE TxClear
  <2>1. UNCHANGED <<arrived, IntrStatus, pc, status, max_work, squeezed>> /\ pc = "tx" /\ "Tx" \in status
    BY <1>5 DEF TxClear, rx_vars, nic_vars
  <2> QED
    BY <2>1
<1>6. ASSUME UNCHANGED tx_vars PROVE ClearGoesOn' = ClearGoesOn
  BY <1>6 DEF tx_vars, ClearGoesOn, Pending
<1>7. CASE RxSkip
  <2>1. ClearGoesOn' = ClearGoesOn
    BY <1>6, <1>7 DEF RxSkip
  <2> QED
    BY <1>7, <2>1 DEF RxSkip
<1>8. CASE RxDone
  <2>1. ClearGoesOn' = ClearGoesOn /\ arrived' = arrived
    BY <1>6, <1>8 DEF RxDone, rx_vars
  <2>2. RxBufEmpty => arrived = <<>>
    BY InStep DEF RingInStep
  <2> QED
    BY <1>8, <2>1, <2>2 DEF RxDone
<1>9. CASE Interrupt \/ ReadStatus
  <2>1. ClearGoesOn' = ClearGoesOn /\ arrived' = arrived
    BY <1>6, <1>9 DEF Interrupt, ReadStatus, rx_vars
  <2>2. max_work' \in 0 .. max_interrupt_work
    BY <1>9, NicAssumption DEF Interrupt, ReadStatus
  <2> QED
    BY <1>9, <2>1, <2>2 DEF Interrupt, ReadStatus
<1>10. CASE Acknowledge \/ RxSqueeze \/ TxDone
  <2>1. ClearGoesOn' = ClearGoesOn /\ arrived' = arrived
    BY <1>6, <1>10 DEF Acknowledge, RxSqueeze, TxDone, rx_vars
  <2> QED
    BY <1>10, <2>1 DEF Acknowledge, RxSqueeze, TxDone
<1>11. CASE UNCHANGED vars
  <2>1. ClearGoesOn' = ClearGoesOn
    BY <1>6, <1>11 DEF vars
  <2> QED
    BY <1>11, <2>1 DEF vars, rx_vars, nic_vars
<1> QED
  BY <1>1, <1>2, <1>3, <1>4, <1>5, <1>7, <1>8, <1>9, <1>10, <1>11 DEF Next, rtl8139_interrupt

(* The invariant of the driver: of its two rings and of its handler.        *)
LEMMA NicInvariant == Spec => [](TxInv /\ RxInv /\ HandlerInv)
<1>1. ASSUME Init PROVE RxInv /\ HandlerInv
  <2>1. PICK m \in Machines : kernel = maink(m)
    BY <1>1 DEF Init
  <2>2. m \in Machine
    BY NicAssumption
  <2>3. rx_config \in 0 .. 2
    <3>1. CASE Up
      <4>1. Served(kernel).rx_buf_len_idx \in 0 .. 2
        BY <3>1, <2>1, <2>2, Booted DEF Up
      <4> QED
        BY <3>1, <4>1, <1>1, Zenon DEF Init
    <3>2. CASE ~Up
      <4>1. rx_config = 0
        BY <3>2, <1>1, Zenon DEF Init
      <4> QED
        BY <4>1
    <3> QED
      BY <3>1, <3>2
  <2>4. RxInv
    BY <2>3, <1>1, RxStart
  <2>5. ~ClearGoesOn
    BY <1>1, TxAssumption, SMT DEF Init, rtl8139_init_ring, ClearGoesOn, Pending, Minus
  <2>6. /\ IntrStatus = {} /\ status = {} /\ pc = "idle" /\ max_work = 0 /\ squeezed = FALSE
        /\ arrived = <<>> /\ max_work \in 0 .. max_interrupt_work
    BY <1>1, NicAssumption DEF Init
  <2> QED
    BY <2>4, <2>5, <2>6 DEF HandlerInv
<1>2. Init => TxInv
  BY TxInit DEF Init
<1>3. TxInv /\ RxInv /\ HandlerInv /\ [Next]_vars => TxInv' /\ RxInv' /\ HandlerInv'
  BY NicTxStep, TxStep, RxStep, HandlerStep
<1> QED
  BY <1>1, <1>2, <1>3, PTL DEF Spec

(* What rtl8139_rx copies out of the receive ring is the oldest frame in    *)
(* it, no byte more or less, wherever frames wrap and however often the     *)
(* 16-bit pointers do: for rings of any length that divides their range and *)
(* frames of any size that leaves room for header, checksum and alignment.  *)
THEOREM FramesIntactAlways == Spec => []FramesIntact
<1>1. ASSUME TxInv, RxInv, HandlerInv PROVE FramesIntact
  <2>1. RingInStep /\ OldestFrameWhole
    BY <1>1, InStep, CopyIsWhole
  <2>2. CardLength = rx_buf_len /\ RxBufPtr \in 0 .. U16 - 1
    BY <1>1, RxFacts
  <2>3. TypeOK
    BY <1>1, <2>2, Zenon DEF TypeOK, TxInv, RxInv, HandlerInv
  <2> QED
    BY <2>1, <2>3 DEF FramesIntact
<1> QED
  BY <1>1, NicInvariant, PTL

(* When the handler does not run, a frame in the ring or a descriptor that  *)
(* was sent keeps the interrupt line up: no event is lost between two of    *)
(* the handler's accesses to the card.                                      *)
THEOREM NothingForgottenAlways == Spec => []NothingForgotten
<1>1. HandlerInv => NothingForgotten
  BY DEF HandlerInv, NothingForgotten
<1> QED
  BY <1>1, NicInvariant, PTL

=============================================================================
