-------------------------------- MODULE Boot --------------------------------
(***************************************************************************)
(* How the kernel finds and starts its network cards: the PCI scan of       *)
(* src/src/drivers/pci/pci.c, rtl8139_init and rtl8139_open of              *)
(* src/src/drivers/net/rtl8139.c, and the registry of network devices of    *)
(* src/src/sys/net/netdev.c, in the order maink calls them.  All of it runs *)
(* with interrupts off, before the first process: a function from the       *)
(* machine to the kernel's tables.                                          *)
(*                                                                          *)
(* A machine is [slots, fails].  slots is the configuration space: one      *)
(* record per bus and device number, of what function 0 answers there.      *)
(* fails is the set of allocations that find no memory.                     *)
(***************************************************************************)
EXTENDS Integers, Sequences, FiniteSets

CONSTANT MAX_NETDEVS

ASSUME BootAssumption == MAX_NETDEVS \in Nat \ {0}

RTL8139 == "10ec:8139"
PCI_INVALID_VENDOR == "ffff:ffff"
NoDevice == [name |-> <<"", 0>>, slot |-> 0, irq |-> 0, state |-> "none", rx_buf_len_idx |-> -1]
NoPci == [slot |-> 0, id |-> "", class_code |-> 0, interrupt_line |-> 0]

\* What function 0 of a slot answers, with the bits of its command register.
PciSlot == [id : STRING, class_code : Nat, interrupt_line : Nat,
            command : SUBSET {"io", "memory", "master", "intx_disable"}]

\* The allocations that may find no memory.
Allocation == {"rtl8139", "netdev", "ring0", "ring1", "ring2"}
Machine == [slots : Seq(PciSlot), fails : SUBSET Allocation]

\* The registers of one function; a slot without a card reads all ones.
pci_config_read_32(slots, slot, register) ==
  IF slots[slot].id = PCI_INVALID_VENDOR /\ register # "id" THEN {} ELSE slots[slot][register]

pci_config_write_32(slots, slot, register, value) ==
  [slots EXCEPT ![slot][register] = value]

\* What pci_devices holds of a slot, NoPci for an empty one.
pci_read_device_info(slots, slot) ==
  IF pci_config_read_32(slots, slot, "id") = PCI_INVALID_VENDOR THEN NoPci
  ELSE [slot |-> slot,
        id |-> pci_config_read_32(slots, slot, "id"),
        class_code |-> pci_config_read_32(slots, slot, "class_code"),
        interrupt_line |-> pci_config_read_32(slots, slot, "interrupt_line")]

pci_find_device(k, id) ==
  LET at == {i \in 1 .. Len(k.pci_devices) : k.pci_devices[i].id = id} IN
  IF at = {} THEN NoPci ELSE k.pci_devices[CHOOSE i \in at : \A j \in at : i <= j]

\* "eth" and a counter that only grows.
generate_device_name(k) == <<"eth", k.eth_counter>>

netdev_get_by_name(k, name) ==
  LET at == {i \in 1 .. Len(k.netdevs) : k.netdevs[i].name = name} IN
  IF at = {} THEN NoDevice ELSE k.netdevs[CHOOSE i \in at : \A j \in at : i <= j]

netdev_get_by_index(k, i) == IF i >= Len(k.netdevs) THEN NoDevice ELSE k.netdevs[i + 1]

\* A device at the end of the registry, if it and the heap have room.
netdev_create(k, pci_dev, fails) ==
  IF Len(k.netdevs) >= MAX_NETDEVS \/ "netdev" \in fails THEN k
  ELSE [k EXCEPT
         !.netdevs = Append(@, [name |-> generate_device_name(k), slot |-> pci_dev.slot,
                                irq |-> pci_dev.interrupt_line, state |-> "down",
                                rx_buf_len_idx |-> -1]),
         !.eth_counter = @ + 1]

\* Mutant: the card may not write to memory.
rtl8139_init_no_master(k, pci_dev, fails) ==
  LET cmd == pci_config_read_32(k.slots, pci_dev.slot, "command")
      on == [k EXCEPT !.slots = pci_config_write_32(k.slots, pci_dev.slot, "command",
                                  (cmd \cup {"io"}) \ {"intx_disable"})] IN
  IF "rtl8139" \in fails THEN on ELSE netdev_create(on, pci_dev, fails)

(* The card may use I/O ports, memory and its interrupt line from here on,  *)
(* whether or not the rest succeeds.                                        *)
rtl8139_init(k, pci_dev, fails) ==
  LET cmd == pci_config_read_32(k.slots, pci_dev.slot, "command")
      on == [k EXCEPT !.slots = pci_config_write_32(k.slots, pci_dev.slot, "command",
                                  (cmd \cup {"io", "master"}) \ {"intx_disable"})] IN
  IF "rtl8139" \in fails THEN on ELSE netdev_create(on, pci_dev, fails)

\* One turn of the scan: note the device, start its driver.
ScanSlot(k, slot, fails) ==
  LET device == pci_read_device_info(k.slots, slot)
      noted == [k EXCEPT !.pci_devices = Append(@, device)] IN
  IF device = NoPci THEN k
  ELSE IF device.id = RTL8139 THEN rtl8139_init(noted, device, fails)
  ELSE noted

\* The tables of a kernel that has not looked yet.
Unscanned(machine) ==
  [machine |-> machine, slots |-> machine.slots, pci_devices |-> <<>>, netdevs |-> <<>>,
   eth_counter |-> 0, callbacks |-> {}]

pci_enumerate_devices(machine) ==
  LET after[n \in 0 .. Len(machine.slots)] ==
        IF n = 0 THEN Unscanned(machine) ELSE ScanSlot(after[n - 1], n, machine.fails)
  IN  after[Len(machine.slots)]

idt_register_interrupt_callback(k, irq) == [k EXCEPT !.callbacks = @ \cup {irq}]

\* The largest of the three rings the heap has room for, -1 for none.
RingIndex(fails) ==
  IF "ring2" \notin fails THEN 2 ELSE IF "ring1" \notin fails THEN 1
  ELSE IF "ring0" \notin fails THEN 0 ELSE -1

(* The interrupt is registered first, so a card whose ring finds no memory  *)
(* stays registered, and down.                                              *)
rtl8139_open(k, i, fails) ==
  LET on == idt_register_interrupt_callback(k, k.netdevs[i].irq)
      idx == RingIndex(fails) IN
  IF idx = -1 THEN on
  ELSE [on EXCEPT !.netdevs[i].rx_buf_len_idx = idx, !.netdevs[i].state = "up"]

netdev_bring_all_up(k, fails) ==
  LET after[i \in 0 .. Len(k.netdevs)] ==
        IF i = 0 THEN k ELSE rtl8139_open(after[i - 1], i, fails)
  IN  after[Len(k.netdevs)]

\* The part of maink that starts the network.
maink(machine) == netdev_bring_all_up(pci_enumerate_devices(machine), machine.fails)

\* The device the interrupt handler serves, whichever card interrupts.
Served(k) ==
  IF pci_find_device(k, RTL8139) = NoPci THEN NoDevice ELSE netdev_get_by_name(k, <<"eth", 0>>)
-----------------------------------------------------------------------------
Cards(machine) == {s \in 1 .. Len(machine.slots) : machine.slots[s].id = RTL8139}

(* What maink leaves: every card that found memory and a place in the       *)
(* registry, in slot order, each under a name of its own, on the interrupt  *)
(* line its slot reports, with a handler on that line, able to write to     *)
(* memory, and up if the heap had room for any of the three rings.          *)
CardsStarted(k) ==
  LET cards == Cards(k.machine)
      fails == k.machine.fails
      Before(s) == {t \in cards : t <= s} IN
  /\ \A i, j \in 1 .. Len(k.netdevs) :
       i < j => k.netdevs[i].slot < k.netdevs[j].slot /\ k.netdevs[i].name # k.netdevs[j].name
  /\ \A i \in 1 .. Len(k.netdevs) :
       LET d == k.netdevs[i] IN
       /\ d.slot \in cards
       /\ d.irq = k.machine.slots[d.slot].interrupt_line /\ d.irq \in k.callbacks
       /\ {"io", "master"} \subseteq k.slots[d.slot].command
       /\ "intx_disable" \notin k.slots[d.slot].command
       /\ d.state = "up" <=> ~({"ring0", "ring1", "ring2"} \subseteq fails)
  /\ fails \cap {"rtl8139", "netdev"} = {} =>
       \A s \in cards : (\E i \in 1 .. Len(k.netdevs) : k.netdevs[i].slot = s)
                        <=> Cardinality(Before(s)) <= MAX_NETDEVS

(* The interrupt handler looks up "eth0" on every interrupt of every card.  *)
(* It serves the first card registered, and no other.                       *)
FirstCardServed(k) ==
  /\ Served(k) = netdev_get_by_index(k, 0)
  /\ \A i \in 1 .. Len(k.netdevs) : Served(k) = k.netdevs[i] <=> i = 1
=============================================================================
