------------------------------- MODULE MCNic -------------------------------
(* Machines for Nic: a network card behind another device with memory for   *)
(* the middle ring, three cards for a registry of two, and machines whose   *)
(* network stays down.                                                      *)
EXTENDS Nic

Card(irq) == [id |-> RTL8139, class_code |-> 2, interrupt_line |-> irq,
              command |-> {"intx_disable"}]
Bridge == [id |-> "8086:1237", class_code |-> 6, interrupt_line |-> 0, command |-> {"io"}]
Empty == [id |-> PCI_INVALID_VENDOR, class_code |-> 0, interrupt_line |-> 0, command |-> {}]

MCFrames == {[size |-> 5, multicast |-> FALSE], [size |-> 8, multicast |-> TRUE]}

MCMachines == {
  [slots |-> <<Bridge, Empty, Card(11)>>, fails |-> {"ring2"}],
  [slots |-> <<Card(10), Card(11), Bridge, Card(11)>>, fails |-> {"ring0", "ring1", "ring2"}],
  [slots |-> <<Card(10), Card(11)>>, fails |-> {"netdev"}],
  [slots |-> <<Card(9)>>, fails |-> {"rtl8139"}],
  [slots |-> <<Bridge, Empty>>, fails |-> {}]}
=============================================================================
