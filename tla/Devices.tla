------------------------------ MODULE Devices -------------------------------
(***************************************************************************)
(* Device discovery of axdriver: the drivers a build selects, the PCI bus  *)
(* with its BARs and the virtio MMIO regions, the probing of every driver  *)
(* and the containers that the file system, the network and the display    *)
(* take their device from. What the bus holds is found one function (or    *)
(* region) at a time; a size of a BAR is a number of units.                *)
(***************************************************************************)
EXTENDS Integers, Sequences, SequencesExt

CONSTANTS Builds,          \* [bus, dyn, features]
          Functions,       \* what a PCI function may be: [standard, id, bars, ok]
          Regions,         \* what a virtio MMIO region may hold: [type, ok]
          MaxDevices,      \* functions or regions scanned
          PCI_BAR_NUM, RangeBase, RangeSize,
          NIL

VARIABLES build, stage,
          scanned,         \* the functions or regions so far
          bar,             \* the BAR of the last function, while configured
          assigned,        \* <<function, BAR, address, size>> given out
          current,         \* PciRangeAllocator::current; NIL without a range
          enabled,         \* functions whose command register was set
          devices,         \* AllDevices: each category a sequence
          found,           \* every device a driver returned (ghost)
          used             \* what the subsystems took

vars == <<build, stage, scanned, bar, assigned, current, enabled, devices, found, used>>

Categories == {"net", "block", "display"}

-----------------------------------------------------------------------------
\* build.rs: the first feature of each list, or with dyn all of them.
FeatureList == [net |-> <<"ixgbe", "virtio-net">>, block |-> <<"ramdisk", "bcm2835-sdhci", "virtio-blk">>,
                display |-> <<"virtio-gpu">>]
Selected(c) ==
    LET has == SelectSeq(FeatureList[c], LAMBDA f : f \in build.features)
    IN  IF build.dyn \/ has = <<>> THEN ToSet(has) ELSE {has[1]}

\* for_each_drivers!, in its order.
for_each_drivers == SelectSeq(<<"virtio-net", "virtio-blk", "virtio-gpu", "ramdisk", "bcm2835-sdhci", "ixgbe">>,
                              LAMBDA d : \E c \in Categories : d \in Selected(c))
DEVICE_TYPE(d) == CHOOSE c \in Categories : d \in ToSet(FeatureList[c])

\* AxDeviceContainer: with dyn a Vec, otherwise an Option, which keeps the first
\* device. Each device is <<driver, place>>.
PushVec(devs, dev) == Append(devs, dev)
PushOption(devs, dev) == IF devs = <<>> THEN <<dev>> ELSE devs
push(devs, dev) == IF build.dyn THEN PushVec(devs, dev) ELSE PushOption(devs, dev)
add_device(devs, dev) == [devs EXCEPT ![DEVICE_TYPE(dev[1])] = push(@, dev)]
AddAll(list) == /\ devices' = FoldSeq(LAMBDA dev, devs : add_device(devs, dev), devices, Reverse(list))
                /\ found' = found \o list

Init ==
    /\ build \in Builds /\ stage = "global" /\ scanned = <<>> /\ bar = NIL
    /\ assigned = {} /\ enabled = {}
    /\ current = IF build.bus = "pci" /\ build.range THEN RangeBase ELSE NIL
    /\ devices = [c \in Categories |-> <<>>] /\ found = <<>> /\ used = [c \in Categories |-> NIL]

\* probe: first the drivers that need no bus, of which the SD card may be missing.
probe_global(d, card) == d = "ramdisk" \/ (d = "bcm2835-sdhci" /\ card)
probe ==
    /\ stage = "global" /\ stage' = "bus"
    /\ \E card \in BOOLEAN :
          LET list == SelectSeq(for_each_drivers, LAMBDA d : probe_global(d, card))
          IN  AddAll([i \in DOMAIN list |-> <<list[i], 0>>])
    /\ UNCHANGED <<build, scanned, bar, assigned, current, enabled, used>>

-----------------------------------------------------------------------------
\* PciRangeAllocator::alloc: <<the address or NIL, current after>>.
AlignUp(a, n) == ((a + n - 1) \div n) * n
\* Variant: the address is not aligned to the size.
AllocUnaligned(size) == IF current + size > RangeBase + RangeSize THEN NIL ELSE current
alloc(size) ==
    LET ret == AlignUp(current, size)
    IN  IF size \notin {1, 2, 4, 8} \/ ret + size > RangeBase + RangeSize THEN NIL ELSE ret

\* A function is found; where there is a range no firmware has assigned BARs.
enumerate_bus ==
    /\ stage = "bus" /\ build.bus = "pci" /\ bar = NIL /\ Len(scanned) < MaxDevices
    /\ \E f \in Functions :
          /\ build.range => \A b \in ToSet(f.bars) : b.address = 0
          /\ scanned' = Append(scanned, f) /\ bar' = IF f.standard THEN 0 ELSE NIL
    /\ UNCHANGED <<build, stage, assigned, current, enabled, devices, found, used>>

\* One turn of the loop of config_pci_device. Without a range, and with the
\* range used up, a BAR that needs an address ends the boot or the function.
Unassigned(b) == b.kind \in {"mem32", "mem64"} /\ b.size > 0 /\ b.address = 0
TakesEntries(b) == IF b.kind = "mem64" THEN 2 ELSE 1
config_bar ==
    /\ bar # NIL /\ bar < PCI_BAR_NUM
    /\ LET b == Last(scanned).bars[bar + 1]
       IN  \/ /\ ~Unassigned(b) /\ bar' = bar + TakesEntries(b)
              /\ UNCHANGED <<stage, scanned, assigned, current>>
           \/ /\ Unassigned(b) /\ current = NIL /\ stage' = "panicked" /\ bar' = NIL
              /\ UNCHANGED <<scanned, assigned, current>>
           \/ /\ Unassigned(b) /\ current # NIL /\ alloc(b.size) = NIL /\ bar' = NIL
              /\ UNCHANGED <<stage, scanned, assigned, current>>
           \/ /\ Unassigned(b) /\ current # NIL /\ alloc(b.size) # NIL
              /\ scanned' = [scanned EXCEPT ![Len(scanned)].bars[bar + 1].address = alloc(b.size)]
              /\ assigned' = assigned \cup {<<Len(scanned), bar, alloc(b.size), b.size>>}
              /\ current' = alloc(b.size) + b.size /\ bar' = bar + TakesEntries(b) /\ UNCHANGED stage
    /\ UNCHANGED <<build, enabled, devices, found, used>>

-----------------------------------------------------------------------------
\* Identifiers are <<vendor, device>>. virtio_device_type of the virtio crate
\* takes the transitional ones apart from 0x1040 plus the type.
VirtioVendor == 6900             \* 0x1af4
IntelVendor == 32902
Ixgbe82599 == 4347
virtio_device_type(id) == CASE id[2] = 4096 -> "Network" [] id[2] = 4097 -> "Block"
                            [] id[2] = 4161 -> "Network" [] id[2] = 4162 -> "Block"
                            [] id[2] = 4176 -> "GPU" [] OTHER -> NIL
as_dev_type(t) == CASE t = "Block" -> "block" [] t = "Network" -> "net" [] t = "GPU" -> "display" [] OTHER -> NIL
probe_pci_device(f) == as_dev_type(virtio_device_type(f.id))
probe_mmio_device(r) == as_dev_type(r.type)

\* probe_pci and probe_mmio of the virtio driver of type t: the identifiers it
\* tries, and the type the transport reports.
PciIds(t) == CASE t = "net" -> {4096, 4160} [] t = "block" -> {4097, 4161} [] t = "display" -> {4176}
VirtioProbePci(t, f) == f.id[1] = VirtioVendor /\ f.id[2] \in PciIds(t) /\ probe_pci_device(f) = t
VirtioProbeMmio(t, r) == probe_mmio_device(r) = t
IxgbeProbePci(f) == f.id = <<IntelVendor, Ixgbe82599>> /\ f.bars[1].kind # "io"
IsVirtio(d) == d \in {"virtio-net", "virtio-blk", "virtio-gpu"}
Matches(d, f) == IF IsVirtio(d) THEN VirtioProbePci(DEVICE_TYPE(d), f) ELSE d = "ixgbe" /\ IxgbeProbePci(f)

\* The first driver that returns a device ends the search. Where the device
\* cannot be initialised the virtio network and block drivers return none, the
\* others end the boot.
Tried(list) == SelectSeq(list, LAMBDA d : Matches(d, Last(scanned)))
Fatal(d) == d \in {"ixgbe", "virtio-gpu"}
probe_pci ==
    /\ bar # NIL /\ bar >= PCI_BAR_NUM /\ bar' = NIL
    /\ enabled' = enabled \cup {Len(scanned)}
    /\ LET tried == Tried(for_each_drivers)
       IN  IF tried = <<>> \/ (~Last(scanned).ok /\ ~Fatal(tried[1])) THEN UNCHANGED <<stage, devices, found>>
           ELSE IF ~Last(scanned).ok THEN stage' = "panicked" /\ UNCHANGED <<devices, found>>
           ELSE AddAll(<<<<tried[1], Len(scanned)>>>>) /\ UNCHANGED stage
    /\ UNCHANGED <<build, scanned, assigned, current, used>>

\* The MMIO bus: each region is offered to the virtio drivers in turn.
probe_mmio ==
    /\ stage = "bus" /\ build.bus = "mmio" /\ Len(scanned) < MaxDevices
    /\ \E r \in Regions :
          LET tried == SelectSeq(for_each_drivers, LAMBDA d : IsVirtio(d) /\ VirtioProbeMmio(DEVICE_TYPE(d), r))
          IN  /\ scanned' = Append(scanned, r)
              /\ IF tried = <<>> \/ (~r.ok /\ ~Fatal(tried[1])) THEN UNCHANGED <<stage, devices, found>>
                 ELSE IF ~r.ok THEN stage' = "panicked" /\ UNCHANGED <<devices, found>>
                 ELSE AddAll(<<<<tried[1], Len(scanned) + 1>>>>) /\ UNCHANGED stage
    /\ UNCHANGED <<build, bar, assigned, current, enabled, used>>

\* init_drivers returns, and each subsystem of the build takes one device.
init_drivers ==
    /\ stage = "bus" /\ bar = NIL /\ stage' = "ready"
    /\ UNCHANGED <<build, scanned, bar, assigned, current, enabled, devices, found, used>>
take_one(c) ==
    /\ stage = "ready" /\ used[c] = NIL /\ Selected(c) # {}
    /\ IF devices[c] = <<>> THEN stage' = "panicked" /\ UNCHANGED <<devices, used>>
       ELSE /\ used' = [used EXCEPT ![c] = Head(devices[c])]
            /\ devices' = [devices EXCEPT ![c] = Tail(@)] /\ UNCHANGED stage
    /\ UNCHANGED <<build, scanned, bar, assigned, current, enabled, found>>

Next == probe \/ enumerate_bus \/ config_bar \/ probe_pci \/ probe_mmio \/ init_drivers
        \/ \E c \in Categories : take_one(c)

-----------------------------------------------------------------------------
\* The addresses given to BARs lie in the range, are aligned to their sizes and
\* do not overlap; a device is only used on a function that was enabled, with
\* every memory BAR assigned; each subsystem uses the first device found of its
\* category; and no working device of the identifiers listed in SupportedIds is
\* missed or found twice. The modern network and block devices of virtio are not
\* among them (ModernFound): virtio.rs:114 asks for 0x1040 and 0x1041 where they
\* have 0x1041 and 0x1042.
SupportedIds == [d \in {"virtio-net", "virtio-blk", "virtio-gpu", "ixgbe"} |->
                    CASE d = "virtio-net" -> {<<VirtioVendor, 4096>>} [] d = "virtio-blk" -> {<<VirtioVendor, 4097>>}
                      [] d = "virtio-gpu" -> {<<VirtioVendor, 4176>>} [] d = "ixgbe" -> {<<IntelVendor, Ixgbe82599>>}]
FoundAll(ids) ==
    \A n \in enabled : \A d \in DOMAIN ids :
       d \in ToSet(for_each_drivers) /\ scanned[n].id \in ids[d] /\ scanned[n].ok /\ scanned[n].bars[1].kind # "io" /\ stage = "ready"
          => Len(SelectSeq(found, LAMBDA dev : dev[2] = n)) = 1
Of(c) == SelectSeq(found, LAMBDA dev : DEVICE_TYPE(dev[1]) = c)
DevicesReady ==
    /\ \A a \in assigned : /\ a[3] >= RangeBase /\ a[3] + a[4] <= RangeBase + RangeSize /\ a[3] % a[4] = 0
                           /\ \A b \in assigned : a = b \/ a[3] + a[4] <= b[3] \/ b[3] + b[4] <= a[3]
    /\ build.bus = "pci" => \A i \in DOMAIN found : found[i][2] # 0 =>
          /\ found[i][2] \in enabled
          /\ \A k \in DOMAIN scanned[found[i][2]].bars : ~Unassigned(scanned[found[i][2]].bars[k])
    /\ \A c \in Categories : used[c] # NIL => used[c] = Of(c)[1]
    /\ \A c \in Categories : Len(devices[c]) + (IF used[c] = NIL THEN 0 ELSE 1)
                                = IF build.dyn \/ Of(c) = <<>> THEN Len(Of(c)) ELSE 1
    /\ FoundAll(SupportedIds)

\* Every network and block device of the virtio specification is found, those
\* without the transitional interface (0x1041, 0x1042) too.
ModernFound == FoundAll([SupportedIds EXCEPT !["virtio-net"] = @ \cup {<<VirtioVendor, 4161>>},
                                             !["virtio-blk"] = @ \cup {<<VirtioVendor, 4162>>}])
=============================================================================
