----------------------------- MODULE NetDevice -----------------------------
(***************************************************************************)
(* The buffers between the interface and a virtio network device: the pool *)
(* they come from (NetBufPool), the driver (VirtIoNetDev) and the tokens   *)
(* DeviceWrapper hands to smoltcp. The virtqueues (external) are the sets  *)
(* of their descriptors in the hands of the device, and of those it has    *)
(* finished with; a finished one is free again when the driver takes it.   *)
(***************************************************************************)
EXTENDS Naturals, Sequences, FiniteSets

CONSTANTS QS,            \* queue size; the pool has 2 * QS buffers
          NONE,
          CAPACITY,      \* NET_BUF_LEN
          MAX_HEADER,    \* length of the longest virtio header
          MTU,           \* DeviceCapabilities: max_transmission_unit
          SPARE          \* descriptors the transmit queue wants to have free

VARIABLES free_list,               \* NetBufPool
          rx_buffers, tx_buffers,  \* VirtIoNetDev: per token, NONE or the buffer
          free_tx_bufs,
          rx_posted, rx_used,      \* receive queue: tokens with the device, and done
          tx_posted, tx_used,      \* transmit queue
          rx_token, tx_token,      \* the tokens of smoltcp: the buffer, NONE; whether there is one
          panicked                 \* history: an unwrap() in a token failed

vars == <<free_list, rx_buffers, tx_buffers, free_tx_bufs,
          rx_posted, rx_used, tx_posted, tx_used, rx_token, tx_token, panicked>>

Token == 0..(QS - 1)
Buffer == 1..(2 * QS)

Last(q) == q[Len(q)]
Pop(q) == SubSeq(q, 1, Len(q) - 1)

\* NetBufPool: a stack of buffers; a dropped one goes on top.
PoolNew == [i \in Buffer |-> i]
alloc(list, i) == list[Len(list) - i]
dealloc(b) == free_list' = Append(free_list, b)

\* try_new: the pool gives the last QS buffers to the receive queue and the
\* others to the transmit list.
Init ==
    /\ free_list = << >>
    /\ rx_buffers = [k \in Token |-> alloc(PoolNew, k)] /\ rx_posted = Token /\ rx_used = {}
    /\ tx_buffers = [k \in Token |-> NONE] /\ tx_posted = {} /\ tx_used = {}
    /\ free_tx_bufs = [i \in 1..QS |-> alloc(PoolNew, QS + i - 1)]
    /\ rx_token = NONE /\ tx_token = FALSE /\ panicked = FALSE

Unused == rx_token = NONE /\ ~tx_token /\ ~panicked

\* The device fills a receive buffer, or has sent a packet.
DeviceReceives ==
    \E k \in rx_posted :
        /\ rx_posted' = rx_posted \ {k} /\ rx_used' = rx_used \cup {k}
        /\ UNCHANGED <<free_list, rx_buffers, tx_buffers, free_tx_bufs, tx_posted, tx_used,
                       rx_token, tx_token, panicked>>
DeviceSends ==
    \E k \in tx_posted :
        /\ tx_posted' = tx_posted \ {k} /\ tx_used' = tx_used \cup {k}
        /\ UNCHANGED <<free_list, rx_buffers, tx_buffers, free_tx_bufs, rx_posted, rx_used,
                       rx_token, tx_token, panicked>>

Recycled == {tx_buffers[k] : k \in tx_used}
Orders == [1..Cardinality(tx_used) -> Recycled]

\* Variant: the buffer stays at its token as well.
RecycleCopies(kept) == tx_used' = {} /\ kept \in Orders /\ UNCHANGED tx_buffers

\* recycle_tx_buffers takes back every buffer that was sent, in some order.
recycle_tx_buffers(kept) ==
    /\ tx_buffers' = [k \in Token |-> IF k \in tx_used THEN NONE ELSE tx_buffers[k]]
    /\ tx_used' = {} /\ {kept[i] : i \in DOMAIN kept} = Recycled

TxFree(posted, used) == Token \ (posted \cup used)

can_transmit(bufs) == bufs # << >> /\ Cardinality(TxFree(tx_posted, {})) >= SPARE

\* The driver's receive: the packet at a finished token.
DriverReceive(k) ==
    /\ rx_used' = rx_used \ {k} /\ rx_token' = rx_buffers[k]
    /\ rx_buffers' = [rx_buffers EXCEPT ![k] = NONE]

\* Device::receive of DeviceWrapper: no packet is taken while none can be sent.
receive ==
    /\ Unused
    /\ \E kept \in Orders :
          /\ recycle_tx_buffers(kept) /\ free_tx_bufs' = free_tx_bufs \o kept
          /\ IF can_transmit(free_tx_bufs') /\ rx_used # {}
             THEN /\ \E k \in rx_used : DriverReceive(k)
                  /\ tx_token' = TRUE
             ELSE UNCHANGED <<rx_used, rx_token, rx_buffers, tx_token>>
    /\ UNCHANGED <<free_list, rx_posted, tx_posted, panicked>>

\* A received buffer goes back to the queue, under a token of the queue's choice.
recycle_rx_buffer(b) ==
    \E k \in Token \ (rx_posted \cup rx_used) :
        IF rx_buffers[k] = NONE
        THEN /\ rx_posted' = rx_posted \cup {k} /\ rx_buffers' = [rx_buffers EXCEPT ![k] = b]
             /\ UNCHANGED <<free_list, panicked>>
        ELSE panicked' = TRUE /\ dealloc(b) /\ UNCHANGED <<rx_posted, rx_buffers>>

\* AxNetRxToken::consume
ConsumeRx ==
    /\ rx_token # NONE /\ rx_token' = NONE
    /\ recycle_rx_buffer(rx_token)
    /\ UNCHANGED <<tx_buffers, free_tx_bufs, rx_used, tx_posted, tx_used, tx_token>>

\* Device::transmit of DeviceWrapper.
transmit ==
    /\ Unused
    /\ \E kept \in Orders :
          /\ recycle_tx_buffers(kept) /\ free_tx_bufs' = free_tx_bufs \o kept
          /\ tx_token' = can_transmit(free_tx_bufs')
    /\ UNCHANGED <<free_list, rx_buffers, rx_posted, rx_used, tx_posted, rx_token, panicked>>

\* The driver's transmit, and its alloc_tx_buffer: a buffer too small for the
\* packet is dropped.
DriverTransmit(b) ==
    \E k \in TxFree(tx_posted, tx_used) :
        /\ tx_posted' = tx_posted \cup {k} /\ tx_buffers' = [tx_buffers EXCEPT ![k] = b]
        /\ UNCHANGED <<free_list, panicked>>
alloc_tx_buffer(len) ==
    /\ free_tx_bufs' = Pop(free_tx_bufs)
    /\ IF MAX_HEADER + len > CAPACITY
       THEN panicked' = TRUE /\ dealloc(Last(free_tx_bufs)) /\ UNCHANGED <<tx_posted, tx_buffers>>
       ELSE DriverTransmit(Last(free_tx_bufs))

\* AxNetTxToken::consume: alloc_tx_buffer and transmit, both unwrapped.
ConsumeTx(len) ==
    /\ tx_token /\ rx_token = NONE /\ tx_token' = FALSE
    /\ IF free_tx_bufs = << >> \/ TxFree(tx_posted, tx_used) = {}
       THEN panicked' = TRUE /\ UNCHANGED <<free_list, free_tx_bufs, tx_posted, tx_buffers>>
       ELSE alloc_tx_buffer(len)
    /\ UNCHANGED <<rx_buffers, rx_posted, rx_used, tx_used, rx_token>>

\* smoltcp may leave the transmit token unused.
DropTx ==
    /\ tx_token /\ rx_token = NONE /\ tx_token' = FALSE
    /\ UNCHANGED <<free_list, rx_buffers, tx_buffers, free_tx_bufs, rx_posted, rx_used,
                   tx_posted, tx_used, rx_token, panicked>>

Next ==
    \/ DeviceReceives \/ DeviceSends \/ receive \/ ConsumeRx \/ transmit \/ DropTx
    \/ \E len \in {1, MTU} : ConsumeTx(len)

-----------------------------------------------------------------------------
\* Where a buffer is: in the pool, at a token of a queue, in the transmit list,
\* or in a token of smoltcp.
Places(b) ==
    {<<"pool", i>> : i \in {j \in DOMAIN free_list : free_list[j] = b}}
    \cup {<<"rx", k>> : k \in {j \in Token : rx_buffers[j] = b}}
    \cup {<<"tx", k>> : k \in {j \in Token : tx_buffers[j] = b}}
    \cup {<<"list", i>> : i \in {j \in DOMAIN free_tx_bufs : free_tx_bufs[j] = b}}
    \cup {<<"token", 0>> : x \in {y \in {rx_token} : y = b}}

\* Every buffer is in exactly one place, and a token finds its buffer there: the
\* device never gets memory that something else uses, and none is lost.
BuffersConserved ==
    /\ \A b \in Buffer : Cardinality(Places(b)) = 1
    /\ \A k \in rx_posted \cup rx_used : rx_buffers[k] # NONE
    /\ \A k \in tx_posted \cup tx_used : tx_buffers[k] # NONE

\* The unwrap() calls in the tokens do not fail: what can_transmit found when the
\* token was made still holds when it is used, and a packet of MTU bytes fits.
TokensHonoured == ~panicked
=============================================================================
