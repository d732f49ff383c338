------------------------------- MODULE SdioTx -------------------------------
(***************************************************************************)
(* The coprocessor's way to the host over SDIO: process_tx_pkt and         *)
(* sdio_write in the tasks that have something to send, the start-up event *)
(* of host_reset_task, and sdio_tx_done_task, which takes back what the    *)
(* host has read.  They share the memory pool buf_mp_tx_g, a stack of free *)
(* blocks, and sdio_send_queue_sem, which counts the places left in the    *)
(* SDIO driver.                                                            *)
(*                                                                         *)
(* With BYPASS_TX_PRIORITY_Q there is no sending task: the WiFi driver's   *)
(* task and pserial_task each call sdio_write themselves (Writers).  A     *)
(* step is what one task does between two calls of the kernel; the pool's  *)
(* get and put run under its mutex and are one step each.                  *)
(*                                                                         *)
(* External: the SDIO driver queues a block, lets the host read it and     *)
(* then returns it, in order; it may refuse one.  The host opens and       *)
(* closes the data path whenever it restarts.  The RPC event that          *)
(* host_reset_task posts after its start-up event is SerialRpc's; here it  *)
(* is taken to be posted.  The host never sleeps (power save is switched   *)
(* off), so sdio_write's test for that is left out.                        *)
(***************************************************************************)
EXTENDS Naturals, Sequences, FiniteSets

CONSTANTS
  TxQ,         \* SDIO_DRIVER_TX_QUEUE_SIZE
  Spare,       \* blocks of the pool beyond TxQ: 2 in SDIO_MEMPOOL_NUM_BLOCKS
  Writers,     \* the tasks that call process_tx_pkt
  Resetter,    \* host_reset_task
  TxDone,      \* sdio_tx_done_task
  NoBlock,
  MaxFailures  \* bound: blocks that the driver refuses

Blocks == 1 .. TxQ + Spare
Senders == Writers \cup {Resetter}
Tasks == Senders \cup {TxDone}

ASSUME SdioTxAssumption ==
  /\ TxQ \in Nat \ {0}
  /\ Spare \in Nat
  /\ MaxFailures \in Nat
  /\ IsFiniteSet(Writers)
  /\ Resetter \notin Writers
  /\ TxDone \notin Senders
  /\ NoBlock \notin Blocks

VARIABLES
  state, datapath,     \* if_handle_g.state, and whether the data path is open
  host_reset_sem,      \* the binary semaphore, given or not
  alert,               \* whether a power_save_alert_task is about to give it
  free,                \* the pool: SLIST_FIRST is the head
  sdio_send_queue_sem, \* what the counting semaphore holds
  queued, finished,    \* the driver: blocks the host has not read, and has read
  pc,                  \* what each task does next
  held,                \* the block in each task's hands
  aborted,             \* assert(buf_handle.payload) failed: the chip restarts
  leaked,              \* history: places that no one will give back
  owed,                \* history: the host opened the path and was not told
  failures             \* history: blocks refused by the driver

link == <<state, datapath, host_reset_sem, alert>>
driver == <<queued, finished>>
history == <<leaked, owed, failures>>
vars == <<link, free, sdio_send_queue_sem, driver, pc, held, aborted, history>>

Init ==
  /\ state = "ACTIVE"
  /\ datapath = FALSE
  /\ host_reset_sem = FALSE
  /\ alert = FALSE
  /\ free = [i \in Blocks |-> i]
  /\ sdio_send_queue_sem = TxQ
  /\ queued = <<>>
  /\ finished = <<>>
  /\ pc = [t \in Tasks |-> "idle"]
  /\ held = [t \in Tasks |-> NoBlock]
  /\ aborted = FALSE
  /\ leaked = 0
  /\ owed = FALSE
  /\ failures = 0

Goto(t, label) == pc' = [pc EXCEPT ![t] = label]

-----------------------------------------------------------------------------
(* The host, through the driver.                                           *)

\* Mutant of OpenDataPath: no announcement when the path is open already.
OpenWhenClosed ==
  /\ state' = "ACTIVE"
  /\ datapath' = TRUE
  /\ host_reset_sem' = (host_reset_sem \/ ~datapath)
  /\ owed' = TRUE
  /\ UNCHANGED <<alert, free, sdio_send_queue_sem, driver, pc, held, aborted,
                 leaked, failures>>

\* ESP_OPEN_DATA_PATH, an interrupt: nothing comes between its statements.
OpenDataPath ==
  /\ state' = "ACTIVE"
  /\ datapath' = TRUE
  /\ host_reset_sem' = TRUE
  /\ owed' = TRUE
  /\ UNCHANGED <<alert, free, sdio_send_queue_sem, driver, pc, held, aborted,
                 leaked, failures>>

CloseDataPath ==
  /\ state' = "DEACTIVE"
  /\ datapath' = FALSE
  /\ UNCHANGED <<host_reset_sem, alert, free, sdio_send_queue_sem, driver, pc,
                 held, aborted, history>>

\* ESP_POWER_SAVE_OFF, from the driver or with a packet that sdio_rx_task gets:
\* the semaphore is given later, by a task made for it.
PowerSaveOff ==
  /\ state' = "ACTIVE"
  /\ datapath' = TRUE
  /\ alert' = TRUE
  /\ owed' = TRUE
  /\ UNCHANGED <<host_reset_sem, free, sdio_send_queue_sem, driver, pc, held,
                 aborted, leaked, failures>>

AlertGives ==
  /\ alert
  /\ alert' = FALSE
  /\ host_reset_sem' = TRUE
  /\ UNCHANGED <<state, datapath, free, sdio_send_queue_sem, driver, pc, held,
                 aborted, history>>

HostReads ==
  /\ queued # <<>>
  /\ queued' = Tail(queued)
  /\ finished' = Append(finished, Head(queued))
  /\ UNCHANGED <<link, free, sdio_send_queue_sem, pc, held, aborted, history>>

-----------------------------------------------------------------------------
(* Steps that sdio_write and generate_startup_event share.                 *)

\* os_memblock_get and os_memblock_put.
Get(t) ==
  /\ free # <<>>
  /\ held' = [held EXCEPT ![t] = Head(free)]
  /\ free' = Tail(free)

Put(t) ==
  /\ free' = <<held[t]>> \o free
  /\ held' = [held EXCEPT ![t] = NoBlock]

\* Mutant of Take: the wait ends after a time, and the answer is ignored.
TakeOrTimeOut(t) ==
  /\ pc[t] = "take"
  /\ sdio_send_queue_sem' =
       IF sdio_send_queue_sem > 0 THEN sdio_send_queue_sem - 1 ELSE 0
  /\ Goto(t, "queue")
  /\ UNCHANGED <<link, free, driver, held, aborted, history>>

\* xSemaphoreTake(sdio_send_queue_sem, portMAX_DELAY)
Take(t) ==
  /\ pc[t] = "take"
  /\ sdio_send_queue_sem > 0
  /\ sdio_send_queue_sem' = sdio_send_queue_sem - 1
  /\ Goto(t, "queue")
  /\ UNCHANGED <<link, free, driver, held, aborted, history>>

\* Mutant of Queue: the block is freed once it is queued, as with a driver that
\* sends before it returns (SIMPLIFIED_SDIO_SLAVE).
QueueAndFree(t) ==
  /\ pc[t] = "queue"
  /\ queued' = Append(queued, held[t])
  /\ Put(t)
  /\ owed' = (owed /\ t # Resetter)
  /\ Goto(t, "idle")
  /\ UNCHANGED <<link, sdio_send_queue_sem, finished, aborted, leaked, failures>>

\* sdio_slave_send_queue succeeds.  The start-up event tells the host.
Queue(t) ==
  /\ pc[t] = "queue"
  /\ queued' = Append(queued, held[t])
  /\ held' = [held EXCEPT ![t] = NoBlock]
  /\ owed' = (owed /\ t # Resetter)
  /\ Goto(t, "idle")
  /\ UNCHANGED <<link, free, sdio_send_queue_sem, finished, aborted, leaked,
                 failures>>

FreeBlock(t) ==
  /\ pc[t] = "free"
  /\ Put(t)
  /\ Goto(t, "idle")
  /\ UNCHANGED <<link, sdio_send_queue_sem, driver, aborted, history>>

-----------------------------------------------------------------------------
(* A task that sends a packet: process_tx_pkt, sdio_write.                 *)

\* With the path closed the packet is dropped, and nothing else changes.
Forward(w) ==
  /\ pc[w] = "idle"
  /\ datapath
  /\ Goto(w, "write")
  /\ UNCHANGED <<link, free, sdio_send_queue_sem, driver, held, aborted,
                 history>>

\* "Driver state not active, drop", or "malloc fail".
DropPacket(w) ==
  /\ pc[w] = "write"
  /\ state # "ACTIVE" \/ free = <<>>
  /\ Goto(w, "idle")
  /\ UNCHANGED <<link, free, sdio_send_queue_sem, driver, held, aborted,
                 history>>

AllocPacket(w) ==
  /\ pc[w] = "write"
  /\ state = "ACTIVE"
  /\ Get(w)
  /\ Goto(w, "take")
  /\ UNCHANGED <<link, sdio_send_queue_sem, driver, aborted, history>>

PacketRefused(w) ==
  /\ pc[w] = "queue"
  /\ failures < MaxFailures
  /\ failures' = failures + 1
  /\ Goto(w, "give")
  /\ UNCHANGED <<link, free, sdio_send_queue_sem, driver, held, aborted,
                 leaked, owed>>

GiveBack(w) ==
  /\ pc[w] = "give"
  /\ sdio_send_queue_sem' = sdio_send_queue_sem + 1
  /\ Goto(w, "free")
  /\ UNCHANGED <<link, free, driver, held, aborted, history>>

\* What a task does once it has a packet.
WriteOn(w) ==
  \/ DropPacket(w)
  \/ AllocPacket(w)
  \/ Take(w)
  \/ Queue(w)
  \/ PacketRefused(w)
  \/ GiveBack(w)
  \/ FreeBlock(w)

Write(w) == Forward(w) \/ WriteOn(w)

-----------------------------------------------------------------------------
(* host_reset_task: generate_startup_event.                                *)

ResetBegin ==
  /\ pc[Resetter] = "idle"
  /\ host_reset_sem
  /\ host_reset_sem' = FALSE
  /\ Goto(Resetter, "event")
  /\ UNCHANGED <<state, datapath, alert, free, sdio_send_queue_sem, driver,
                 held, aborted, history>>

AllocEvent ==
  /\ pc[Resetter] = "event"
  /\ Get(Resetter)
  /\ Goto(Resetter, "take")
  /\ UNCHANGED <<link, sdio_send_queue_sem, driver, aborted, history>>

\* assert(buf_handle.payload)
AllocAborts ==
  /\ pc[Resetter] = "event"
  /\ free = <<>>
  /\ aborted' = TRUE
  /\ UNCHANGED <<link, free, sdio_send_queue_sem, driver, pc, held, history>>

\* The event is given up; unlike sdio_write, the semaphore is not given back.
EventRefused ==
  /\ pc[Resetter] = "queue"
  /\ failures < MaxFailures
  /\ failures' = failures + 1
  /\ leaked' = leaked + 1
  /\ Goto(Resetter, "free")
  /\ UNCHANGED <<link, free, sdio_send_queue_sem, driver, held, aborted, owed>>

HostReset ==
  \/ ResetBegin
  \/ AllocEvent
  \/ AllocAborts
  \/ Take(Resetter)
  \/ Queue(Resetter)
  \/ EventRefused
  \/ FreeBlock(Resetter)

-----------------------------------------------------------------------------
(* sdio_tx_done_task.                                                      *)

\* Mutant of GetFinished: the block is freed, the semaphore forgotten.
GetFinishedOnly ==
  /\ pc[TxDone] = "idle"
  /\ finished # <<>>
  /\ held' = [held EXCEPT ![TxDone] = Head(finished)]
  /\ finished' = Tail(finished)
  /\ Goto(TxDone, "free")
  /\ UNCHANGED <<link, free, sdio_send_queue_sem, queued, aborted, history>>

GetFinished ==
  /\ pc[TxDone] = "idle"
  /\ finished # <<>>
  /\ held' = [held EXCEPT ![TxDone] = Head(finished)]
  /\ finished' = Tail(finished)
  /\ Goto(TxDone, "give")
  /\ UNCHANGED <<link, free, sdio_send_queue_sem, queued, aborted, history>>

SendDone ==
  \/ GetFinished
  \/ GiveBack(TxDone)
  \/ FreeBlock(TxDone)

-----------------------------------------------------------------------------
Host ==
  \/ OpenDataPath
  \/ CloseDataPath
  \/ PowerSaveOff
  \/ HostReads

\* After an abort the chip starts again from Init, which is not followed.
Next ==
  /\ ~aborted
  /\ \/ Host
     \/ AlertGives
     \/ \E w \in Writers : Write(w)
     \/ HostReset
     \/ SendDone

Spec == Init /\ [][Next]_vars

(* Fairness: a task that is ready runs.  Nobody has to send, and the host  *)
(* need not read.                                                          *)
FairSpec ==
  /\ Spec
  /\ \A w \in Writers : WF_vars(~aborted /\ WriteOn(w))
  /\ WF_vars(~aborted /\ AlertGives)
  /\ WF_vars(~aborted /\ HostReset)
  /\ WF_vars(~aborted /\ SendDone)

-----------------------------------------------------------------------------
Labels == {"idle", "write", "event", "take", "queue", "give", "free"}

\* The semaphore never holds more than it was created with.
TypeOK ==
  /\ state \in {"DEACTIVE", "ACTIVE"}
  /\ {datapath, host_reset_sem, alert, aborted, owed} \subseteq BOOLEAN
  /\ {free, queued, finished} \subseteq Seq(Blocks)
  /\ sdio_send_queue_sem \in 0 .. TxQ
  /\ pc \in [Tasks -> Labels]
  /\ held \in [Tasks -> Blocks \cup {NoBlock}]
  /\ leaked \in Nat
  /\ failures \in 0 .. MaxFailures

\* Where block b is: each entry of the three sequences, and each pair of hands.
Places(b) ==
  Cardinality({i \in DOMAIN free : free[i] = b})
    + Cardinality({i \in DOMAIN queued : queued[i] = b})
    + Cardinality({i \in DOMAIN finished : finished[i] = b})
    + Cardinality({t \in Tasks : held[t] = b})

\* A block of the pool is in one place: no two tasks write to it, nobody
\* writes to it while the host reads it, and none is lost, whichever of the
\* error paths the senders take.
BlockHasOneOwner == \A b \in Blocks : Places(b) = 1

\* Each of the TxQ places is in the semaphore, in use in the driver, with a
\* task that has taken it or is about to give it back, or leaked by a start-up
\* event; so the driver never gets more blocks than its queues hold.
PlacesAccounted ==
  sdio_send_queue_sem + Len(queued) + Len(finished) + leaked
    + Cardinality({t \in Tasks : pc[t] \in {"queue", "give"}}) = TxQ

\* What the liveness properties assume of the host, and of the kernel when
\* several tasks wait for the semaphore.
HostKeepsReading == WF_vars(~aborted /\ HostReads)
TurnsAreTaken == \A t \in Senders : SF_vars(~aborted /\ Take(t))

\* While the host reads, senders that wait for a place do not all wait for
\* ever: blocks refused by the driver cost no place, save those of start-up
\* events.
SendersGetThrough ==
  HostKeepsReading =>
    ((\E t \in Senders : pc[t] = "take")
       ~> \/ \E t \in Senders : pc[t] = "queue"
          \/ aborted
          \/ leaked = TxQ)

\* A host that opens the data path, for the first time or again, whatever is
\* queued by then, is sent a start-up event afterwards.  Two ends are excepted:
\* the driver refuses the event (leaked), or no block is left for it and the
\* assertion on it restarts the chip (aborted).
AnnouncedAfterOpen ==
  HostKeepsReading /\ TurnsAreTaken =>
    (owed ~> ~owed \/ aborted \/ leaked > 0)
=============================================================================
