------------------------------- MODULE Panel -------------------------------
(***************************************************************************)
(* panel.c and registers.h: the panel's device and what is written to its  *)
(* registers.                                                              *)
(*                                                                         *)
(* The firmware of the panel is not in the repository.  From the way it is *)
(* used: a register keeps the byte written to it; the status registers     *)
(* (CPUTS, SENSORT, HDDTS) take a mask and mark one more sensor as valid,  *)
(* a frequency is valid by the highest bit of its MSB; a reset clears all. *)
(*                                                                         *)
(* A definition whose name ends in an underscore and a remark is a mutated *)
(* form of the one that follows it; nothing uses it.                       *)
(***************************************************************************)
EXTENDS I2cTools

VARIABLES
  initialized,   \* panel.is_initialized
  registers,     \* the bytes, by address, that have been written
  valid,         \* <<register, mask>> of the sensors marked as valid
  stored         \* has the daemon's postcode been written and read back

panel == <<initialized, registers, valid, stored>>

PanelInit ==
  initialized = FALSE /\ registers = <<>> /\ valid = {} /\ stored = FALSE

ATFP_REG_POST_CODE_LSB == \h10
ATFP_REG_POST_CODE_MSB == \h11
ATFP_REG_CPU0T == \h20
ATFP_REG_GPUT == \h28
ATFP_REG_HDD0T == \h30
ATFP_REG_CPUTS == \h38
ATFP_REG_SENSORT == \h39
ATFP_REG_HDDTS == \h3a
ATFP_REG_CPU0F_LSB == \h70
ATFP_REG_CPU0F_MSB == \h71

Status == {ATFP_REG_CPUTS, ATFP_REG_SENSORT, ATFP_REG_HDDTS}

-----------------------------------------------------------------------------
(* The device                                                              *)

(* panel_open_i2c does not ask for a signature: any device will do. *)
panel_open_i2c ==
  /\ phase = "open panel"
  /\ ~initialized
  /\ \/ /\ \E i \in DOMAIN machine.busses :
             /\ machine.busses[i].nr = i2c_bus
             /\ __panel_open_i2c_device(machine.busses[i])
        /\ phase' = "reset"
        /\ initialized' = TRUE
        /\ descriptors' = descriptors + 1
     \/ /\ \A i \in DOMAIN machine.busses :
             machine.busses[i].nr = i2c_bus
               => ~__panel_open_i2c_device(machine.busses[i])
        /\ phase' = "exited"
        /\ UNCHANGED <<initialized, descriptors>>
  /\ UNCHANGED <<machine, faults, overrun, adapters, busIndex, i2c_bus,
                 registers, valid, stored>>

panel_reset ==
  /\ \/ /\ Goto("reset", "coretemp")
        /\ registers' = <<>>
        /\ valid' = {}
        /\ UNCHANGED faults
     \/ Goto("reset", "exited") /\ Fault /\ UNCHANGED <<registers, valid>>
  /\ UNCHANGED <<machine, overrun, i2c, initialized, stored>>

(* The first step of main's cleanup that this module knows of. *)
panel_close ==
  /\ initialized' = FALSE
  /\ descriptors' = IF initialized THEN descriptors - 1 ELSE descriptors

-----------------------------------------------------------------------------
(* The two writes that show a value: the second one makes it valid.        *)

Byte(n) == n % 256
Bit(n) == {n} \cap 0 .. 7   \* 1 << n, as the set of its bits
Write(reg, byte) == <<reg, byte>>

panel_set_temperature(cpu_id, temp) ==
  <<Write(ATFP_REG_CPU0T + cpu_id, Byte(temp)),
    Write(ATFP_REG_CPUTS, Bit(cpu_id))>>

panel_set_frequency_narrow(cpu_id, freq) ==
  <<Write(ATFP_REG_CPU0F_LSB + (cpu_id * 2), Byte(freq)),
    Write(ATFP_REG_CPU0F_MSB + cpu_id, 128 + ((freq \div 256) % 128))>>
panel_set_frequency(cpu_id, freq) ==
  <<Write(ATFP_REG_CPU0F_LSB + (cpu_id * 2), Byte(freq)),
    Write(ATFP_REG_CPU0F_MSB + (cpu_id * 2), 128 + ((freq \div 256) % 128))>>

panel_set_gpu_temp(temp) ==
  <<Write(ATFP_REG_GPUT, Byte(temp)), Write(ATFP_REG_SENSORT, Bit(0))>>

(* An index the panel has no register for writes nothing. *)
panel_set_hdd_temp(hdd_id, temp) ==
  IF hdd_id > 7 THEN <<>>
  ELSE <<Write(ATFP_REG_HDD0T + hdd_id, Byte(temp)),
         Write(ATFP_REG_HDDTS, Bit(hdd_id))>>

Put(regs, reg, byte) ==
  [r \in DOMAIN regs \cup {reg} |-> IF r = reg THEN byte ELSE regs[r]]

panel_write_byte(write) ==
  IF write[1] \in Status
  THEN valid' = valid \cup {write} /\ UNCHANGED registers
  ELSE registers' = Put(registers, write[1], write[2]) /\ UNCHANGED valid

(* Two writes, MSB first, and two reads; a failed one leaves what was written. *)
panel_store_daemon_postcode ==
  LET msb  == Put(registers, ATFP_REG_POST_CODE_MSB, \hDA)
      both == Put(msb, ATFP_REG_POST_CODE_LSB, \hE7)
  IN  \/ registers' = both /\ stored' = TRUE /\ UNCHANGED faults
      \/ Fault /\ registers' \in {registers, msb, both} /\ stored' = FALSE

-----------------------------------------------------------------------------
(* What the panel shows, NULL for nothing                                  *)

Marked(reg, mask, value) ==
  IF <<reg, mask>> \in valid THEN registers[value] ELSE NULL

ShownFrequency(core) ==
  LET lsb == ATFP_REG_CPU0F_LSB + 2 * core
      msb == ATFP_REG_CPU0F_MSB + 2 * core
  IN  IF msb \in DOMAIN registers /\ registers[msb] >= 128
      THEN 256 * (registers[msb] - 128)
             + (IF lsb \in DOMAIN registers THEN registers[lsb] ELSE 0)
      ELSE NULL

Shown(metric, id) ==
  CASE metric = "temperature" ->
         Marked(ATFP_REG_CPUTS, Bit(id), ATFP_REG_CPU0T + id)
    [] metric = "frequency" -> ShownFrequency(id)
    [] metric = "gpu" -> Marked(ATFP_REG_SENSORT, Bit(0), ATFP_REG_GPUT)
    [] metric = "disk" -> Marked(ATFP_REG_HDDTS, Bit(id), ATFP_REG_HDD0T + id)

=============================================================================
