------------------------------ MODULE MCCore -------------------------------
(* Instances of Core for TLC: an address space of 16 addresses, memories   *)
(* of 4 and 6 bytes, buffers of up to two bytes.                           *)
EXTENDS Core

Cfg(size, pc, endian, clear) ==
  [memory_size |-> size, reset_pc |-> pc, endian |-> endian, clear |-> clear]

(* Accepted: reset_pc equal to memory_size, and inside.  Rejected: no      *)
(* memory, no such endian, a misaligned pc, a pc past the end.             *)
MCConfig == {Cfg(4, 4, "BIG", TRUE), Cfg(6, 0, "LITTLE", FALSE),
             Cfg(0, 0, "BIG", TRUE), Cfg(4, 0, "MIDDLE", TRUE),
             Cfg(4, 2, "BIG", TRUE), Cfg(4, 8, "BIG", TRUE)}

Buf(bytes) == [isNull |-> FALSE, bytes |-> bytes]
NullBuf(bytes) == [isNull |-> TRUE, bytes |-> bytes]

MCBuffer == {NullBuf(<<>>), NullBuf(<<1>>), Buf(<<1>>), Buf(<<0, 1>>)}

Img(data, address, jump, entry) ==
  [data |-> data, load_address |-> address, set_pc_to_entry |-> jump,
   entry_point |-> entry]

(* Images that fit, that hang over the end, that wrap around the address   *)
(* space, that only move the pc, with good and misaligned entry points.    *)
MCImage == {Img(Buf(<<1>>), 0, TRUE, 0), Img(Buf(<<0, 1>>), 2, TRUE, 2),
            Img(Buf(<<0, 1>>), 15, TRUE, 0), Img(Buf(<<0, 1>>), 5, FALSE, 0),
            Img(NullBuf(<<1>>), 0, TRUE, 4), Img(NullBuf(<<>>), 0, TRUE, 12)}
=============================================================================
