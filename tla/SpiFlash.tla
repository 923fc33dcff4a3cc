------------------------------- MODULE SpiFlash -------------------------------
(***************************************************************************)
(* The SPI flash demo, src/examples/part9/spi-device/spi_flash_demo.c.     *)
(* Probe fills the simulated memory flash->buffer with 0xFF (Erased) and   *)
(* registers /dev/demo_flash.  Each open file has its own position.        *)
(* read(), write() and the erase ioctl take flash->lock around the flash   *)
(* access.  A write programs page by page, and each page can fail before   *)
(* its memcpy (write enable or spi_sync() failing) or after it (the wait   *)
(* for the status register's WIP bit failing or timing out).  Each page is *)
(* one action, so the model shows the loop under the lock.  The SPI bus's  *)
(* answers are nondeterministic, so every transfer may succeed or fail.    *)
(* A write's user buffer is count bytes of one value.  Failures that       *)
(* change nothing (-EFAULT, -ENOMEM, -ENOSPC, EOF) are stuttering steps    *)
(* and are left out.                                                       *)
(***************************************************************************)
EXTENDS Integers

CONSTANTS
    Files,       \* open files of /dev/demo_flash
    FLASH_SIZE,  \* 64 KiB in the code
    FLASH_PAGE_SIZE,
    FLASH_SECTOR_SIZE,
    Chars,       \* the byte values user buffers hold
    Erased,      \* 0xFF
    Counts,      \* byte counts passed to read() and write()
    EraseAddrs,  \* the u32 addresses passed to FLASH_IOC_ERASE
    Offsets      \* offsets passed to llseek()

ASSUME FLASH_SIZE % FLASH_SECTOR_SIZE = 0 /\ Erased \notin Chars

Addrs == 0 .. FLASH_SIZE - 1
NoOwner == "none"
Least(a, b) == IF a < b THEN a ELSE b
Blank == [a \in Addrs |-> Erased]
NoWrite == [addr |-> 0, len |-> 0, written |-> 0, x |-> Erased]

VARIABLES
    probed,  \* "no", "yes" or "failed": demo_flash_probe() has run
    flash,   \* flash->buffer: Addrs -> byte
    lock,    \* flash->lock: its owner, or NoOwner
    ppos,    \* file -> *ppos
    pc,      \* file -> "closed", "idle", or "write" inside the page loop
    wr,      \* file -> the write under way: addr, len, written, x
    before   \* ghost: flash when the current writer took the lock

vars == <<probed, flash, lock, ppos, pc, wr, before>>

Init ==
    /\ probed = "no"
    /\ flash = Blank
    /\ lock = NoOwner
    /\ ppos = [f \in Files |-> 0]
    /\ pc = [f \in Files |-> "closed"]
    /\ wr = [f \in Files |-> NoWrite]
    /\ before = Blank

\* demo_flash_probe(): spi_setup(), the allocations or misc_register() may
\* fail; a failed flash ID read only warns.  The buffer is set to 0xFF.
demo_flash_probe ==
    /\ probed = "no"
    /\ probed' \in {"yes", "failed"}
    /\ flash' = Blank
    /\ UNCHANGED <<lock, ppos, pc, wr, before>>

demo_flash_open(f) ==
    /\ probed = "yes" /\ pc[f] = "closed"
    /\ pc' = [pc EXCEPT ![f] = "idle"]
    /\ ppos' = [ppos EXCEPT ![f] = 0]
    /\ UNCHANGED <<probed, flash, lock, wr, before>>

\* demo_flash_fread(): EOF at or past the end, else count is clamped and
\* the read runs under the lock; spi_sync() or copy_to_user() may fail,
\* and then the position stays.
demo_flash_fread(f) ==
    /\ pc[f] = "idle" /\ lock = NoOwner /\ ppos[f] < FLASH_SIZE
    /\ \E c \in Counts :
          ppos' = [ppos EXCEPT ![f] = @ + Least(c, FLASH_SIZE - @)]
    /\ UNCHANGED <<probed, flash, lock, pc, wr, before>>

\* demo_flash_fwrite() up to mutex_lock(): -ENOSPC at or past the end,
\* count clamped, the user buffer copied, then the lock is taken.
demo_flash_fwrite(f) ==
    /\ pc[f] = "idle" /\ lock = NoOwner /\ ppos[f] < FLASH_SIZE
    /\ \E c \in Counts, x \in Chars :
          wr' = [wr EXCEPT ![f] = [addr |-> ppos[f],
                                   len |-> Least(c, FLASH_SIZE - ppos[f]),
                                   written |-> 0, x |-> x]]
    /\ lock' = f /\ pc' = [pc EXCEPT ![f] = "write"] /\ before' = flash
    /\ UNCHANGED <<probed, flash, ppos>>

(***************************************************************************)
(* Mutants: plausible slips in the definitions below.                      *)
(***************************************************************************)
\* The page offset taken from written alone, not from addr + written.
MutPageSizeNoAddr(w) ==
    Least(FLASH_PAGE_SIZE - (w.written % FLASH_PAGE_SIZE), w.len - w.written)

\* The size of the next page piece of demo_flash_write()'s loop.
PageSize(w) ==
    LET page_offset == (w.addr + w.written) % FLASH_PAGE_SIZE
    IN Least(FLASH_PAGE_SIZE - page_offset, w.len - w.written)

\* Back in demo_flash_fwrite(): unlock, and advance the position only if
\* the whole write succeeded.  The write's locals and the ghost are gone.
EndWrite(f, ok, n) ==
    /\ lock' = NoOwner /\ pc' = [pc EXCEPT ![f] = "idle"]
    /\ ppos' = IF ok THEN [ppos EXCEPT ![f] = @ + n] ELSE ppos
    /\ wr' = [wr EXCEPT ![f] = NoWrite] /\ before' = Blank

(***************************************************************************)
(* One turn of demo_flash_write()'s loop: demo_flash_program_page() for    *)
(* the next page piece.  Write enable or spi_sync() may fail before the    *)
(* memcpy; demo_flash_wait_ready() may fail after it.  The loop stops at   *)
(* the first error or when every byte is written.                          *)
(***************************************************************************)
ProgramPage(f) ==
    LET w == wr[f]
        n == PageSize(w)
        done == w.written + n
        programmed == [a \in Addrs |->
                         IF w.addr + w.written <= a /\ a < w.addr + done
                         THEN w.x ELSE flash[a]]
    IN /\ pc[f] = "write"
       /\ \/ /\ flash' = programmed /\ done < w.len
             /\ wr' = [wr EXCEPT ![f].written = done]
             /\ UNCHANGED <<lock, pc, ppos, before>>
          \/ flash' = programmed /\ done = w.len /\ EndWrite(f, TRUE, w.len)
          \/ flash' = programmed /\ EndWrite(f, FALSE, 0)
          \/ UNCHANGED flash /\ EndWrite(f, FALSE, 0)
       /\ UNCHANGED probed

\* demo_flash_erase_sector(): the address is aligned down to its sector,
\* one past the end is -EINVAL, and write enable or spi_write() may fail
\* before the memset, the wait for WIP after it.  The flash contents it
\* may leave.
demo_flash_erase_sector(addr) ==
    LET s == addr - (addr % FLASH_SECTOR_SIZE)
    IN IF s < FLASH_SIZE
       THEN {flash, [a \in Addrs |-> IF s <= a /\ a < s + FLASH_SECTOR_SIZE
                                     THEN Erased ELSE flash[a]]}
       ELSE {flash}

\* FLASH_IOC_ERASE: the u32 is copied in and the sector erased under the
\* lock.  FLASH_IOC_GETSIZE and unknown commands change nothing.
demo_flash_ioctl_erase(f) ==
    /\ pc[f] = "idle" /\ lock = NoOwner
    /\ \E addr \in EraseAddrs : flash' \in demo_flash_erase_sector(addr)
    /\ UNCHANGED <<probed, lock, ppos, pc, wr, before>>

\* demo_flash_llseek(): fixed_size_llseek() from the start, the position
\* or the end; a result outside 0 .. size is -EINVAL.
demo_flash_llseek(f) ==
    /\ pc[f] = "idle"
    /\ \E base \in {0, ppos[f], FLASH_SIZE}, off \in Offsets :
          /\ 0 <= base + off /\ base + off <= FLASH_SIZE
          /\ ppos' = [ppos EXCEPT ![f] = base + off]
    /\ UNCHANGED <<probed, flash, lock, pc, wr, before>>

Next ==
    \/ demo_flash_probe
    \/ \E f \in Files :
          \/ demo_flash_open(f) \/ demo_flash_fread(f) \/ demo_flash_fwrite(f)
          \/ ProgramPage(f) \/ demo_flash_ioctl_erase(f) \/ demo_flash_llseek(f)

Spec == Init /\ [][Next]_vars

-----------------------------------------------------------------------------
TypeOK ==
    /\ probed \in {"no", "yes", "failed"}
    /\ flash \in [Addrs -> Chars \cup {Erased}]
    /\ lock \in Files \cup {NoOwner}
    /\ ppos \in [Files -> 0 .. FLASH_SIZE]
    /\ \A f \in Files : pc[f] = "write" <=> lock = f

(***************************************************************************)
(* The device behaves as a FlashFile: seen from outside the lock, every    *)
(* write either writes all its bytes and moves the position, or fails      *)
(* with a prefix written that ends at a page boundary or at its end and    *)
(* the position unchanged.  It is about the page split in                  *)
(* demo_flash_write(), the error paths of demo_flash_program_page(), and   *)
(* the position update in demo_flash_fwrite().                             *)
(***************************************************************************)
Abstract == INSTANCE FlashFile
    WITH Size <- FLASH_SIZE, Page <- FLASH_PAGE_SIZE, Sector <- FLASH_SECTOR_SIZE,
         mem <- IF lock = NoOwner THEN flash ELSE before, pos <- ppos

RefinesFlashFile == Abstract!Spec
================================================================================
