----------------------------- MODULE NssBuffer -----------------------------
(***************************************************************************)
(* How the NSS module lays an entry out in the caller's buffer             *)
(* (src/crates/nss_oidc/src/passwd.rs and group.rs).  A string is known by *)
(* its length in bytes, a position by its offset in the buffer.            *)
(***************************************************************************)
EXTENDS Integers, SequencesExt

Pointer == 8      \* size and alignment of *mut c_char
TooSmall == -1    \* the offset after a string that did not fit

(* Mutant of write_str: no byte for the NUL. *)
write_str_bare(buflen, offset, len) ==
  IF offset = TooSmall \/ offset + len > buflen THEN TooSmall ELSE offset + len

(* The offset after a string and its NUL have been written, or TooSmall;   *)
(* the callers return as soon as one string does not fit.                  *)
write_str(buflen, offset, len) ==
  IF offset = TooSmall \/ offset + (len + 1) > buflen THEN TooSmall
                                                      ELSE offset + (len + 1)

(* *errnop = ERANGE and TryAgain. *)
buffer_too_small == "TryAgain"

(* name, "x", gecos, home and shell, one after the other. *)
fill_passwd_buf(user, buflen) ==
  LET pw_name == write_str(buflen, 0, user.name)
      pw_passwd == write_str(buflen, pw_name, 1)
      pw_gecos == write_str(buflen, pw_passwd, user.gecos)
      pw_dir == write_str(buflen, pw_gecos, user.home)
      pw_shell == write_str(buflen, pw_dir, user.shell)
  IN  IF pw_shell = TooSmall THEN buffer_too_small ELSE "Success"

(* The next multiple of the pointer size. *)
Aligned(offset) ==
  LET misalign == offset % Pointer
  IN  IF misalign # 0 THEN offset + (Pointer - misalign) ELSE offset

(* name, "x" and the members, then the pointers to the members and a NULL. *)
fill_group_buf(grp, buflen) ==
  LET write(offset, len) == write_str(buflen, offset, len)
      strings == FoldLeft(write, 0, <<grp.name, 1>> \o grp.members)
      ptrs_needed == (Len(grp.members) + 1) * Pointer
  IN  IF strings = TooSmall \/ Aligned(strings) + ptrs_needed > buflen
        THEN buffer_too_small
        ELSE "Success"

-----------------------------------------------------------------------------

(* What an entry takes: the smallest buffer that holds it. *)
PasswdNeeds(user) ==
  (user.name + 1) + 2 + (user.gecos + 1) + (user.home + 1) + (user.shell + 1)

GroupNeeds(grp) ==
  LET strings == (grp.name + 1) + 2
                   + FoldLeft(LAMBDA n, len : n + len + 1, 0, grp.members)
  IN  Pointer * ((strings + Pointer - 1) \div Pointer) + Pointer * (Len(grp.members) + 1)
=============================================================================
