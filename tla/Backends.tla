------------------------------ MODULE Backends ------------------------------
(***************************************************************************)
(* The three backends side by side, each with its own state: io_uring is    *)
(* extended, kqueue and Windows are instanced. A build of the library has   *)
(* one of them (include/backend.h).                                         *)
(***************************************************************************)
EXTENDS Uring

CONSTANTS
  KqueueEvents, \* the size of a batch of kqueue's
  MaxWatches,   \* WIRECALL_WINDOWS_MAX_WATCHES
  MaxWait,      \* MAXIMUM_WAIT_OBJECTS
  MayFail       \* a knote or an event object may not be created

VARIABLES
  kopen, kfresh, kready, kinterests, kudata, kactive, kpolling, kout,
  wfresh, wopen, wdata, warmed, wrecorded, wselected, wwatches, wsignaled, wpolling, whandles, wout

kqueueVars == <<kopen, kfresh, kready, kinterests, kudata, kactive, kpolling, kout>>
windowsVars ==
  <<wfresh, wopen, wdata, warmed, wrecorded, wselected, wwatches, wsignaled, wpolling, whandles,
    wout>>

Kq == INSTANCE Kqueue WITH
       MaxEvents <- KqueueEvents, open <- kopen, fresh <- kfresh, ready <- kready,
       interests <- kinterests, udata <- kudata, active <- kactive, polling <- kpolling,
       out <- kout

Win == INSTANCE Windows WITH
       Socks <- Files, NoSock <- NoFile, fresh <- wfresh, open <- wopen, data <- wdata,
       armed <- warmed, recorded <- wrecorded, selected <- wselected, watches <- wwatches,
       signaled <- wsignaled, polling <- wpolling, handles <- whandles, out <- wout

(* The filters the kernel has of a connection are its recorded interests,   *)
(* whichever change of a filter failed (wirecall_backend_modify of kqueue). *)
KqueueFilters == Kq!KqueueFilters

(* The table of watches has one watch for each connection and no other      *)
(* (wirecall_backend_register and wirecall_backend_remove of Windows).      *)
WatchesAreConnections == Win!WatchesAreConnections
=============================================================================
