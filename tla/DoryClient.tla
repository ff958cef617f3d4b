------------------------------ MODULE DoryClient ------------------------------
(***************************************************************************)
(* The datagram socket of the client library (libdory_client.c) and its    *)
(* C++ wrapper (dory_client_socket.h).  A client binds its socket to a     *)
(* temporary name that mkstemp() chooses, and removes the name again.      *)
(* Several clients do so at once; every system call is a step, and may     *)
(* fail.                                                                   *)
(***************************************************************************)
EXTENDS Integers, FiniteSets

CONSTANTS
  Socks,         \* the socket objects; each is used by one thread at a time
  TmpNames,      \* the names mkstemp() can choose from
  Fds            \* bound: the file descriptors

VARIABLES
  sock,          \* each object: sock_fd, and whether server_addr is set
  bindOp,        \* the call of dory_client_socket_bind() it is in
  openFds,       \* the descriptors the kernel has open
  files,         \* the files under /tmp, with the object that made each
  unlinkFailed   \* history: unlink() has failed

csVars == <<sock, bindOp, openFds, files, unlinkFailed>>

Nobody == 0
NotOpen == -1
NoCall == [pc |-> "none", fd |-> NotOpen, tmp |-> NotOpen, name |-> CHOOSE n \in TmpNames : TRUE]
dory_client_socket_init == [fd |-> NotOpen, server |-> FALSE]

SocketInit ==
  /\ sock = [o \in Socks |-> dory_client_socket_init]
  /\ bindOp = [o \in Socks |-> NoCall]
  /\ openFds = {} /\ files = [n \in TmpNames |-> Nobody] /\ unlinkFailed = FALSE

NewFd == CHOOSE f \in Fds \ openFds : TRUE

(* The call returns; on a failure it closes its descriptors.               *)
BindReturns(o, closed) ==
  bindOp' = [bindOp EXCEPT ![o] = NoCall] /\ openFds' = openFds \ closed

(* An object that is bound already returns DORY_CLIENT_SOCK_IS_OPENED, and *)
(* socket() may fail: nothing changes but server_addr.                     *)
BindStart(o) ==
  /\ bindOp[o].pc = "none" /\ sock[o].fd = NotOpen
  /\ \/ Fds \ openFds # {} /\ openFds' = openFds \cup {NewFd}
        /\ bindOp' = [bindOp EXCEPT ![o].pc = "mkstemp", ![o].fd = NewFd]
     \/ UNCHANGED <<openFds, bindOp>>
  /\ sock' = [sock EXCEPT ![o].server = FALSE]
  /\ UNCHANGED <<files, unlinkFailed>>

(* Names that exist are tried no longer than it takes to find another.     *)
Mkstemp(o) ==
  /\ bindOp[o].pc = "mkstemp"
  /\ \/ \E n \in TmpNames :
          /\ files[n] = Nobody /\ Fds \ openFds # {}
          /\ files' = [files EXCEPT ![n] = o]
          /\ openFds' = openFds \cup {NewFd}
          /\ bindOp' = [bindOp EXCEPT ![o].pc = "unlink", ![o].tmp = NewFd, ![o].name = n]
     \/ BindReturns(o, {bindOp[o].fd}) /\ UNCHANGED files
  /\ UNCHANGED <<sock, unlinkFailed>>

Unlinked(o) == files' = [files EXCEPT ![bindOp[o].name] = Nobody] /\ UNCHANGED unlinkFailed

UnlinkTmp(o) ==
  /\ bindOp[o].pc = "unlink"
  /\ \/ /\ Unlinked(o) /\ openFds' = openFds \ {bindOp[o].tmp}
        /\ bindOp' = [bindOp EXCEPT ![o].pc = "bind", ![o].tmp = NotOpen]
     \/ /\ BindReturns(o, {bindOp[o].fd, bindOp[o].tmp})
        /\ unlinkFailed' = TRUE /\ UNCHANGED files
  /\ UNCHANGED sock

(* bind() makes the file; another client may have taken the name.          *)
BindAddr(o) ==
  /\ bindOp[o].pc = "bind"
  /\ \/ /\ files[bindOp[o].name] = Nobody
        /\ files' = [files EXCEPT ![bindOp[o].name] = o]
        /\ bindOp' = [bindOp EXCEPT ![o].pc = "unlink2"]
        /\ UNCHANGED openFds
     \/ BindReturns(o, {bindOp[o].fd}) /\ UNCHANGED files
  /\ UNCHANGED <<sock, unlinkFailed>>

(* Mutant: a server path that is too long leaves the socket open.          *)
FinishKeepsFd(o) ==
  /\ bindOp[o].pc = "unlink2"
  /\ Unlinked(o)
  /\ \/ sock' = [sock EXCEPT ![o] = [fd |-> bindOp[o].fd, server |-> TRUE]] /\ BindReturns(o, {})
     \/ sock' = [sock EXCEPT ![o].server = TRUE] /\ BindReturns(o, {})

(* The name goes; a server path that does not fit fails the call.          *)
FinishBind(o) ==
  /\ bindOp[o].pc = "unlink2"
  /\ \/ /\ Unlinked(o) /\ BindReturns(o, {})
        /\ sock' = [sock EXCEPT ![o] = [fd |-> bindOp[o].fd, server |-> TRUE]]
     \/ /\ Unlinked(o) /\ BindReturns(o, {bindOp[o].fd})
        /\ sock' = [sock EXCEPT ![o].server = TRUE]
     \/ /\ unlinkFailed' = TRUE /\ BindReturns(o, {bindOp[o].fd})
        /\ UNCHANGED <<files, sock>>

Unused(o) == bindOp[o].pc = "none"

dory_client_socket_close(s, open) ==
  [sock |-> [s EXCEPT !.fd = NotOpen], open |-> open \ {s.fd}]

CloseSocket(o) ==
  /\ Unused(o)
  /\ LET closed == dory_client_socket_close(sock[o], openFds)
     IN sock' = [sock EXCEPT ![o] = closed.sock] /\ openFds' = closed.open
  /\ UNCHANGED <<bindOp, files, unlinkFailed>>

(* Move assignment: Close() and MoveState().                               *)
MoveAssign(o, from) ==
  /\ o # from /\ Unused(o) /\ Unused(from)
  /\ openFds' = dory_client_socket_close(sock[o], openFds).open
  /\ sock' = [sock EXCEPT ![o] = sock[from], ![from].fd = NotOpen]
  /\ UNCHANGED <<bindOp, files, unlinkFailed>>

SwapSockets(o, that) ==
  /\ o # that /\ Unused(o) /\ Unused(that)
  /\ sock' = [sock EXCEPT ![o] = sock[that], ![that] = sock[o]]
  /\ UNCHANGED <<bindOp, openFds, files, unlinkFailed>>

SocketNext ==
  \E o \in Socks :
    \/ BindStart(o) \/ Mkstemp(o) \/ UnlinkTmp(o) \/ BindAddr(o) \/ FinishBind(o)
    \/ CloseSocket(o)
    \/ \E p \in Socks : MoveAssign(o, p) \/ SwapSockets(o, p)
-----------------------------------------------------------------------------
(* Who holds a descriptor: an object, or a call of bind() for its socket   *)
(* and for its temporary file.                                             *)
Holders == {"sock", "bind", "tmp"} \X Socks
HeldFd(h) == CASE h[1] = "sock" -> sock[h[2]].fd
               [] h[1] = "bind" -> bindOp[h[2]].fd
               [] h[1] = "tmp" -> bindOp[h[2]].tmp

(* Every open descriptor has exactly one holder, and every holder's is     *)
(* open: none leaks when a step of dory_client_socket_bind() fails, none   *)
(* is closed twice after a move or a swap.                                 *)
FdsAreOwned ==
  /\ \A h \in Holders : HeldFd(h) # NotOpen => HeldFd(h) \in openFds
  /\ \A f \in openFds : \E h \in Holders : HeldFd(h) = f
  /\ \A h, i \in Holders : HeldFd(h) = HeldFd(i) /\ HeldFd(h) # NotOpen => h = i

(* When no call is under way no file is left, unless unlink() has failed.  *)
FilesCleaned ==
  (\A o \in Socks : bindOp[o].pc = "none") /\ ~unlinkFailed => \A n \in TmpNames : files[n] = Nobody
===============================================================================
