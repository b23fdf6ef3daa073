-------------------------- MODULE ProviderAdapters --------------------------
(***************************************************************************)
(* What each operation of the three provider clients makes of a reply:     *)
(* the error it returns, NoError for success.  The requests themselves,    *)
(* their order and their effects are in ProviderClient.                    *)
(***************************************************************************)
EXTENDS ProviderErrors

-----------------------------------------------------------------------------
(* Vast.ai                                                                 *)

VastHandleError(r) ==
  Err(CASE r = "stale"   -> "stale"          \* 400 with no_such_ask
        [] r = "limited" -> "rate"
        [] r = "denied"  -> "auth"
        [] r = "missing" -> "notfound"
        [] OTHER         -> "provider", r)

VastListOffers(r) == Interpret(r, VastHandleError(r))

VastListAllInstances(r) == Interpret(r, VastHandleError(r))

\* A success without a contract is an error with no status.
VastCreateInstance(r) ==
  IF r = "empty" THEN Err("plain", r) ELSE Interpret(r, VastHandleError(r))

\* The bodies of these two are never read.
VastAttachSSHKey(r) == Interpret(Unread(r), VastHandleError(r))

\* 404 is an error here, unlike in the other two clients.
VastDestroyInstance(r) == Interpret(Unread(r), VastHandleError(r))

\* A deleted instance is a 404, or a success that holds no instance.
VastGetInstanceStatus(r) ==
  IF r \in {"missing", "empty"} THEN Err("notfound", r)
  ELSE Interpret(r, VastHandleError(r))

VastListTemplates(r) == Interpret(r, VastHandleError(r))

VastGetAccountBalance(r) == IF r = "ok" THEN NoError ELSE Err("plain", r)

-----------------------------------------------------------------------------
(* TensorDock                                                              *)

TensorHandleError(r) ==
  Err(CASE r = "limited" -> "rate"
        [] r = "denied"  -> "auth"
        [] r = "missing" -> "notfound"
        [] OTHER         -> "provider", r)

TensorListOffers(r) == Interpret(r, TensorHandleError(r))

\* Any status but 200, 401 and 403 is an empty list and no error.
TensorListAllInstances(r) ==
  IF r \in Unanswered \cup {"denied"} THEN Interpret(r, TensorHandleError(r))
  ELSE NoError

\* parseCreateError: never stale inventory.
TensorParseCreateError(r) == Err("provider", r)

\* checkBodyForError: a success may carry an error in its body, and only
\* there is the message looked at for stale inventory.
TensorCheckBodyForError(r) ==
  IF r \in {"stale", "staleDown"} THEN Err("stale", r) ELSE NoError

TensorCreateInstance(r) ==
  IF TensorCheckBodyForError(r) # NoError THEN TensorCheckBodyForError(r)
  ELSE IF r = "empty" THEN Err("plain", r)
  ELSE Interpret(r, TensorParseCreateError(r))

TensorDestroyInstance(r) ==
  IF r = "missing" THEN NoError
  ELSE Interpret(Unread(r), TensorHandleError(r))

TensorGetInstanceStatus(r) ==
  IF r = "missing" THEN Err("notfound", r) ELSE Interpret(r, TensorHandleError(r))

-----------------------------------------------------------------------------
(* Blue Lobster                                                            *)

BlueMapHTTPError(r) ==
  Err(CASE r = "stale"   -> "unavailable"    \* 409
        [] r = "limited" -> "rate"
        [] r = "denied"  -> "auth"
        [] r = "missing" -> "notfound"
        [] OTHER         -> "provider", r)

\* doRequest after the exchange: all operations go through it.  A success
\* without a body is a success.
BlueDoRequest(r) ==
  IF r = "empty" THEN NoError ELSE Interpret(r, BlueMapHTTPError(r))

BlueListOffers(r) == BlueDoRequest(r)

BlueListAllInstances(r) == BlueDoRequest(r)

\* The launch request: a success without a task id is an error.
BlueLaunch(r) == IF r = "empty" THEN Err("plain", r) ELSE BlueDoRequest(r)

\* The task FAILED: an error with no status.
BlueTaskFailed == Err("provider", "invalid")

BlueGetInstanceInfo(r) == BlueDoRequest(r)

BlueDestroyInstance(r) ==
  IF IsNotFoundError(BlueDoRequest(r)) THEN NoError ELSE BlueDoRequest(Unread(r))

BlueGetInstanceStatus(r) == BlueDoRequest(r)

=============================================================================
