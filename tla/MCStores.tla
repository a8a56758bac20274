------------------------------ MODULE MCStores -------------------------------
(* The cache, the object store and the sockets, and the rows beside them:    *)
(* the cache of permissions, the lock of an account and its job, the presence *)
(* of a user, keys, files, documents, sockets, settings, device links, side    *)
(* by side: a behaviour is one of one component.                             *)
EXTENDS Rbac, AccountLock, Presence, KeyBundles, Uploads, Documents, Socket, Settings,
        DeviceLinks

VARIABLE part

moreVars  == <<rbacVars, lockVars, presenceVars>>
otherVars == <<keyVars, uploadVars, docVars, socketVars, settingVars, linkVars>>

MCInit ==
  /\ part \in {"rbac", "lock", "presence", "keys", "uploads", "documents", "socket", "settings",
             "links"}
  /\ RbacInit /\ LockInit /\ PresenceInit /\ KeyInit /\ UploadInit /\ DocInit /\ SocketInit
  /\ SettingsInit /\ LinkInit
  /\ part # "lock" => lock = "none"
  /\ part # "settings" => scope = {"group"}
  /\ stored["group"]["language"] = None

(* Uploads and settings stop after an overlap that voids a property of theirs. *)
UploadStep ==
  UploadNext /\ ~discarded /\ Cardinality(replaced \union undone) <= 1
             /\ (clashed => replaced \union undone = {})
SettingsStep == SettingsNext /\ "preferences" \notin met

MCNext ==
  \/ part = "rbac" /\ RbacNext /\ UNCHANGED <<part, lockVars, presenceVars, otherVars>>
  \/ part = "lock" /\ LockNext /\ UNCHANGED <<part, rbacVars, presenceVars, otherVars>>
  \/ part = "presence" /\ PresenceNext /\ UNCHANGED <<part, rbacVars, lockVars, otherVars>>
  \/ /\ UNCHANGED <<part, moreVars>>
     /\ \/ part = "keys" /\ KeyNext
           /\ UNCHANGED <<uploadVars, docVars, socketVars, settingVars, linkVars>>
        \/ part = "uploads" /\ UploadStep
           /\ UNCHANGED <<keyVars, docVars, socketVars, settingVars, linkVars>>
        \/ part = "documents" /\ DocNext
           /\ UNCHANGED <<keyVars, uploadVars, socketVars, settingVars, linkVars>>
        \/ part = "socket" /\ SocketNext
           /\ UNCHANGED <<keyVars, uploadVars, docVars, settingVars, linkVars>>
        \/ part = "settings" /\ SettingsStep
           /\ UNCHANGED <<keyVars, uploadVars, docVars, socketVars, linkVars>>
        \/ part = "links" /\ LinkNext
           /\ UNCHANGED <<keyVars, uploadVars, docVars, socketVars, settingVars>>

MCSpec ==
  /\ MCInit /\ [][MCNext]_<<part, moreVars, otherVars>>
  /\ RbacFairness /\ LockFairness /\ PresenceFairness
=============================================================================
