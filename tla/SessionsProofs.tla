--------------------------- MODULE SessionsProofs ---------------------------
(***************************************************************************)
(* Proofs about Sessions for every set of users and connections, every     *)
(* assignment of addresses to connections, every number of threads in the  *)
(* pool and every bound.                                                   *)
(***************************************************************************)
EXTENDS Sessions, SequenceTheorems, TLAPS

----------------------------------------------------------------------------
(* The operators of the model. *)

\* A table with one more entry.
LEMMA WithEntry ==
    ASSUME NEW f, NEW x, NEW y
    PROVE  /\ DOMAIN With(f, x, y) = DOMAIN f \cup {x}
           /\ With(f, x, y)[x] = y
           /\ \A z \in DOMAIN f \ {x} : With(f, x, y)[z] = f[z]
BY DEF With

LEMMA WithType ==
    ASSUME NEW S, NEW f, f \in [DOMAIN f -> S], NEW x, NEW y \in S
    PROVE  /\ With(f, x, y) \in [DOMAIN f \cup {x} -> S]
           /\ With(f, x, y) \in [DOMAIN With(f, x, y) -> S]
<1>1. With(f, x, y) \in [DOMAIN f \cup {x} -> S]
  BY DEF With
<1> QED
  BY <1>1

\* A table with one entry less.
LEMMA WithoutEntry ==
    ASSUME NEW f, NEW x
    PROVE  /\ DOMAIN Without(f, x) = DOMAIN f \ {x}
           /\ \A z \in DOMAIN f \ {x} : Without(f, x)[z] = f[z]
BY DEF Without, Restrict

LEMMA WithoutType ==
    ASSUME NEW S, NEW f, f \in [DOMAIN f -> S], NEW x
    PROVE  Without(f, x) \in [DOMAIN Without(f, x) -> S]
BY DEF Without, Restrict

\* Appending one task or two to a queue.
LEMMA AppendTasks ==
    ASSUME NEW S, NEW q \in Seq(S), NEW t \in S, NEW u \in S
    PROVE  /\ Append(q, t) \in Seq(S)
           /\ q \o <<t>> \in Seq(S)
           /\ q \o <<t, u>> \in Seq(S)
<1>1. <<t>> \in Seq(S) /\ <<t, u>> \in Seq(S) /\ Append(q, t) \in Seq(S)
  OBVIOUS
<1> QED
  BY <1>1, ConcatProperties

\* A queue without one of its entries.
LEMMA RemoveAtType ==
    ASSUME NEW S, NEW q \in Seq(S), NEW i \in 1..Len(q)
    PROVE  /\ RemoveAt(q, i) \in Seq(S)
           /\ Len(RemoveAt(q, i)) = Len(q) - 1
           /\ \A j \in 1..(Len(q) - 1) :
                 RemoveAt(q, i)[j] = IF j < i THEN q[j] ELSE q[j + 1]
<1>1. Len(q) \in Nat /\ \A j \in 1..Len(q) : q[j] \in S
  BY ElementOfSeq, LenProperties
<1> DEFINE front == SubSeq(q, 1, i - 1)
           back == SubSeq(q, i + 1, Len(q))
<1>2. /\ front \in Seq(S) /\ Len(front) = i - 1
      /\ \A j \in 1..(i - 1) : front[j] = q[j]
  <2>1. 1 \in Int /\ i - 1 \in Int /\ \A j \in 1..(i - 1) : q[j] \in S
    BY <1>1
  <2>2. /\ front \in Seq(S)
        /\ Len(front) = IF 1 <= i - 1 THEN (i - 1) - 1 + 1 ELSE 0
        /\ \A j \in 1..((i - 1) - 1 + 1) : front[j] = q[1 + j - 1]
    BY <2>1, SubSeqProperties
  <2> HIDE DEF front
  <2> QED
    BY <2>2
<1>3. /\ back \in Seq(S) /\ Len(back) = Len(q) - i
      /\ \A j \in 1..(Len(q) - i) : back[j] = q[i + j]
  <2>1. i + 1 \in Int /\ Len(q) \in Int /\ \A j \in (i + 1)..Len(q) : q[j] \in S
    BY <1>1
  <2>2. /\ back \in Seq(S)
        /\ Len(back) = IF i + 1 <= Len(q) THEN Len(q) - (i + 1) + 1 ELSE 0
        /\ \A j \in 1..(Len(q) - (i + 1) + 1) : back[j] = q[i + 1 + j - 1]
    BY <2>1, SubSeqProperties
  <2> HIDE DEF back
  <2> QED
    BY <1>1, <2>2
<1>4. RemoveAt(q, i) = front \o back
  BY DEF RemoveAt
<1> HIDE DEF front, back
<1>5. /\ front \o back \in Seq(S)
      /\ Len(front \o back) = Len(front) + Len(back)
      /\ \A j \in 1..(Len(front) + Len(back)) :
            (front \o back)[j] = IF j <= Len(front) THEN front[j]
                                                    ELSE back[j - Len(front)]
  BY <1>2, <1>3, ConcatProperties
<1> QED
  BY <1>1, <1>2, <1>3, <1>4, <1>5

----------------------------------------------------------------------------
(* Types. *)

\* What the tasks and jobs of each kind carry.
LEMMA TaskFields ==
    /\ \A t \in ManagerTask :
          t.type \in {"Join", "Quit", "Control"} => t.user \in UserIds
    /\ \A t \in ServerTask :
          /\ t.type = "RoomsInfo" => t.infos \subseteq RoomInfo
          /\ t.type = "Save" => t.user \in UserIds /\ t.score \in Nat
          /\ t.type = "LoggedIn" =>
                t.conn \in Conns /\ t.user \in Users /\ t.score \in Nat
          /\ t.type = "Saved" => t.user \in Users
    /\ \A j \in Job :
          /\ j.user \in Users
          /\ j.op \in {"Find", "Create", "Found"} => j.conn \in Conns
          /\ j.op \in {"Found", "Update"} => j.score \in Nat
<1>1. \A t \in ManagerTask :
          t.type \in {"Join", "Quit", "Control"} => t.user \in UserIds
  BY DEF ManagerTask
<1>2. \A t \in ServerTask :
          /\ t.type = "RoomsInfo" => t.infos \subseteq RoomInfo
          /\ t.type = "Save" => t.user \in UserIds /\ t.score \in Nat
          /\ t.type = "LoggedIn" =>
                t.conn \in Conns /\ t.user \in Users /\ t.score \in Nat
          /\ t.type = "Saved" => t.user \in Users
  BY DEF ServerTask, Notices
<1>3. \A j \in Job :
          /\ j.user \in Users
          /\ j.op \in {"Find", "Create", "Found"} => j.conn \in Conns
          /\ j.op \in {"Found", "Update"} => j.score \in Nat
  BY DEF Job
<1> QED
  BY <1>1, <1>2, <1>3

\* The server starts with no connection, no session and no task.
LEMMA InitType == Init => TypeOK
<1> SUFFICES ASSUME Init PROVE TypeOK
  OBVIOUS
<1>1. /\ jobs \in Seq(Job) /\ managerTasks \in Seq(ManagerTask)
      /\ serverTasks \in Seq(ServerTask)
  BY DEF Init, ServerInit
<1>2. db \in [Users -> Nat \cup {NoRow}] /\ earned \in [UserIds -> Nat]
  BY DEF Init, ServerInit
<1>3. /\ onlineUsers \in [DOMAIN onlineUsers -> Session]
      /\ DOMAIN onlineUsers = {}
      /\ connIdToUserId \in [DOMAIN connIdToUserId -> UserIds]
      /\ DOMAIN connIdToUserId = {}
  BY DEF Init, ServerInit
<1> QED
  BY <1>1, <1>2, <1>3, ServerBoundsAssumption DEF Init, ServerInit, TypeOK

\* The user found at an address is a user id.
LEMMA UserAtType ==
    ASSUME TypeOK, NEW c \in Conns
    PROVE  /\ Address[c] \in Addresses
           /\ UserAt(Address[c]) \in UserIds
           /\ Looked(Address[c]) \in [DOMAIN connIdToUserId \cup {Address[c]} -> UserIds]
           /\ DOMAIN Looked(Address[c]) \subseteq Addresses
<1>1. Address[c] \in Addresses
  BY ConnsAssumption DEF Addresses, Range
<1>2. UserAt(Address[c]) \in UserIds
  BY DEF TypeOK, UserAt, UserIds
<1> DEFINE a == Address[c]
           u == UserAt(a)
<1>3. /\ connIdToUserId \in [DOMAIN connIdToUserId -> UserIds]
      /\ DOMAIN connIdToUserId \subseteq Addresses
      /\ Looked(a) = With(connIdToUserId, a, u)
      /\ u \in UserIds
  BY <1>2 DEF TypeOK, Looked
<1> HIDE DEF a, u
<1>a. With(connIdToUserId, a, u) \in [DOMAIN connIdToUserId \cup {a} -> UserIds]
  BY <1>3, WithType, Zenon
<1>4. Looked(a) \in [DOMAIN connIdToUserId \cup {a} -> UserIds]
  BY <1>3, <1>a
<1>5. DOMAIN Looked(a) \subseteq Addresses
  BY <1>1, <1>3, <1>4 DEF a
<1> QED
  BY <1>1, <1>2, <1>4, <1>5 DEF a

\* Messages, connections and disconnections keep the types.
LEMMA MessagesType ==
    ASSUME TypeOK, NEW c \in Conns, Messages(c), UNCHANGED <<inRoom, earned>>
    PROVE  TypeOK'
<1>1. ASSUME Connect(c) PROVE TypeOK'
  <2>1. tcp' \in [Conns -> {"fresh", "open", "closed"}]
    BY <1>1 DEF Connect, TypeOK
  <2> QED
    BY <1>1, <2>1 DEF Connect, TypeOK
<1>2. ASSUME HandleDisconnection(c) PROVE TypeOK'
  <2> DEFINE u == UserAt(Address[c])
  <2>1. tcp' \in [Conns -> {"fresh", "open", "closed"}]
    BY <1>2 DEF HandleDisconnection, TypeOK
  <2>2. /\ connIdToUserId' \in [DOMAIN connIdToUserId' -> UserIds]
        /\ DOMAIN connIdToUserId' \subseteq Addresses
    BY <1>2, UserAtType DEF HandleDisconnection
  <2>3. CASE Online(u)
    <3>1. /\ onlineUsers' = [onlineUsers EXCEPT ![u].disconnecting = TRUE]
          /\ managerTasks' = Append(managerTasks, [type |-> "Quit", user |-> u])
      BY <1>2, <2>3 DEF HandleDisconnection, Leaves, Ask
    <3>2. u \in UserIds
      BY UserAtType
    <3> HIDE DEF u
    <3>3. onlineUsers' \in [DOMAIN onlineUsers -> Session]
      BY <3>1 DEF TypeOK, Session
    <3>4. [type |-> "Quit", user |-> u] \in ManagerTask
      BY <3>2 DEF ManagerTask
    <3>5. managerTasks' \in Seq(ManagerTask)
      BY <3>1, <3>4, AppendTasks DEF TypeOK
    <3> QED
      BY <1>2, <2>1, <2>2, <3>3, <3>5 DEF HandleDisconnection, TypeOK
  <2>4. CASE ~Online(u)
    BY <1>2, <2>1, <2>2, <2>4 DEF HandleDisconnection, TypeOK
  <2> QED
    BY <2>3, <2>4
<1>3. ASSUME NEW u \in Users, OnLogin(c, u) PROVE TypeOK'
  <2>1. [op |-> "Find", conn |-> c, user |-> u] \in Job
    BY DEF Job
  <2>2. jobs' \in Seq(Job)
    BY <1>3, <2>1, AppendTasks DEF OnLogin, TypeOK
  <2> QED
    BY <1>3, <2>2 DEF OnLogin, TypeOK
<1>4. ASSUME NEW cap \in Caps, OnCreateRoom(c, cap) PROVE TypeOK'
  <2>1. [type |-> "Create", cap |-> cap] \in ManagerTask
    BY DEF ManagerTask
  <2>2. managerTasks' \in Seq(ManagerTask)
    BY <1>4, <2>1, AppendTasks DEF OnCreateRoom, Ask, TypeOK
  <2>3. roomNum' \in 0..MaxRoomNum
    BY <1>4, ServerBoundsAssumption DEF OnCreateRoom, RoomLeft, TypeOK
  <2> QED
    BY <1>4, <2>2, <2>3 DEF OnCreateRoom, TypeOK
<1>5. ASSUME NEW r \in RoomIds, OnJoinRoom(c, r) PROVE TypeOK'
  <2>1. connIdToUserId[Address[c]] \in UserIds
    BY <1>5 DEF OnJoinRoom, TypeOK
  <2>2. [type |-> "Join", user |-> connIdToUserId[Address[c]], room |-> r]
          \in ManagerTask
    BY <2>1 DEF ManagerTask
  <2>3. managerTasks' \in Seq(ManagerTask)
    BY <1>5, <2>2, AppendTasks DEF OnJoinRoom, Ask, TypeOK
  <2> QED
    BY <1>5, <2>3 DEF OnJoinRoom, serverVars, TypeOK
<1>6. ASSUME OnQuitRoom(c) PROVE TypeOK'
  <2>1. [type |-> "Quit", user |-> UserAt(Address[c])] \in ManagerTask
    BY UserAtType DEF ManagerTask
  <2>2. managerTasks' \in Seq(ManagerTask)
    BY <1>6, <2>1, AppendTasks DEF OnQuitRoom, Ask, TypeOK
  <2>3. /\ connIdToUserId' \in [DOMAIN connIdToUserId' -> UserIds]
        /\ DOMAIN connIdToUserId' \subseteq Addresses
    BY <1>6, UserAtType DEF OnQuitRoom
  <2> QED
    BY <1>6, <2>2, <2>3 DEF OnQuitRoom, TypeOK
<1>7. ASSUME OnControlMessage(c) PROVE TypeOK'
  <2>1. connIdToUserId[Address[c]] \in UserIds
    BY <1>7 DEF OnControlMessage, TypeOK
  <2>2. [type |-> "Control", user |-> connIdToUserId[Address[c]]] \in ManagerTask
    BY <2>1 DEF ManagerTask
  <2>3. managerTasks' \in Seq(ManagerTask)
    BY <1>7, <2>2, AppendTasks DEF OnControlMessage, Ask, TypeOK
  <2> QED
    BY <1>7, <2>3 DEF OnControlMessage, serverVars, TypeOK
<1> QED
  BY <1>1, <1>2, <1>3, <1>4, <1>5, <1>6, <1>7 DEF Messages

\* A job in the hands of a thread is one of the queue.
LEMMA WorkingJob ==
    ASSUME TypeOK, NEW i \in 1..Workers, Working(i)
    PROVE  i \in 1..Len(jobs) /\ jobs[i] \in Job
BY ElementOfSeq DEF Working, TypeOK

\* Database accesses and their callbacks keep the types.
LEMMA PoolThreadType ==
    ASSUME TypeOK, NEW i \in 1..Workers, PoolThread(i), UNCHANGED <<inRoom, earned>>
    PROVE  TypeOK'
<1>0. Working(i) /\ i \in 1..Len(jobs) /\ jobs[i] \in Job /\ jobs \in Seq(Job)
  BY WorkingJob
     DEF PoolThread, FindUser, CreateUser, SaveUserInfoToDB, Callback, TypeOK
<1>1. ASSUME FindUser(i) PROVE TypeOK'
  <2> DEFINE c == jobs[i].conn
             u == jobs[i].user
             job == IF db[u] = NoRow
                    THEN [op |-> "Create", conn |-> c, user |-> u]
                    ELSE [op |-> "Found", conn |-> c, user |-> u, score |-> db[u]]
  <2>1. c \in Conns /\ u \in Users
    BY <1>0, <1>1, TaskFields DEF FindUser
  <2>2. job \in Job
    <3>1. db[u] \in Nat \cup {NoRow}
      BY <2>1 DEF TypeOK
    <3> HIDE DEF c, u
    <3> QED
      BY <2>1, <3>1 DEF Job
  <2>3. jobs' = [jobs EXCEPT ![i] = job]
    BY <1>1 DEF FindUser
  <2> HIDE DEF job
  <2>4. jobs' \in Seq(Job)
    BY <1>0, <2>2, <2>3, ExceptSeq
  <2> QED
    BY <1>1, <2>4 DEF FindUser, TypeOK
<1>2. ASSUME CreateUser(i) PROVE TypeOK'
  <2> DEFINE job == [op |-> "Found", conn |-> jobs[i].conn, user |-> jobs[i].user,
                     score |-> 0]
  <2>1. jobs[i].conn \in Conns /\ jobs[i].user \in Users
    BY <1>0, <1>2, TaskFields DEF CreateUser
  <2>2. job \in Job
    BY <2>1 DEF Job
  <2>3. jobs' = [jobs EXCEPT ![i] = job]
    BY <1>2 DEF CreateUser
  <2> HIDE DEF job
  <2>4. jobs' \in Seq(Job)
    BY <1>0, <2>2, <2>3, ExceptSeq
  <2>5. db' \in [Users -> Nat \cup {NoRow}]
    BY <1>2, <2>1 DEF CreateUser, TypeOK
  <2> QED
    BY <1>2, <2>4, <2>5 DEF CreateUser, TypeOK
<1>3. ASSUME SaveUserInfoToDB(i) PROVE TypeOK'
  <2> DEFINE job == [op |-> "Updated", user |-> jobs[i].user]
  <2>1. jobs[i].score \in Nat /\ jobs[i].user \in Users
    BY <1>0, <1>3, TaskFields DEF SaveUserInfoToDB
  <2>2. job \in Job
    BY <2>1 DEF Job
  <2>3. jobs' = [jobs EXCEPT ![i] = job]
    BY <1>3 DEF SaveUserInfoToDB
  <2> HIDE DEF job
  <2>4. jobs' \in Seq(Job)
    BY <1>0, <2>2, <2>3, ExceptSeq
  <2>5. db' \in [Users -> Nat \cup {NoRow}]
    BY <1>3, <2>1 DEF SaveUserInfoToDB, TypeOK
  <2> QED
    BY <1>3, <2>4, <2>5 DEF SaveUserInfoToDB, TypeOK
<1>4. ASSUME Callback(i) PROVE TypeOK'
  <2> DEFINE task == IF jobs[i].op = "Found"
                     THEN [type |-> "LoggedIn", conn |-> jobs[i].conn,
                           user |-> jobs[i].user, score |-> jobs[i].score]
                     ELSE [type |-> "Saved", user |-> jobs[i].user]
  <2>1. jobs[i].user \in Users
        /\ (jobs[i].op = "Found" => jobs[i].conn \in Conns /\ jobs[i].score \in Nat)
    BY <1>0, TaskFields
  <2>2. task \in ServerTask
    BY <2>1 DEF ServerTask
  <2>3. serverTasks' = Append(serverTasks, task) /\ jobs' = RemoveAt(jobs, i)
    BY <1>4 DEF Callback
  <2> HIDE DEF task
  <2>4. serverTasks' \in Seq(ServerTask) /\ jobs' \in Seq(Job)
    BY <1>0, <2>2, <2>3, AppendTasks, RemoveAtType DEF TypeOK
  <2> QED
    BY <1>4, <2>4 DEF Callback, TypeOK
<1> QED
  BY <1>1, <1>2, <1>3, <1>4 DEF PoolThread

\* What the IO thread takes is a task, and leaves tasks.
LEMMA TakenTask ==
    ASSUME TypeOK, NEW types, TakeTask(types)
    PROVE  /\ Head(serverTasks) \in ServerTask /\ Head(serverTasks).type \in types
           /\ serverTasks' \in Seq(ServerTask)
           /\ serverTasks \in Seq(ServerTask) /\ serverTasks # <<>>
           /\ UNCHANGED <<tcp, roomNum, db, managerTasks>>
BY HeadTailProperties DEF TakeTask, TypeOK

\* A task of the IO thread that changes neither rooms nor messages nor the
\* history keeps the types if it keeps those of the tables, jobs and failures.
LEMMA IOTaskKeepsType ==
    ASSUME TypeOK, NEW types, TakeTask(types), UNCHANGED <<inRoom, earned>>,
           roomInfos' \subseteq RoomInfo,
           told' \in [Conns -> SUBSET RoomInfo],
           onlineUsers' \in [DOMAIN onlineUsers' -> Session],
           DOMAIN onlineUsers' \subseteq Users,
           connIdToUserId' \in [DOMAIN connIdToUserId' -> UserIds],
           DOMAIN connIdToUserId' \subseteq Addresses,
           jobs' \in Seq(Job),
           failed' \subseteq Failures
    PROVE  TypeOK'
<1>1. serverTasks' \in Seq(ServerTask) /\ UNCHANGED <<tcp, roomNum, db, managerTasks>>
  BY TakenTask
<1> QED
  BY <1>1 DEF TypeOK

\* Nor does a message to users change the types of what it may change.
LEMMA SendType ==
    ASSUME TypeOK, NEW users, Send(users) \/ \E f \in Failures : Fail(f)
    PROVE  /\ UNCHANGED <<onlineUsers, connIdToUserId, jobs>>
           /\ failed' \subseteq Failures
BY DEF Send, Fail, Failures, TypeOK

\* The tasks of the IO thread keep the types.
LEMMA IOTaskType ==
    ASSUME TypeOK, IOTask, UNCHANGED <<inRoom, earned>>
    PROVE  TypeOK'
<1>0. /\ onlineUsers \in [DOMAIN onlineUsers -> Session]
      /\ DOMAIN onlineUsers \subseteq Users
      /\ connIdToUserId \in [DOMAIN connIdToUserId -> UserIds]
      /\ DOMAIN connIdToUserId \subseteq Addresses
      /\ jobs \in Seq(Job) /\ failed \subseteq Failures
      /\ roomInfos \subseteq RoomInfo /\ told \in [Conns -> SUBSET RoomInfo]
  BY DEF TypeOK
<1>1. ASSUME RoomsInfoBroadcast PROVE TypeOK'
  <2>1. TakeTask({"RoomsInfo"}) /\ Send(DOMAIN onlineUsers)
    BY <1>1 DEF RoomsInfoBroadcast
  <2>2. roomInfos' \subseteq RoomInfo
    BY <1>1, <2>1, TakenTask, TaskFields DEF RoomsInfoBroadcast
  <2>3. told' \in [Conns -> SUBSET RoomInfo]
    BY <1>0, <1>1, <2>2 DEF RoomsInfoBroadcast, SendRoomsInfo
  <2>4. UNCHANGED <<onlineUsers, connIdToUserId, jobs>> /\ failed' \subseteq Failures
    BY <2>1, SendType
  <2> QED
    BY <1>0, <2>1, <2>2, <2>3, <2>4, IOTaskKeepsType
<1>2. ASSUME JoinRoomRespond PROVE TypeOK'
  <2>1. TakeTask({"JoinResp"}) /\ UNCHANGED <<roomInfos, told>>
    BY <1>2 DEF JoinRoomRespond
  <2>2. UNCHANGED <<onlineUsers, connIdToUserId, jobs>> /\ failed' \subseteq Failures
    BY <1>2, SendType DEF JoinRoomRespond
  <2> QED
    BY <1>0, <2>1, <2>2, IOTaskKeepsType
<1>3. ASSUME Notify PROVE TypeOK'
  <2>1. TakeTask(Notices) /\ UNCHANGED <<roomInfos, told>>
    BY <1>3 DEF Notify
  <2>2. UNCHANGED <<onlineUsers, connIdToUserId, jobs>> /\ failed' \subseteq Failures
    BY <1>3, SendType DEF Notify
  <2> QED
    BY <1>0, <2>1, <2>2, IOTaskKeepsType
<1>4. ASSUME ObjectsDataBroadcast PROVE TypeOK'
  <2>1. /\ TakeTask({"Objects"})
        /\ UNCHANGED <<onlineUsers, connIdToUserId, roomInfos, told, jobs, failed>>
    BY <1>4 DEF ObjectsDataBroadcast
  <2> QED
    BY <1>0, <2>1, IOTaskKeepsType
<1>5. ASSUME SaveOnlineUserInfo PROVE TypeOK'
  <2> DEFINE u == Head(serverTasks).user
             score == onlineUsers[u].score + Head(serverTasks).score
  <2>1. /\ TakeTask({"Save"})
        /\ UNCHANGED <<connIdToUserId, roomInfos, told, failed>>
    BY <1>5 DEF SaveOnlineUserInfo
  <2>2. u \in UserIds /\ Head(serverTasks).score \in Nat
    BY <2>1, TakenTask, TaskFields
  <2>3. CASE Online(u)
    <3>1. onlineUsers[u] \in Session /\ u \in Users
      BY <1>0, <2>3 DEF Online
    <3>2. score \in Nat
      BY <2>2, <3>1 DEF Session
    <3>3. /\ onlineUsers' = [onlineUsers EXCEPT ![u].score = score]
          /\ jobs' = Append(jobs, [op |-> "Update", user |-> u, score |-> score])
      BY <1>5, <2>3 DEF SaveOnlineUserInfo, Saves
    <3> HIDE DEF u, score
    <3>4. onlineUsers' \in [DOMAIN onlineUsers -> Session]
      BY <1>0, <3>2, <3>3 DEF Session
    <3>5. [op |-> "Update", user |-> u, score |-> score] \in Job
      BY <3>1, <3>2 DEF Job
    <3>6. jobs' \in Seq(Job)
      BY <1>0, <3>3, <3>5, AppendTasks
    <3> QED
      BY <1>0, <2>1, <3>4, <3>6, IOTaskKeepsType
  <2>4. CASE ~Online(u)
    <3>1. UNCHANGED <<onlineUsers, jobs>>
      BY <1>5, <2>4 DEF SaveOnlineUserInfo, Saves
    <3> QED
      BY <1>0, <2>1, <3>1, IOTaskKeepsType
  <2> QED
    BY <2>3, <2>4
<1>6. ASSUME FindUserCallback PROVE TypeOK'
  <2> DEFINE u == Head(serverTasks).user
             c == Head(serverTasks).conn
             score == Head(serverTasks).score
  <2>1. TakeTask({"LoggedIn"}) /\ UNCHANGED roomInfos
    BY <1>6 DEF FindUserCallback
  <2>2. c \in Conns /\ u \in Users /\ score \in Nat
    BY <2>1, TakenTask, TaskFields
  <2>3. CASE UNCHANGED told /\ \E f \in Failures : Fail(f)
    <3>1. UNCHANGED <<onlineUsers, connIdToUserId, jobs>> /\ failed' \subseteq Failures
      BY <2>3, SendType
    <3> QED
      BY <1>0, <2>1, <2>3, <3>1, IOTaskKeepsType
  <2>4. CASE /\ onlineUsers' = With(onlineUsers, u, NewSession(c, u, score))
             /\ connIdToUserId' = With(MappingCleared(u), Address[c], u)
             /\ SendRoomsInfo(InformedAtLogin(c), roomInfos)
             /\ UNCHANGED <<jobs, failed>>
    <3>1. NewSession(c, u, score) \in Session
      BY <2>2 DEF NewSession, Session
    <3>2. /\ MappingCleared(u) \in [DOMAIN MappingCleared(u) -> UserIds]
          /\ DOMAIN MappingCleared(u) \subseteq Addresses
      <4> DEFINE a == Address[onlineUsers[u].conn]
                 less == Without(connIdToUserId, a)
      <4>1. less \in [DOMAIN less -> UserIds]
        BY <1>0, WithoutType, Zenon
      <4>2. DOMAIN less = DOMAIN connIdToUserId \ {a}
        BY WithoutEntry, Zenon
      <4>3. MappingCleared(u) = less \/ MappingCleared(u) = connIdToUserId
        BY DEF MappingCleared
      <4> QED
        BY <1>0, <4>1, <4>2, <4>3
    <3>3. Address[c] \in Addresses /\ u \in UserIds
      BY <2>2, UserAtType DEF UserIds
    <3>4. told' \in [Conns -> SUBSET RoomInfo]
      BY <1>0, <2>4 DEF SendRoomsInfo
    <3> HIDE DEF u, c, score
    <3>5. /\ onlineUsers' \in [DOMAIN onlineUsers \cup {u} -> Session]
          /\ connIdToUserId' \in [DOMAIN MappingCleared(u) \cup {Address[c]} -> UserIds]
      BY <1>0, <2>4, <3>1, <3>2, <3>3, WithType
    <3>6. /\ DOMAIN onlineUsers' \subseteq Users
          /\ DOMAIN connIdToUserId' \subseteq Addresses
      BY <1>0, <2>2, <3>2, <3>3, <3>5
    <3>7. /\ onlineUsers' \in [DOMAIN onlineUsers' -> Session]
          /\ connIdToUserId' \in [DOMAIN connIdToUserId' -> UserIds]
      BY <3>5
    <3> QED
      BY <1>0, <2>1, <2>4, <3>4, <3>6, <3>7, IOTaskKeepsType
  <2> QED
    BY <1>6, <2>3, <2>4 DEF FindUserCallback, Failures
<1>7. ASSUME SaveUserInfoCallback PROVE TypeOK'
  <2> DEFINE u == Head(serverTasks).user
             session == IF Online(u) THEN onlineUsers[u] ELSE NoSession
  <2>1. TakeTask({"Saved"}) /\ UNCHANGED <<roomInfos, told>>
    BY <1>7 DEF SaveUserInfoCallback
  <2>2. u \in Users
    BY <2>1, TakenTask, TaskFields
  <2>3. session \in Session
    BY <1>0 DEF Online, NoSession, Session
  <2>4. CASE \E f \in Failures : Fail(f)
    <3>1. UNCHANGED <<onlineUsers, connIdToUserId, jobs>> /\ failed' \subseteq Failures
      BY <2>4, SendType
    <3> QED
      BY <1>0, <2>1, <3>1, IOTaskKeepsType
  <2>5. CASE /\ onlineUsers' = With(onlineUsers, u, session)
             /\ UNCHANGED <<connIdToUserId, jobs, failed>>
    <3> HIDE DEF u, session
    <3>1. onlineUsers' \in [DOMAIN onlineUsers \cup {u} -> Session]
      BY <1>0, <2>3, <2>5, WithType
    <3>2. DOMAIN onlineUsers' \subseteq Users
          /\ onlineUsers' \in [DOMAIN onlineUsers' -> Session]
      BY <1>0, <2>2, <3>1
    <3> QED
      BY <1>0, <2>1, <2>5, <3>2, IOTaskKeepsType
  <2>6. CASE /\ onlineUsers' = Without(onlineUsers, u)
             /\ connIdToUserId' = Without(connIdToUserId, Address[session.conn])
             /\ UNCHANGED <<jobs, failed>>
    <3> HIDE DEF u, session
    <3>1. /\ onlineUsers' \in [DOMAIN onlineUsers' -> Session]
          /\ connIdToUserId' \in [DOMAIN connIdToUserId' -> UserIds]
      BY <1>0, <2>6, WithoutType, Zenon
    <3>2. /\ DOMAIN onlineUsers' \subseteq Users
          /\ DOMAIN connIdToUserId' \subseteq Addresses
      <4>1. /\ DOMAIN onlineUsers' = DOMAIN onlineUsers \ {u}
            /\ DOMAIN connIdToUserId' =
                  DOMAIN connIdToUserId \ {Address[session.conn]}
        BY <2>6, WithoutEntry, Zenon
      <4> QED
        BY <1>0, <4>1
    <3> QED
      BY <1>0, <2>1, <2>6, <3>1, <3>2, IOTaskKeepsType
  <2> QED
    BY <1>7, <2>4, <2>5, <2>6 DEF SaveUserInfoCallback, Failures
<1> QED
  BY <1>1, <1>2, <1>3, <1>4, <1>5, <1>6, <1>7 DEF IOTask

\* What the Manager's thread takes is a task it was asked for.
LEMMA ManagerTaskTaken ==
    ASSUME TypeOK, NEW type, ManagerTakes(type)
    PROVE  /\ Head(managerTasks) \in ManagerTask /\ Head(managerTasks).type = type
           /\ managerTasks \in Seq(ManagerTask) /\ managerTasks # <<>>
           /\ managerTasks' = Tail(managerTasks)
           /\ managerTasks' \in Seq(ManagerTask)
           /\ UNCHANGED serverVars
BY HeadTailProperties DEF ManagerTakes, TypeOK

\* A step of the Manager keeps the types if it posts tasks.
LEMMA ManagerKeepsType ==
    ASSUME TypeOK, UNCHANGED <<serverVars, failed>>,
           managerTasks' \in Seq(ManagerTask),
           serverTasks' \in Seq(ServerTask),
           inRoom' \subseteq UserIds,
           earned' \in [UserIds -> Nat]
    PROVE  TypeOK'
BY DEF TypeOK, serverVars

\* manageGames and restartRoom post one notice or two.
LEMMA NoticesPosted ==
    ASSUME TypeOK, ManageGames
    PROVE  \E t, w \in ServerTask :
              /\ t.type = "GameOn" /\ w.type = "GameOn"
              /\ \/ serverTasks' = serverTasks \o <<t>>
                 \/ serverTasks' = serverTasks \o <<t, w>>
<1>1. ASSUME NEW users \in SUBSET (inRoom \cap Users)
      PROVE  Notice(users) \in ServerTask /\ Notice(users).type = "GameOn"
  BY DEF Notice, ServerTask, Notices, UserIds
<1>2. \E some \in SUBSET (inRoom \cap Users), others \in SUBSET (inRoom \cap Users) :
         \/ PostAll(<<Notice(some)>>)
         \/ PostAll(<<Notice(some), Notice(others)>>)
  BY DEF ManageGames
<1> QED
  BY <1>1, <1>2 DEF PostAll

\* The Manager's side keeps the types.
LEMMA ManagerType ==
    ASSUME TypeOK, ManagerRuns \/ ManageGames
    PROVE  TypeOK'
<1>0. /\ serverTasks \in Seq(ServerTask) /\ managerTasks \in Seq(ManagerTask)
      /\ inRoom \subseteq UserIds /\ earned \in [UserIds -> Nat]
  BY DEF TypeOK
<1>a. /\ RoomsInfoTask \in ServerTask
      /\ \A u \in UserIds : [type |-> "JoinResp", user |-> u] \in ServerTask
      /\ \A u \in UserIds, n \in Nat :
            [type |-> "Save", user |-> u, score |-> n] \in ServerTask
  BY DEF RoomsInfoTask, ServerTask
<1>1. ASSUME ManageCreateRoom, UNCHANGED failed PROVE TypeOK'
  <2>1. serverTasks' \in Seq(ServerTask)
    BY <1>0, <1>1, <1>a, AppendTasks DEF ManageCreateRoom, PostAll
  <2>2. managerTasks' \in Seq(ManagerTask) /\ UNCHANGED serverVars
    BY <1>1, ManagerTaskTaken DEF ManageCreateRoom
  <2> QED
    BY <1>0, <1>1, <2>1, <2>2, ManagerKeepsType DEF ManageCreateRoom
<1>2. ASSUME ManageJoinRoom, UNCHANGED failed PROVE TypeOK'
  <2> DEFINE u == Head(managerTasks).user
  <2>1. /\ ManagerTakes("Join") /\ UNCHANGED earned
        /\ RefuseJoin(u) \/ EnterRoom(u)
    BY <1>2 DEF ManageJoinRoom
  <2>2. u \in UserIds /\ managerTasks' \in Seq(ManagerTask) /\ UNCHANGED serverVars
    BY <2>1, ManagerTaskTaken, TaskFields
  <2> HIDE DEF u
  <2>3. serverTasks' \in Seq(ServerTask)
    BY <1>0, <1>a, <2>1, <2>2, AppendTasks DEF RefuseJoin, EnterRoom, PostAll
  <2>4. inRoom' \subseteq UserIds
    BY <1>0, <2>1, <2>2 DEF RefuseJoin, EnterRoom
  <2> QED
    BY <1>0, <1>2, <2>1, <2>2, <2>3, <2>4, ManagerKeepsType
<1>3. ASSUME ManageQuitRoom, UNCHANGED failed PROVE TypeOK'
  <2> DEFINE u == Head(managerTasks).user
  <2>1. ManagerTakes("Quit")
    BY <1>3 DEF ManageQuitRoom
  <2>2. u \in UserIds /\ managerTasks' \in Seq(ManagerTask) /\ UNCHANGED serverVars
    BY <2>1, ManagerTaskTaken, TaskFields
  <2>3. CASE u \in inRoom
    <3>1. PICK points \in 0..(MaxPoints - earned[u]) :
             /\ inRoom' = inRoom \ {u}
             /\ earned' = [earned EXCEPT ![u] = @ + points]
             /\ PostAll(<<[type |-> "Save", user |-> u, score |-> points],
                          RoomsInfoTask>>)
      BY <1>3, <2>3 DEF ManageQuitRoom
    <3> HIDE DEF u
    <3>2. points \in Nat
      OBVIOUS
    <3>3. serverTasks' \in Seq(ServerTask)
      <4>1. [type |-> "Save", user |-> u, score |-> points] \in ServerTask
        BY <1>a, <2>2, <3>2
      <4> QED
        BY <1>0, <1>a, <3>1, <4>1, AppendTasks DEF PostAll
    <3>4. inRoom' \subseteq UserIds /\ earned' \in [UserIds -> Nat]
      BY <1>0, <2>2, <3>1, <3>2
    <3> QED
      BY <1>3, <2>2, <3>3, <3>4, ManagerKeepsType
  <2>4. CASE u \notin inRoom
    <3>1. UNCHANGED <<inRoom, earned, serverTasks>>
      BY <1>3, <2>4 DEF ManageQuitRoom
    <3> QED
      BY <1>0, <1>3, <2>2, <3>1, ManagerKeepsType
  <2> QED
    BY <2>3, <2>4
<1>4. ASSUME ManageControl, UNCHANGED failed PROVE TypeOK'
  <2>1. managerTasks' \in Seq(ManagerTask) /\ UNCHANGED serverVars
    BY <1>4, ManagerTaskTaken DEF ManageControl
  <2> QED
    BY <1>0, <1>4, <2>1, ManagerKeepsType DEF ManageControl
<1>5. ASSUME ManageGames PROVE TypeOK'
  <2>1. PICK t \in ServerTask, w \in ServerTask :
           \/ serverTasks' = serverTasks \o <<t>>
           \/ serverTasks' = serverTasks \o <<t, w>>
    BY <1>5, NoticesPosted
  <2>2. <<t>> \in Seq(ServerTask) /\ <<t, w>> \in Seq(ServerTask)
    OBVIOUS
  <2>3. serverTasks' \in Seq(ServerTask)
    BY <1>0, <2>1, <2>2, ConcatProperties
  <2> QED
    BY <1>0, <1>5, <2>3, ManagerKeepsType DEF ManageGames
<1> QED
  BY <1>1, <1>2, <1>3, <1>4, <1>5 DEF ManagerRuns

\* Every step keeps the types.
LEMMA NextType ==
    ASSUME TypeOK, [Next]_sessionVars
    PROVE  TypeOK'
<1>1. CASE UNCHANGED sessionVars
  BY <1>1 DEF sessionVars, serverVars, TypeOK
<1> QED
  BY <1>1, MessagesType, PoolThreadType, IOTaskType, ManagerType DEF Next

\* Type correctness; roomNum_ never exceeds maxRoomNum_, whoever asks for rooms.
THEOREM TypeCorrect == Spec => []TypeOK
BY InitType, NextType, PTL DEF Spec

----------------------------------------------------------------------------
(* The two tables of the Server. *)

IndexInv == SessionsIndexed /\ SavedAsserts

\* A step that leaves both tables alone.
LEMMA TablesKept ==
    ASSUME IndexInv, UNCHANGED <<onlineUsers, connIdToUserId>>,
           "saved" \in failed' => "saved" \in failed
    PROVE  IndexInv'
BY DEF IndexInv, SessionsIndexed, SavedAsserts, Online

\* operator[] makes at most an entry 0, for an address where nobody is found.
LEMMA LookKeepsIndexed ==
    ASSUME IndexInv, NEW a, connIdToUserId' = Looked(a),
           DOMAIN onlineUsers' = DOMAIN onlineUsers,
           \A u \in DOMAIN onlineUsers : onlineUsers'[u].conn = onlineUsers[u].conn,
           UNCHANGED failed
    PROVE  IndexInv'
<1>1. /\ DOMAIN connIdToUserId' = DOMAIN connIdToUserId \cup {a}
      /\ connIdToUserId'[a] = UserAt(a)
      /\ \A b \in DOMAIN connIdToUserId \ {a} : connIdToUserId'[b] = connIdToUserId[b]
  BY DEF Looked, With
<1>2. \A b \in DOMAIN connIdToUserId : connIdToUserId'[b] = connIdToUserId[b]
  BY <1>1 DEF UserAt
<1>3. a \notin DOMAIN connIdToUserId => connIdToUserId'[a] = NoUser
  BY <1>1 DEF UserAt
<1> QED
  BY <1>1, <1>2, <1>3 DEF IndexInv, SessionsIndexed, SavedAsserts, Online

\* Messages, connections and disconnections keep the tables each other's inverse.
LEMMA MessagesIndexed ==
    ASSUME TypeOK, IndexInv, NEW c \in Conns, Messages(c)
    PROVE  IndexInv'
<1>1. ASSUME HandleDisconnection(c) PROVE IndexInv'
  <2> DEFINE u == UserAt(Address[c])
  <2>1. /\ connIdToUserId' = Looked(Address[c]) /\ UNCHANGED failed
        /\ \/ onlineUsers' = [onlineUsers EXCEPT ![u].disconnecting = TRUE]
           \/ UNCHANGED onlineUsers
    BY <1>1 DEF HandleDisconnection
  <2>2. /\ DOMAIN onlineUsers' = DOMAIN onlineUsers
        /\ \A v \in DOMAIN onlineUsers : onlineUsers'[v].conn = onlineUsers[v].conn
    <3>1. \A v \in DOMAIN onlineUsers : onlineUsers[v] \in Session
      BY DEF TypeOK
    <3> HIDE DEF u
    <3> QED
      BY <2>1, <3>1 DEF Session
  <2> QED
    BY <2>1, <2>2, LookKeepsIndexed
<1>2. ASSUME OnQuitRoom(c) PROVE IndexInv'
  BY <1>2, LookKeepsIndexed DEF OnQuitRoom
<1>3. CASE UNCHANGED <<onlineUsers, connIdToUserId, failed>>
  BY <1>3, TablesKept
<1> QED
  BY <1>1, <1>2, <1>3
     DEF Messages, Connect, OnLogin, OnCreateRoom, OnJoinRoom, OnControlMessage,
         serverVars

\* The pool and the Manager do not touch the tables.
LEMMA OthersIndexed ==
    ASSUME IndexInv,
           (\E i \in 1..Workers : PoolThread(i)) \/ ManagerRuns \/ ManageGames
    PROVE  IndexInv'
<1>1. ASSUME NEW i \in 1..Workers, PoolThread(i) PROVE IndexInv'
  BY <1>1, TablesKept
     DEF PoolThread, FindUser, CreateUser, SaveUserInfoToDB, Callback
<1>2. ASSUME ManagerRuns \/ ManageGames PROVE IndexInv'
  BY <1>2, TablesKept
     DEF ManagerRuns, ManageCreateRoom, ManageJoinRoom, ManageQuitRoom, ManageControl,
         ManageGames, ManagerTakes, serverVars
<1> QED
  BY <1>1, <1>2

\* A login clears the address of the user's last connection, and takes an
\* address nobody else is found at.
LEMMA LoginIndexed ==
    ASSUME TypeOK, IndexInv, FindUserCallback
    PROVE  IndexInv'
<1> DEFINE u == Head(serverTasks).user
           c == Head(serverTasks).conn
           session == NewSession(c, u, Head(serverTasks).score)
           a == Address[c]
           cleared == MappingCleared(u)
<1>1. c \in Conns /\ u \in Users /\ u # NoUser /\ c # NoConn
  BY TakenTask, TaskFields, UsersAssumption, ConnsAssumption DEF FindUserCallback
<1>2. CASE Fail("nullConn") \/ Fail("login")
  BY <1>2, TablesKept DEF Fail
<1>3. CASE /\ ~(Online(u) /\ onlineUsers[u].conn = NoConn)
           /\ a \notin DOMAIN cleared
           /\ onlineUsers' = With(onlineUsers, u, session)
           /\ connIdToUserId' = With(cleared, a, u)
           /\ UNCHANGED failed
  <2>1. session.conn = c
    BY DEF NewSession
  <2>2. ASSUME NEW b \in DOMAIN cleared
        PROVE  /\ b \in DOMAIN connIdToUserId /\ cleared[b] = connIdToUserId[b]
               /\ cleared[b] # u
    <3>1. CASE Online(u)
      <4>1. /\ DOMAIN cleared = DOMAIN connIdToUserId \ {Address[onlineUsers[u].conn]}
            /\ cleared[b] = connIdToUserId[b]
        BY <3>1, WithoutEntry DEF MappingCleared
      <4>2. b # Address[onlineUsers[u].conn]
        BY <4>1
      <4> QED
        BY <1>1, <4>1, <4>2 DEF IndexInv, SessionsIndexed
    <3>2. CASE ~Online(u)
      <4>1. cleared = connIdToUserId
        BY <3>2 DEF MappingCleared
      <4> HIDE DEF u, cleared
      <4> QED
        BY <1>1, <3>2, <4>1 DEF IndexInv, SessionsIndexed
    <3> QED
      BY <3>1, <3>2
  <2>3. ASSUME NEW v \in DOMAIN onlineUsers \ {u}, onlineUsers[v].conn # NoConn
        PROVE  /\ Address[onlineUsers[v].conn] \in DOMAIN cleared
               /\ cleared[Address[onlineUsers[v].conn]] = v
    <3> DEFINE b == Address[onlineUsers[v].conn]
    <3>1. b \in DOMAIN connIdToUserId /\ connIdToUserId[b] = v
      BY <2>3 DEF IndexInv, SessionsIndexed
    <3>2. CASE Online(u)
      <4>1. b # Address[onlineUsers[u].conn]
        BY <1>3, <3>1, <3>2 DEF IndexInv, SessionsIndexed, Online
      <4> HIDE DEF b
      <4>2. /\ DOMAIN cleared = DOMAIN connIdToUserId \ {Address[onlineUsers[u].conn]}
            /\ \A d \in DOMAIN connIdToUserId \ {Address[onlineUsers[u].conn]} :
                  cleared[d] = connIdToUserId[d]
        BY <3>2, WithoutEntry DEF MappingCleared
      <4>3. b \in DOMAIN connIdToUserId \ {Address[onlineUsers[u].conn]}
        BY <3>1, <4>1
      <4>4. b \in DOMAIN cleared /\ cleared[b] = v
        BY <3>1, <4>2, <4>3, Zenon
      <4> QED
        BY <4>4 DEF b
    <3>3. CASE ~Online(u)
      BY <3>1, <3>3 DEF MappingCleared
    <3> QED
      BY <3>2, <3>3
  <2> HIDE DEF u, c, session, a, cleared
  <2>4. /\ DOMAIN onlineUsers' = DOMAIN onlineUsers \cup {u}
        /\ onlineUsers'[u] = session
        /\ \A v \in DOMAIN onlineUsers \ {u} : onlineUsers'[v] = onlineUsers[v]
        /\ DOMAIN connIdToUserId' = DOMAIN cleared \cup {a}
        /\ connIdToUserId'[a] = u
        /\ \A b \in DOMAIN cleared \ {a} : connIdToUserId'[b] = cleared[b]
    BY <1>3 DEF With
  <2>5. ASSUME NEW v \in DOMAIN onlineUsers', onlineUsers'[v].conn # NoConn
        PROVE  /\ Address[onlineUsers'[v].conn] \in DOMAIN connIdToUserId'
               /\ connIdToUserId'[Address[onlineUsers'[v].conn]] = v
    <3>1. CASE v = u
      BY <2>1, <2>4, <3>1 DEF a
    <3>2. CASE v # u
      <4>1. v \in DOMAIN onlineUsers \ {u} /\ onlineUsers'[v] = onlineUsers[v]
        BY <2>4, <3>2
      <4>2. /\ Address[onlineUsers[v].conn] \in DOMAIN cleared
            /\ cleared[Address[onlineUsers[v].conn]] = v
        BY <2>3, <2>5, <4>1
      <4> QED
        BY <1>3, <2>4, <4>1, <4>2
    <3> QED
      BY <3>1, <3>2
  <2>6. ASSUME NEW b \in DOMAIN connIdToUserId', connIdToUserId'[b] # NoUser
        PROVE  /\ connIdToUserId'[b] \in DOMAIN onlineUsers'
               /\ onlineUsers'[connIdToUserId'[b]].conn # NoConn
               /\ Address[onlineUsers'[connIdToUserId'[b]].conn] = b
    <3>1. CASE b = a
      BY <1>1, <2>1, <2>4, <3>1 DEF a
    <3>2. CASE b # a
      <4>1. b \in DOMAIN cleared /\ connIdToUserId'[b] = cleared[b]
        BY <2>4, <3>2
      <4>2. /\ b \in DOMAIN connIdToUserId /\ cleared[b] = connIdToUserId[b]
            /\ cleared[b] # u
        BY <2>2, <4>1
      <4>3. /\ connIdToUserId[b] \in DOMAIN onlineUsers
            /\ onlineUsers[connIdToUserId[b]].conn # NoConn
            /\ Address[onlineUsers[connIdToUserId[b]].conn] = b
        BY <2>6, <4>1, <4>2 DEF IndexInv, SessionsIndexed, Online
      <4> QED
        BY <2>4, <4>1, <4>2, <4>3
    <3> QED
      BY <3>1, <3>2
  <2> QED
    BY <1>3, <2>5, <2>6 DEF IndexInv, SessionsIndexed, SavedAsserts, Online
<1> QED
  BY <1>2, <1>3 DEF FindUserCallback

\* The session of a user who has left goes together with its mapping, which is
\* there.
LEMMA SavedIndexed ==
    ASSUME TypeOK, IndexInv, SaveUserInfoCallback
    PROVE  IndexInv'
<1> DEFINE u == Head(serverTasks).user
           session == IF Online(u) THEN onlineUsers[u] ELSE NoSession
           a == Address[session.conn]
<1>1. u \in Users /\ u # NoUser
  BY TakenTask, TaskFields, UsersAssumption DEF SaveUserInfoCallback
<1>2. CASE Fail("nullConn")
  BY <1>2, TablesKept DEF Fail
<1>3. CASE onlineUsers' = With(onlineUsers, u, session)
           /\ UNCHANGED <<connIdToUserId, failed>>
  <2>1. /\ DOMAIN onlineUsers' = DOMAIN onlineUsers \cup {u}
        /\ onlineUsers'[u] = session
        /\ \A v \in DOMAIN onlineUsers \ {u} : onlineUsers'[v] = onlineUsers[v]
    BY <1>3 DEF With
  <2>2. \A v \in DOMAIN onlineUsers : onlineUsers'[v] = onlineUsers[v]
    BY <2>1 DEF Online
  <2>3. u \notin DOMAIN onlineUsers => onlineUsers'[u].conn = NoConn
    BY <2>1 DEF Online, NoSession
  <2> HIDE DEF u, session
  <2> QED
    BY <1>3, <2>1, <2>2, <2>3 DEF IndexInv, SessionsIndexed, SavedAsserts, Online
<1>4. CASE session.disconnecting /\ session.conn # NoConn
  <2>1. /\ u \in DOMAIN onlineUsers /\ session = onlineUsers[u]
        /\ a \in DOMAIN connIdToUserId /\ connIdToUserId[a] = u
    BY <1>4 DEF Online, NoSession, IndexInv, SessionsIndexed
  <2>2. /\ onlineUsers' = Without(onlineUsers, u)
        /\ connIdToUserId' = Without(connIdToUserId, a)
        /\ UNCHANGED failed
    BY <1>4, <2>1 DEF SaveUserInfoCallback
  <2>3. \A b \in DOMAIN connIdToUserId \ {a} : connIdToUserId[b] # u
    BY <1>1, <2>1 DEF IndexInv, SessionsIndexed
  <2>4. \A v \in DOMAIN onlineUsers \ {u} :
           onlineUsers[v].conn # NoConn => Address[onlineUsers[v].conn] # a
    BY <2>1 DEF IndexInv, SessionsIndexed
  <2> HIDE DEF u, session, a
  <2>5. /\ DOMAIN onlineUsers' = DOMAIN onlineUsers \ {u}
        /\ \A v \in DOMAIN onlineUsers \ {u} : onlineUsers'[v] = onlineUsers[v]
        /\ DOMAIN connIdToUserId' = DOMAIN connIdToUserId \ {a}
        /\ \A b \in DOMAIN connIdToUserId \ {a} :
              connIdToUserId'[b] = connIdToUserId[b]
    BY <2>2, WithoutEntry
  <2> QED
    BY <2>2, <2>3, <2>4, <2>5 DEF IndexInv, SessionsIndexed, SavedAsserts, Online
<1> QED
  BY <1>2, <1>3, <1>4 DEF SaveUserInfoCallback

\* The tasks of the IO thread keep the tables each other's inverse.
LEMMA IOTaskIndexed ==
    ASSUME TypeOK, IndexInv, IOTask
    PROVE  IndexInv'
<1>1. ASSUME RoomsInfoBroadcast \/ JoinRoomRespond \/ Notify \/ ObjectsDataBroadcast
      PROVE  IndexInv'
  BY <1>1, TablesKept
     DEF RoomsInfoBroadcast, JoinRoomRespond, Notify, ObjectsDataBroadcast, Send, Fail
<1>2. ASSUME SaveOnlineUserInfo PROVE IndexInv'
  <2> DEFINE u == Head(serverTasks).user
             score == onlineUsers[u].score + Head(serverTasks).score
  <2>1. /\ UNCHANGED <<connIdToUserId, failed>>
        /\ \/ onlineUsers' = [onlineUsers EXCEPT ![u].score = score]
           \/ UNCHANGED onlineUsers
    BY <1>2 DEF SaveOnlineUserInfo
  <2>2. \A v \in DOMAIN onlineUsers : onlineUsers[v] \in Session
    BY DEF TypeOK
  <2> HIDE DEF u, score
  <2>3. /\ DOMAIN onlineUsers' = DOMAIN onlineUsers
        /\ \A v \in DOMAIN onlineUsers : onlineUsers'[v].conn = onlineUsers[v].conn
    BY <2>1, <2>2 DEF Session
  <2> QED
    BY <2>1, <2>3 DEF IndexInv, SessionsIndexed, SavedAsserts, Online
<1> QED
  BY <1>1, <1>2, LoginIndexed, SavedIndexed DEF IOTask

\* Every step keeps the tables each other's inverse.
LEMMA NextIndexed ==
    ASSUME TypeOK, IndexInv, [Next]_sessionVars
    PROVE  IndexInv'
<1>1. CASE UNCHANGED sessionVars
  BY <1>1, TablesKept DEF sessionVars, serverVars
<1> QED
  BY <1>1, MessagesIndexed, OthersIndexed, IOTaskIndexed DEF Next

LEMMA IndexInvariance == Spec => [](TypeOK /\ IndexInv)
<1>1. Init => IndexInv
  BY DEF Init, ServerInit, IndexInv, SessionsIndexed, SavedAsserts
<1> QED
  BY <1>1, InitType, NextType, NextIndexed, PTL DEF Spec

\* The tables onlineUsers_ and connIdToUserId_ are each other's inverse.
THEOREM TablesInverse == Spec => []SessionsIndexed
<1>1. IndexInv => SessionsIndexed
  BY DEF IndexInv
<1> QED
  BY <1>1, IndexInvariance, PTL

\* The assertion after the last save of a user who has left always holds.
THEOREM NoSaveAborts == Spec => []SavedAsserts
<1>1. IndexInv => SavedAsserts
  BY DEF IndexInv
<1> QED
  BY <1>1, IndexInvariance, PTL

----------------------------------------------------------------------------
(***************************************************************************)
(* Points.  A score that has been read from the database may be a session's*)
(* while saves of that user still wait for the IO thread, each of which    *)
(* adds its points to the session.  So NoInventedPoints is not inductive:  *)
(* wherever a score of a user is kept, it has to stay within the points    *)
(* earned by as much as the waiting saves may still add.  That sum is      *)
(* given here by a table `rest` of what is owed from each place in the     *)
(* queue on, which needs no recursion over the queue.                      *)
(***************************************************************************)

\* What task adds to the session of u.
PointsOwed(u, task) ==
    IF task.type = "Save" /\ task.user = u THEN task.score ELSE 0

OwedBy(u, queue, rest) ==
    /\ rest \in [1..(Len(queue) + 1) -> Nat]
    /\ \A i \in 1..Len(queue) : rest[i] >= rest[i + 1] + PointsOwed(u, queue[i])

\* Every place where a score of u is kept leaves room for n more points: the
\* database and the session, the jobs, and the tasks that bring it from a login.
TablesLeaveRoom(u, n) ==
    /\ n <= earned[u]
    /\ db[u] + n <= earned[u]
    /\ Online(u) => onlineUsers[u].score + n <= earned[u]

JobsLeaveRoom(u, n) ==
    \A i \in 1..Len(jobs) :
        jobs[i].op \in {"Found", "Update"} /\ jobs[i].user = u
            => jobs[i].score + n <= earned[u]

TasksLeaveRoom(u, n) ==
    \A i \in 1..Len(serverTasks) :
        serverTasks[i].type = "LoggedIn" /\ serverTasks[i].user = u
            => serverTasks[i].score + n <= earned[u]

LeavesRoom(u, n) ==
    TablesLeaveRoom(u, n) /\ JobsLeaveRoom(u, n) /\ TasksLeaveRoom(u, n)

PointsInv ==
    \A u \in Users :
        \E rest : OwedBy(u, serverTasks, rest) /\ LeavesRoom(u, rest[1])

\* A task owes a natural number of points.
LEMMA PointsOwedType ==
    ASSUME NEW u, NEW task \in ServerTask
    PROVE  /\ PointsOwed(u, task) \in Nat
           /\ task.type # "Save" => PointsOwed(u, task) = 0
BY TaskFields DEF PointsOwed

\* Of a queue whose head is taken, the head's points are owed no more.
LEMMA OwedOfTail ==
    ASSUME NEW u, NEW queue \in Seq(ServerTask), queue # <<>>, NEW rest,
           OwedBy(u, queue, rest)
    PROVE  \E less : /\ OwedBy(u, Tail(queue), less)
                     /\ less[1] + PointsOwed(u, Head(queue)) <= rest[1]
<1> DEFINE n == Len(queue)
           less == [i \in 1..n |-> rest[i + 1]]
<1>1. /\ n \in Nat \ {0} /\ Head(queue) = queue[1]
      /\ Len(Tail(queue)) = n - 1
      /\ \A i \in 1..(n - 1) : Tail(queue)[i] = queue[i + 1]
  BY HeadTailProperties, EmptySeq
<1>2. /\ rest \in [1..(n + 1) -> Nat]
      /\ \A i \in 1..n : rest[i] >= rest[i + 1] + PointsOwed(u, queue[i])
  BY DEF OwedBy
<1> HIDE DEF n
<1>3. less \in [1..(n - 1 + 1) -> Nat]
  BY <1>1, <1>2
<1>4. ASSUME NEW i \in 1..(n - 1)
      PROVE  less[i] >= less[i + 1] + PointsOwed(u, Tail(queue)[i])
  <2>1. i + 1 \in 1..n /\ i \in 1..n /\ Tail(queue)[i] = queue[i + 1]
    BY <1>1
  <2>2. less[i] = rest[i + 1] /\ less[i + 1] = rest[(i + 1) + 1]
    BY <2>1
  <2> HIDE DEF less
  <2> QED
    BY <1>2, <2>1, <2>2
<1>5. less[1] + PointsOwed(u, Head(queue)) <= rest[1]
  <2>1. less[1] = rest[2] /\ 1 \in 1..n /\ 2 \in 1..(n + 1) /\ 1 \in 1..(n + 1)
    BY <1>1
  <2>2. rest[1] >= rest[1 + 1] + PointsOwed(u, queue[1])
    BY <1>2, <2>1
  <2>3. rest[1] \in Nat /\ rest[2] \in Nat /\ PointsOwed(u, queue[1]) \in Nat
    BY <1>2, <2>1, PointsOwedType, ElementOfSeq DEF n
  <2> HIDE DEF less
  <2> QED
    BY <1>1, <2>1, <2>2, <2>3
<1> HIDE DEF less
<1>6. OwedBy(u, Tail(queue), less)
  BY <1>1, <1>3, <1>4 DEF OwedBy
<1> QED
  BY <1>5, <1>6

\* A task at the end of a queue is owed from every place on.
LEMMA OwedOfAppend ==
    ASSUME NEW u, NEW queue \in Seq(ServerTask), NEW task \in ServerTask, NEW rest,
           OwedBy(u, queue, rest)
    PROVE  \E more : /\ OwedBy(u, Append(queue, task), more)
                     /\ more[1] = rest[1] + PointsOwed(u, task)
<1> DEFINE n == Len(queue)
           p == PointsOwed(u, task)
           longer == Append(queue, task)
           more == [i \in 1..(n + 2) |-> IF i = n + 2 THEN 0 ELSE rest[i] + p]
<1>1. /\ n \in Nat /\ Len(longer) = n + 1
      /\ longer[n + 1] = task
      /\ \A i \in 1..n : longer[i] = queue[i]
  OBVIOUS
<1>2. /\ rest \in [1..(n + 1) -> Nat]
      /\ \A i \in 1..n : rest[i] >= rest[i + 1] + PointsOwed(u, queue[i])
  BY DEF OwedBy
<1>3. p \in Nat
  BY PointsOwedType
<1>4. \A i \in 1..n : PointsOwed(u, queue[i]) \in Nat
  BY PointsOwedType, ElementOfSeq
<1> HIDE DEF n, longer
<1>5. PointsOwed(u, longer[n + 1]) = p
  BY <1>1
<1> HIDE DEF p
<1>6. more \in [1..(n + 1 + 1) -> Nat]
  BY <1>1, <1>2, <1>3
<1>7. ASSUME NEW i \in 1..(n + 1)
      PROVE  more[i] >= more[i + 1] + PointsOwed(u, longer[i])
  <2>1. CASE i = n + 1
    <3>1. more[i] = rest[n + 1] + p /\ more[i + 1] = 0 /\ rest[n + 1] \in Nat
      BY <1>1, <1>2, <2>1
    <3> QED
      BY <1>3, <1>5, <2>1, <3>1
  <2>2. CASE i # n + 1
    <3>1. i \in 1..n /\ i + 1 \in 1..(n + 1) /\ longer[i] = queue[i]
      BY <1>1, <2>2
    <3>2. more[i] = rest[i] + p /\ more[i + 1] = rest[i + 1] + p
      BY <1>1, <3>1
    <3>3. rest[i] >= rest[i + 1] + PointsOwed(u, queue[i])
      BY <1>2, <3>1
    <3>4. rest[i] \in Nat /\ rest[i + 1] \in Nat /\ PointsOwed(u, queue[i]) \in Nat
      BY <1>2, <1>4, <3>1
    <3> HIDE DEF more
    <3> QED
      BY <1>3, <3>1, <3>2, <3>3, <3>4
  <2> QED
    BY <2>1, <2>2
<1>8. more[1] = rest[1] + p
  BY <1>1
<1> HIDE DEF more
<1>9. OwedBy(u, longer, more)
  BY <1>1, <1>6, <1>7 DEF OwedBy
<1> QED
  BY <1>8, <1>9 DEF longer, p

\* Where there is room for n points there is room for fewer.
LEMMA LessRoom ==
    ASSUME TypeOK, NEW u \in Users, NEW n \in Nat, NEW m \in Nat, m <= n,
           LeavesRoom(u, n)
    PROVE  LeavesRoom(u, m)
<1>1. /\ earned[u] \in Nat /\ db[u] \in Int
      /\ Online(u) => onlineUsers[u].score \in Nat
  BY DEF TypeOK, UserIds, NoRow, Session, Online
<1>2. \A i \in 1..Len(jobs) :
         jobs[i].op \in {"Found", "Update"} => jobs[i].score \in Nat
  BY TaskFields, ElementOfSeq DEF TypeOK
<1>3. \A i \in 1..Len(serverTasks) :
         serverTasks[i].type = "LoggedIn" => serverTasks[i].score \in Nat
  BY TaskFields, ElementOfSeq DEF TypeOK
<1>4. TablesLeaveRoom(u, m)
  <2>1. m <= earned[u] /\ db[u] + m <= earned[u]
    BY <1>1 DEF LeavesRoom, TablesLeaveRoom
  <2>2. ASSUME Online(u)
        PROVE  onlineUsers[u].score + m <= earned[u]
    BY <1>1, <2>2 DEF LeavesRoom, TablesLeaveRoom
  <2> QED
    BY <2>1, <2>2 DEF TablesLeaveRoom
<1>5. JobsLeaveRoom(u, m)
  BY <1>1, <1>2 DEF LeavesRoom, JobsLeaveRoom
<1>6. TasksLeaveRoom(u, m)
  BY <1>1, <1>3 DEF LeavesRoom, TasksLeaveRoom
<1> QED
  BY <1>4, <1>5, <1>6, Zenon DEF LeavesRoom

\* A step that posts and takes no task.
LEMMA SameQueue ==
    ASSUME PointsInv, UNCHANGED serverTasks,
           \A u \in Users : \A n \in Nat : LeavesRoom(u, n) => LeavesRoom(u, n)'
    PROVE  PointsInv'
<1> SUFFICES ASSUME NEW u \in Users
             PROVE  \E rest : OwedBy(u, serverTasks, rest)' /\ LeavesRoom(u, rest[1])'
  BY DEF PointsInv
<1>1. PICK rest : OwedBy(u, serverTasks, rest) /\ LeavesRoom(u, rest[1])
  BY DEF PointsInv
<1>2. OwedBy(u, serverTasks, rest)'
  BY <1>1 DEF OwedBy
<1>3. rest[1] \in Nat
  BY <1>1 DEF OwedBy
<1> QED
  BY <1>1, <1>2, <1>3

\* A step that takes a task pays what the task owes.
LEMMA TaskPaid ==
    ASSUME TypeOK, PointsInv, serverTasks # <<>>, serverTasks' = Tail(serverTasks),
           TypeOK',
           \A u \in Users : \A n \in Nat :
              LeavesRoom(u, n + PointsOwed(u, Head(serverTasks))) => LeavesRoom(u, n)'
    PROVE  PointsInv'
<1> SUFFICES ASSUME NEW u \in Users
             PROVE  \E rest : OwedBy(u, serverTasks', rest) /\ LeavesRoom(u, rest[1])'
  BY DEF PointsInv, OwedBy
<1> DEFINE p == PointsOwed(u, Head(serverTasks))
<1>1. PICK rest : OwedBy(u, serverTasks, rest) /\ LeavesRoom(u, rest[1])
  BY DEF PointsInv
<1>2. serverTasks \in Seq(ServerTask) /\ Head(serverTasks) \in ServerTask
      /\ Tail(serverTasks) \in Seq(ServerTask)
  BY HeadTailProperties DEF TypeOK
<1>3. PICK less : OwedBy(u, Tail(serverTasks), less) /\ less[1] + p <= rest[1]
  BY <1>1, <1>2, OwedOfTail
<1>4. p \in Nat /\ rest[1] \in Nat /\ less[1] \in Nat
  <2>1. Len(serverTasks) \in Nat /\ Len(Tail(serverTasks)) \in Nat
    BY <1>2
  <2>2. 1 \in 1..(Len(serverTasks) + 1) /\ 1 \in 1..(Len(Tail(serverTasks)) + 1)
    BY <2>1
  <2> QED
    BY <1>1, <1>2, <1>3, <2>2, PointsOwedType DEF OwedBy
<1> HIDE DEF p
<1>5. LeavesRoom(u, less[1] + p)
  <2>1. less[1] + p \in Nat
    BY <1>4
  <2> QED
    BY <1>1, <1>3, <1>4, <2>1, LessRoom
<1>6. LeavesRoom(u, less[1])'
  BY <1>4, <1>5 DEF p
<1> QED
  BY <1>3, <1>6

\* A step that posts a task leaves room for what it owes.
LEMMA TaskPosted ==
    ASSUME TypeOK, PointsInv, NEW task \in ServerTask,
           serverTasks' = Append(serverTasks, task),
           \A u \in Users : \A n \in Nat :
              LeavesRoom(u, n) => LeavesRoom(u, n + PointsOwed(u, task))'
    PROVE  PointsInv'
<1> SUFFICES ASSUME NEW u \in Users
             PROVE  \E rest : OwedBy(u, serverTasks', rest) /\ LeavesRoom(u, rest[1])'
  BY DEF PointsInv, OwedBy
<1>1. PICK rest : OwedBy(u, serverTasks, rest) /\ LeavesRoom(u, rest[1])
  BY DEF PointsInv
<1>2. serverTasks \in Seq(ServerTask)
  BY DEF TypeOK
<1>3. PICK more : /\ OwedBy(u, Append(serverTasks, task), more)
                  /\ more[1] = rest[1] + PointsOwed(u, task)
  BY <1>1, <1>2, OwedOfAppend
<1>4. rest[1] \in Nat
  <2>1. 1 \in 1..(Len(serverTasks) + 1)
    BY <1>2
  <2> QED
    BY <1>1, <2>1 DEF OwedBy
<1>5. LeavesRoom(u, rest[1] + PointsOwed(u, task))'
  BY <1>1, <1>4
<1> QED
  BY <1>3, <1>5

\* A step that posts a task, and then one that owes nothing.
LEMMA TwoPosted ==
    ASSUME TypeOK, PointsInv, NEW task \in ServerTask, NEW next \in ServerTask,
           next.type # "Save",
           serverTasks' = serverTasks \o <<task, next>>,
           \A u \in Users : \A n \in Nat :
              LeavesRoom(u, n) => LeavesRoom(u, n + PointsOwed(u, task))'
    PROVE  PointsInv'
<1> SUFFICES ASSUME NEW u \in Users
             PROVE  \E rest : OwedBy(u, serverTasks', rest) /\ LeavesRoom(u, rest[1])'
  BY DEF PointsInv, OwedBy
<1>1. PICK rest : OwedBy(u, serverTasks, rest) /\ LeavesRoom(u, rest[1])
  BY DEF PointsInv
<1>2. /\ serverTasks \in Seq(ServerTask)
      /\ Append(serverTasks, task) \in Seq(ServerTask)
  BY AppendTasks DEF TypeOK
<1>3. serverTasks' = Append(Append(serverTasks, task), next)
  BY <1>2
<1>4. PICK more : /\ OwedBy(u, Append(serverTasks, task), more)
                  /\ more[1] = rest[1] + PointsOwed(u, task)
  BY <1>1, <1>2, OwedOfAppend
<1>5. PICK most : /\ OwedBy(u, Append(Append(serverTasks, task), next), most)
                  /\ most[1] = more[1] + PointsOwed(u, next)
  BY <1>2, <1>4, OwedOfAppend
<1>6. rest[1] \in Nat /\ PointsOwed(u, task) \in Nat /\ PointsOwed(u, next) = 0
  <2>1. 1 \in 1..(Len(serverTasks) + 1)
    BY <1>2
  <2> QED
    BY <1>1, <2>1, PointsOwedType DEF OwedBy
<1>7. most[1] = rest[1] + PointsOwed(u, task)
  BY <1>4, <1>5, <1>6
<1>8. LeavesRoom(u, rest[1] + PointsOwed(u, task))'
  BY <1>1, <1>6
<1> QED
  BY <1>3, <1>5, <1>7, <1>8

\* What a queue brings from logins is brought by its tail as well.
LEMMA TailLeavesRoom ==
    ASSUME TypeOK, NEW u, NEW n, TasksLeaveRoom(u, n), UNCHANGED earned,
           serverTasks # <<>>, serverTasks' = Tail(serverTasks)
    PROVE  TasksLeaveRoom(u, n)'
<1>1. /\ serverTasks \in Seq(ServerTask) /\ Len(serverTasks) \in Nat \ {0}
      /\ Len(serverTasks') = Len(serverTasks) - 1
      /\ \A i \in 1..Len(serverTasks') : serverTasks'[i] = serverTasks[i + 1]
  BY HeadTailProperties, EmptySeq DEF TypeOK
<1>2. \A i \in 1..Len(serverTasks') : i + 1 \in 1..Len(serverTasks)
  BY <1>1
<1> QED
  BY <1>1, <1>2 DEF TasksLeaveRoom

\* A job among others leaves the room it has to.
LEMMA JobsKeepRoom ==
    ASSUME TypeOK, NEW u, NEW n, JobsLeaveRoom(u, n), UNCHANGED earned, NEW job \in Job,
           job.op \in {"Found", "Update"} /\ job.user = u => job.score + n <= earned[u],
           \/ \E i \in 1..Len(jobs) : jobs' = [jobs EXCEPT ![i] = job]
           \/ jobs' = Append(jobs, job)
           \/ \E i \in 1..Len(jobs) : jobs' = RemoveAt(jobs, i)
    PROVE  JobsLeaveRoom(u, n)'
<1>0. jobs \in Seq(Job) /\ Len(jobs) \in Nat
  BY DEF TypeOK
<1>1. ASSUME NEW i \in 1..Len(jobs), jobs' = [jobs EXCEPT ![i] = job]
      PROVE  JobsLeaveRoom(u, n)'
  <2>1. /\ Len(jobs') = Len(jobs)
        /\ \A j \in 1..Len(jobs) : jobs'[j] = IF j = i THEN job ELSE jobs[j]
    BY <1>0, <1>1, ExceptSeq
  <2> QED
    BY <2>1 DEF JobsLeaveRoom
<1>2. CASE jobs' = Append(jobs, job)
  <2>1. /\ Len(jobs') = Len(jobs) + 1
        /\ \A j \in 1..(Len(jobs) + 1) :
              jobs'[j] = IF j = Len(jobs) + 1 THEN job ELSE jobs[j]
    BY <1>0, <1>2
  <2> QED
    BY <1>0, <2>1 DEF JobsLeaveRoom
<1>3. ASSUME NEW i \in 1..Len(jobs), jobs' = RemoveAt(jobs, i)
      PROVE  JobsLeaveRoom(u, n)'
  <2>1. /\ Len(jobs') = Len(jobs) - 1
        /\ \A j \in 1..(Len(jobs) - 1) :
              jobs'[j] = IF j < i THEN jobs[j] ELSE jobs[j + 1]
    BY <1>0, <1>3, RemoveAtType
  <2>2. ASSUME NEW j \in 1..Len(jobs')
        PROVE  \E k \in 1..Len(jobs) : jobs'[j] = jobs[k]
    <3>1. j \in 1..Len(jobs) /\ j + 1 \in 1..Len(jobs)
      BY <1>0, <2>1
    <3> QED
      BY <2>1, <3>1
  <2> QED
    BY <2>2 DEF JobsLeaveRoom
<1> QED
  BY <1>1, <1>2, <1>3

\* Connections and their messages bring in no points.
LEMMA MessagesPoints ==
    ASSUME TypeOK, PointsInv, NEW c \in Conns, Messages(c), UNCHANGED <<inRoom, earned>>
    PROVE  PointsInv'
<1>1. UNCHANGED <<db, serverTasks, earned>>
  BY DEF Messages, Connect, HandleDisconnection, OnLogin, OnCreateRoom, OnJoinRoom,
         OnQuitRoom, OnControlMessage, serverVars
<1>2. /\ DOMAIN onlineUsers' = DOMAIN onlineUsers
      /\ \A u \in DOMAIN onlineUsers : onlineUsers'[u].score = onlineUsers[u].score
  <2>1. \A u \in DOMAIN onlineUsers : onlineUsers[u] \in Session
    BY DEF TypeOK
  <2>2. CASE HandleDisconnection(c)
    <3> DEFINE u == UserAt(Address[c])
    <3>1. \/ onlineUsers' = [onlineUsers EXCEPT ![u].disconnecting = TRUE]
          \/ UNCHANGED onlineUsers
      BY <2>2 DEF HandleDisconnection
    <3> HIDE DEF u
    <3> QED
      BY <2>1, <3>1 DEF Session
  <2>3. CASE UNCHANGED onlineUsers
    BY <2>3
  <2> QED
    BY <2>2, <2>3
       DEF Messages, Connect, OnLogin, OnCreateRoom, OnJoinRoom, OnQuitRoom,
           OnControlMessage, serverVars
<1>3. \/ UNCHANGED jobs
      \/ \E u \in Users : jobs' = Append(jobs, [op |-> "Find", conn |-> c, user |-> u])
  BY DEF Messages, Connect, HandleDisconnection, OnLogin, OnCreateRoom, OnJoinRoom,
         OnQuitRoom, OnControlMessage, serverVars
<1>4. ASSUME NEW u \in Users, NEW n \in Nat, LeavesRoom(u, n) PROVE LeavesRoom(u, n)'
  <2>1. JobsLeaveRoom(u, n)'
    <3>1. CASE UNCHANGED jobs
      BY <1>1, <1>4, <3>1 DEF LeavesRoom, JobsLeaveRoom
    <3>2. ASSUME NEW v \in Users,
                 jobs' = Append(jobs, [op |-> "Find", conn |-> c, user |-> v])
          PROVE  JobsLeaveRoom(u, n)'
      <4>1. [op |-> "Find", conn |-> c, user |-> v] \in Job
        BY DEF Job
      <4> QED
        BY <1>1, <1>4, <3>2, <4>1, JobsKeepRoom DEF LeavesRoom
    <3> QED
      BY <1>3, <3>1, <3>2
  <2> QED
    BY <1>1, <1>2, <1>4, <2>1 DEF LeavesRoom, TablesLeaveRoom, TasksLeaveRoom, Online
<1> QED
  BY <1>1, <1>4, SameQueue

\* The pool moves scores between the database and the jobs.
LEMMA PoolThreadPoints ==
    ASSUME TypeOK, PointsInv, NEW i \in 1..Workers, PoolThread(i),
           UNCHANGED <<inRoom, earned>>
    PROVE  PointsInv'
<1> DEFINE v == jobs[i].user
<1>0. /\ i \in 1..Len(jobs) /\ jobs[i] \in Job
      /\ v \in Users
      /\ jobs[i].op \in {"Find", "Create", "Found"} => jobs[i].conn \in Conns
      /\ jobs[i].op \in {"Found", "Update"} => jobs[i].score \in Nat
      /\ UNCHANGED <<onlineUsers, earned>>
      /\ db \in [Users -> Nat \cup {NoRow}]
  BY WorkingJob, TaskFields
     DEF PoolThread, FindUser, CreateUser, SaveUserInfoToDB, Callback, TypeOK
<1>1. ASSUME FindUser(i) PROVE PointsInv'
  <2> DEFINE job == IF db[v] = NoRow
                    THEN [op |-> "Create", conn |-> jobs[i].conn, user |-> v]
                    ELSE [op |-> "Found", conn |-> jobs[i].conn, user |-> v,
                          score |-> db[v]]
  <2>1. UNCHANGED <<serverTasks, db>> /\ jobs' = [jobs EXCEPT ![i] = job]
    BY <1>1 DEF FindUser
  <2>2. job \in Job
    <3>1. jobs[i].conn \in Conns /\ db[v] \in Nat \cup {NoRow}
      BY <1>0, <1>1 DEF FindUser
    <3> QED
      BY <1>0, <3>1 DEF Job
  <2>3. job.op \in {"Found", "Update"} => job.user = v /\ job.score = db[v]
    OBVIOUS
  <2> HIDE DEF job
  <2>4. ASSUME NEW u \in Users, NEW n \in Nat, LeavesRoom(u, n)
        PROVE  LeavesRoom(u, n)'
    <3>1. job.op \in {"Found", "Update"} /\ job.user = u => job.score + n <= earned[u]
      BY <2>3, <2>4 DEF LeavesRoom, TablesLeaveRoom
    <3>2. JobsLeaveRoom(u, n)'
      BY <1>0, <2>1, <2>2, <2>4, <3>1, JobsKeepRoom DEF LeavesRoom
    <3> QED
      BY <1>0, <2>1, <2>4, <3>2 DEF LeavesRoom, TablesLeaveRoom, TasksLeaveRoom, Online
  <2> QED
    BY <2>1, <2>4, SameQueue
<1>2. ASSUME CreateUser(i) PROVE PointsInv'
  <2> DEFINE job == [op |-> "Found", conn |-> jobs[i].conn, user |-> v, score |-> 0]
  <2>1. /\ UNCHANGED serverTasks /\ jobs' = [jobs EXCEPT ![i] = job]
        /\ db' = [db EXCEPT ![v] = IF @ = NoRow THEN 0 ELSE @]
    BY <1>2 DEF CreateUser
  <2>2. job \in Job
    BY <1>0, <1>2 DEF CreateUser, Job
  <2>3. job.score = 0
    OBVIOUS
  <2> HIDE DEF job
  <2>4. ASSUME NEW u \in Users, NEW n \in Nat, LeavesRoom(u, n)
        PROVE  LeavesRoom(u, n)'
    <3>1. n <= earned[u] /\ db[u] + n <= earned[u] /\ earned[u] \in Nat
      BY <2>4 DEF LeavesRoom, TablesLeaveRoom, TypeOK, UserIds
    <3>2. JobsLeaveRoom(u, n)'
      <4>1. job.score + n <= earned[u]
        BY <2>3, <3>1
      <4> QED
        BY <1>0, <2>1, <2>2, <2>4, <4>1, JobsKeepRoom DEF LeavesRoom
    <3>3. db'[u] + n <= earned[u]
      BY <1>0, <2>1, <3>1
    <3> QED
      BY <1>0, <2>1, <2>4, <3>2, <3>3
         DEF LeavesRoom, TablesLeaveRoom, TasksLeaveRoom, Online
  <2> QED
    BY <2>1, <2>4, SameQueue
<1>3. ASSUME SaveUserInfoToDB(i) PROVE PointsInv'
  <2> DEFINE job == [op |-> "Updated", user |-> v]
  <2>1. /\ UNCHANGED serverTasks /\ jobs' = [jobs EXCEPT ![i] = job]
        /\ db' = [db EXCEPT ![v] = jobs[i].score]
        /\ jobs[i].op = "Update"
    BY <1>3 DEF SaveUserInfoToDB, Working
  <2>2. job \in Job /\ job.op \notin {"Found", "Update"}
    BY <1>0 DEF Job
  <2> HIDE DEF job
  <2>4. ASSUME NEW u \in Users, NEW n \in Nat, LeavesRoom(u, n)
        PROVE  LeavesRoom(u, n)'
    <3>2. JobsLeaveRoom(u, n)'
      BY <1>0, <2>1, <2>2, <2>4, JobsKeepRoom DEF LeavesRoom
    <3>3. db'[u] + n <= earned[u]
      <4>1. CASE u = v
        <5>1. db'[u] = jobs[i].score
          BY <1>0, <2>1, <4>1
        <5>2. jobs[i].score + n <= earned[u]
          BY <1>0, <2>1, <2>4, <4>1 DEF LeavesRoom, JobsLeaveRoom
        <5> QED
          BY <5>1, <5>2
      <4>2. CASE u # v
        BY <1>0, <2>1, <2>4, <4>2 DEF LeavesRoom, TablesLeaveRoom
      <4> QED
        BY <4>1, <4>2
    <3> QED
      BY <1>0, <2>1, <2>4, <3>2, <3>3
         DEF LeavesRoom, TablesLeaveRoom, TasksLeaveRoom, Online
  <2> QED
    BY <2>1, <2>4, SameQueue
<1>4. ASSUME Callback(i) PROVE PointsInv'
  <2> DEFINE posted == IF jobs[i].op = "Found"
                       THEN [type |-> "LoggedIn", conn |-> jobs[i].conn, user |-> v,
                             score |-> jobs[i].score]
                       ELSE [type |-> "Saved", user |-> v]
  <2>0. posted \in ServerTask
    BY <1>0 DEF ServerTask
  <2>2. PICK task \in ServerTask : task = posted
    BY <2>0
  <2>1. /\ serverTasks' = Append(serverTasks, task)
        /\ jobs' = RemoveAt(jobs, i) /\ UNCHANGED db
    BY <1>4, <2>2 DEF Callback
  <2>3. /\ task.type # "Save"
        /\ task.type = "LoggedIn" =>
              jobs[i].op = "Found" /\ task.user = v /\ task.score = jobs[i].score
    BY <2>2
  <2> HIDE DEF posted
  <2>4. ASSUME NEW u \in Users, NEW n \in Nat, LeavesRoom(u, n)
        PROVE  LeavesRoom(u, n + PointsOwed(u, task))'
    <3>1. n + PointsOwed(u, task) = n
      BY <2>2, <2>3, PointsOwedType
    <3>2. JobsLeaveRoom(u, n)'
      <4>1. [op |-> "Updated", user |-> v] \in Job
        BY <1>0 DEF Job
      <4> QED
        BY <1>0, <2>1, <2>4, <4>1, JobsKeepRoom DEF LeavesRoom
    <3>3. TasksLeaveRoom(u, n)'
      <4>1. task.type = "LoggedIn" /\ task.user = u => task.score + n <= earned[u]
        BY <1>0, <2>3, <2>4 DEF LeavesRoom, JobsLeaveRoom
      <4>2. /\ Len(serverTasks) \in Nat /\ Len(serverTasks') = Len(serverTasks) + 1
            /\ \A j \in 1..(Len(serverTasks) + 1) : serverTasks'[j] =
                  IF j = Len(serverTasks) + 1 THEN task ELSE serverTasks[j]
        BY <2>1 DEF TypeOK
      <4> QED
        BY <1>0, <2>4, <4>1, <4>2 DEF LeavesRoom, TasksLeaveRoom
    <3>4. LeavesRoom(u, n)'
      BY <1>0, <2>1, <2>4, <3>2, <3>3 DEF LeavesRoom, TablesLeaveRoom, Online
    <3> QED
      BY <3>1, <3>4
  <2> QED
    BY <2>1, <2>2, <2>4, TaskPosted
<1> QED
  BY <1>1, <1>2, <1>3, <1>4 DEF PoolThread

\* A task of the IO thread that adds no points, and leaves every session with
\* points for which there was room.
LEMMA TaskWithoutPoints ==
    ASSUME TypeOK, TypeOK', PointsInv, NEW types, TakeTask(types), "Save" \notin types,
           UNCHANGED <<earned, jobs>>,
           \A u \in Users \cap DOMAIN onlineUsers' :
              \/ onlineUsers'[u].score = 0
              \/ Online(u) /\ onlineUsers'[u].score = onlineUsers[u].score
              \/ /\ Head(serverTasks).type = "LoggedIn" /\ Head(serverTasks).user = u
                 /\ onlineUsers'[u].score = Head(serverTasks).score
    PROVE  PointsInv'
<1>1. /\ Head(serverTasks) \in ServerTask /\ Head(serverTasks).type # "Save"
      /\ serverTasks # <<>> /\ serverTasks' = Tail(serverTasks)
      /\ UNCHANGED db
      /\ Len(serverTasks) \in Nat \ {0} /\ Head(serverTasks) = serverTasks[1]
  BY TakenTask, EmptySeq DEF TakeTask
<1>2. ASSUME NEW u \in Users, NEW n \in Nat,
             LeavesRoom(u, n + PointsOwed(u, Head(serverTasks)))
      PROVE  LeavesRoom(u, n)'
  <2>1. LeavesRoom(u, n)
    <3>1. n + PointsOwed(u, Head(serverTasks)) = n
      BY <1>1, PointsOwedType
    <3> QED
      BY <1>2, <3>1
  <2>2. TasksLeaveRoom(u, n)'
    BY <1>1, <2>1, TailLeavesRoom DEF LeavesRoom
  <2>3. JobsLeaveRoom(u, n)'
    BY <2>1 DEF LeavesRoom, JobsLeaveRoom
  <2>4. /\ n <= earned[u] /\ db[u] + n <= earned[u]
        /\ Online(u) => onlineUsers[u].score + n <= earned[u]
        /\ Head(serverTasks).type = "LoggedIn" /\ Head(serverTasks).user = u
              => Head(serverTasks).score + n <= earned[u]
    <3>1. 1 \in 1..Len(serverTasks)
      BY <1>1
    <3> QED
      BY <1>1, <2>1, <3>1 DEF LeavesRoom, TablesLeaveRoom, TasksLeaveRoom
  <2>5. u \in DOMAIN onlineUsers' => onlineUsers'[u].score + n <= earned[u]
    BY <2>4
  <2> QED
    BY <1>1, <2>2, <2>3, <2>4, <2>5 DEF LeavesRoom, TablesLeaveRoom, Online
<1> QED
  BY <1>1, <1>2, TaskPaid

\* A save adds the points it owes to the session, if there is one.
LEMMA SavePoints ==
    ASSUME TypeOK, TypeOK', PointsInv, SaveOnlineUserInfo, UNCHANGED earned
    PROVE  PointsInv'
<1> DEFINE v == Head(serverTasks).user
           p == Head(serverTasks).score
           job == [op |-> "Update", user |-> v, score |-> onlineUsers[v].score + p]
<1>1. /\ Head(serverTasks) \in ServerTask /\ Head(serverTasks).type = "Save"
      /\ serverTasks # <<>> /\ serverTasks' = Tail(serverTasks)
      /\ UNCHANGED db /\ p \in Nat
  BY TakenTask, TaskFields DEF SaveOnlineUserInfo, TakeTask
<1>2. \/ ~Online(v) /\ UNCHANGED <<onlineUsers, jobs>>
      \/ /\ Online(v)
         /\ onlineUsers' = [onlineUsers EXCEPT ![v].score = onlineUsers[v].score + p]
         /\ jobs' = Append(jobs, job)
  BY DEF SaveOnlineUserInfo, Saves
<1>3. Online(v) => v \in Users /\ onlineUsers[v].score \in Nat
  BY DEF Online, TypeOK, Session
<1>4. ASSUME NEW u \in Users, NEW n \in Nat,
             LeavesRoom(u, n + PointsOwed(u, Head(serverTasks)))
      PROVE  LeavesRoom(u, n)'
  <2>1. PointsOwed(u, Head(serverTasks)) = IF u = v THEN p ELSE 0
    BY <1>1 DEF PointsOwed
  <2>2. LeavesRoom(u, n)
    <3>1. /\ n + PointsOwed(u, Head(serverTasks)) \in Nat
          /\ n <= n + PointsOwed(u, Head(serverTasks))
      BY <1>1, <2>1
    <3> QED
      BY <1>4, <3>1, LessRoom
  <2>3. TasksLeaveRoom(u, n)'
    BY <1>1, <2>2, TailLeavesRoom DEF LeavesRoom
  <2>4. CASE ~Online(v)
    BY <1>1, <1>2, <2>2, <2>3, <2>4
       DEF LeavesRoom, TablesLeaveRoom, JobsLeaveRoom, Online
  <2>5. CASE Online(v)
    <3>0. /\ onlineUsers' = [onlineUsers EXCEPT ![v].score = onlineUsers[v].score + p]
          /\ jobs' = Append(jobs, job)
      BY <1>2, <2>5
    <3>1. job \in Job
      BY <1>1, <1>3, <2>5 DEF Job
    <3>2. u = v => onlineUsers[v].score + (n + p) <= earned[v]
      BY <1>4, <2>1, <2>5 DEF LeavesRoom, TablesLeaveRoom
    <3>3. u = v => (onlineUsers[v].score + p) + n <= earned[v]
      <4>1. earned[u] \in Nat
        BY DEF TypeOK, UserIds
      <4> QED
        BY <1>1, <1>3, <2>5, <3>2, <4>1
    <3>4. job.user = u => job.score + n <= earned[u]
      BY <3>3
    <3> HIDE DEF job
    <3>5. JobsLeaveRoom(u, n)'
      BY <2>2, <3>0, <3>1, <3>4, JobsKeepRoom DEF LeavesRoom
    <3>6. /\ DOMAIN onlineUsers' = DOMAIN onlineUsers
          /\ Online(u) /\ u # v => onlineUsers'[u].score = onlineUsers[u].score
          /\ onlineUsers'[v].score = onlineUsers[v].score + p
      <4>1. onlineUsers \in [DOMAIN onlineUsers -> Session]
        BY DEF TypeOK
      <4> HIDE DEF v, p
      <4> QED
        BY <2>5, <3>0, <4>1 DEF Session, Online
    <3>7. TablesLeaveRoom(u, n)'
      BY <1>1, <2>2, <3>3, <3>6 DEF LeavesRoom, TablesLeaveRoom, Online
    <3> QED
      BY <2>3, <3>5, <3>7 DEF LeavesRoom
  <2> QED
    BY <2>4, <2>5
<1> QED
  BY <1>1, <1>4, TaskPaid

\* The tasks of the IO thread give no points that are not owed.
LEMMA IOTaskPoints ==
    ASSUME TypeOK, TypeOK', PointsInv, IOTask, UNCHANGED <<inRoom, earned>>
    PROVE  PointsInv'
<1>1. ASSUME RoomsInfoBroadcast \/ JoinRoomRespond \/ Notify \/ ObjectsDataBroadcast
      PROVE  PointsInv'
  <2>1. PICK types : TakeTask(types) /\ "Save" \notin types
    BY <1>1
       DEF RoomsInfoBroadcast, JoinRoomRespond, Notify, ObjectsDataBroadcast, Notices
  <2>2. UNCHANGED <<onlineUsers, jobs>>
    BY <1>1
       DEF RoomsInfoBroadcast, JoinRoomRespond, Notify, ObjectsDataBroadcast, Send, Fail
  <2> QED
    BY <2>1, <2>2, TaskWithoutPoints DEF Online
<1>2. ASSUME SaveOnlineUserInfo PROVE PointsInv'
  BY <1>2, SavePoints
<1>3. ASSUME FindUserCallback PROVE PointsInv'
  <2> DEFINE v == Head(serverTasks).user
             session == NewSession(Head(serverTasks).conn, v, Head(serverTasks).score)
  <2>1. TakeTask({"LoggedIn"}) /\ UNCHANGED jobs
    BY <1>3 DEF FindUserCallback, Fail
  <2>2. Head(serverTasks).type = "LoggedIn"
    BY <2>1 DEF TakeTask
  <2>3. session.score = Head(serverTasks).score
    BY DEF NewSession
  <2>4. UNCHANGED onlineUsers \/ onlineUsers' = With(onlineUsers, v, session)
    BY <1>3 DEF FindUserCallback, Fail
  <2> HIDE DEF session
  <2>5. \A u \in Users \cap DOMAIN onlineUsers' :
           \/ Online(u) /\ onlineUsers'[u].score = onlineUsers[u].score
           \/ u = v /\ onlineUsers'[u].score = Head(serverTasks).score
    BY <2>3, <2>4 DEF With, Online
  <2> QED
    BY <2>1, <2>2, <2>5, TaskWithoutPoints
<1>4. ASSUME SaveUserInfoCallback PROVE PointsInv'
  <2> DEFINE v == Head(serverTasks).user
             session == IF Online(v) THEN onlineUsers[v] ELSE NoSession
  <2>1. TakeTask({"Saved"}) /\ UNCHANGED jobs
    BY <1>4 DEF SaveUserInfoCallback, Fail
  <2>2. \/ UNCHANGED onlineUsers
        \/ onlineUsers' = With(onlineUsers, v, session)
        \/ onlineUsers' = Without(onlineUsers, v)
    BY <1>4 DEF SaveUserInfoCallback, Fail
  <2>3. session.score = 0 \/ (Online(v) /\ session = onlineUsers[v])
    BY DEF NoSession
  <2> HIDE DEF v, session
  <2>4. \A u \in Users \cap DOMAIN onlineUsers' :
           \/ onlineUsers'[u].score = 0
           \/ Online(u) /\ onlineUsers'[u].score = onlineUsers[u].score
    BY <2>2, <2>3 DEF With, Without, Restrict, Online
  <2> QED
    BY <2>1, <2>4, TaskWithoutPoints
<1> QED
  BY <1>1, <1>2, <1>3, <1>4 DEF IOTask

\* Points are earned when a user leaves a room, and owed from then on.
LEMMA ManagerPoints ==
    ASSUME TypeOK, TypeOK', PointsInv, ManagerRuns \/ ManageGames
    PROVE  PointsInv'
<1>0. UNCHANGED <<onlineUsers, db, jobs>> /\ serverTasks \in Seq(ServerTask)
  BY DEF ManagerRuns, ManageCreateRoom, ManageJoinRoom, ManageQuitRoom, ManageControl,
         ManageGames, ManagerTakes, serverVars, TypeOK
<1>a. /\ RoomsInfoTask \in ServerTask /\ RoomsInfoTask.type = "RoomsInfo"
      /\ \A u \in UserIds : [type |-> "JoinResp", user |-> u] \in ServerTask
      /\ \A u \in UserIds, n \in Nat :
            [type |-> "Save", user |-> u, score |-> n] \in ServerTask
      /\ \A users \in SUBSET UserIds :
            [type |-> "GameOn", users |-> users] \in ServerTask
  BY DEF RoomsInfoTask, ServerTask, Notices
<1>1. ASSUME UNCHANGED <<earned, serverTasks>> PROVE PointsInv'
  <2>1. ASSUME NEW u \in Users, NEW n \in Nat, LeavesRoom(u, n)
        PROVE  LeavesRoom(u, n)'
    BY <1>0, <1>1, <2>1
       DEF LeavesRoom, TablesLeaveRoom, JobsLeaveRoom, TasksLeaveRoom, Online
  <2> QED
    BY <1>1, <2>1, SameQueue
<1>2. ASSUME NEW t \in ServerTask, t.type \notin {"Save", "LoggedIn"}, UNCHANGED earned,
             \/ serverTasks' = Append(serverTasks, t)
             \/ \E w \in ServerTask : /\ w.type \notin {"Save", "LoggedIn"}
                                      /\ serverTasks' = serverTasks \o <<t, w>>
      PROVE  PointsInv'
  <2>1. \A j \in 1..Len(serverTasks') :
           \/ j \in 1..Len(serverTasks) /\ serverTasks'[j] = serverTasks[j]
           \/ serverTasks'[j].type # "LoggedIn"
    <3>1. CASE serverTasks' = Append(serverTasks, t)
      BY <1>0, <1>2, <3>1
    <3>2. ASSUME NEW w \in ServerTask, w.type # "LoggedIn",
                 serverTasks' = serverTasks \o <<t, w>>
          PROVE  \A j \in 1..Len(serverTasks') :
                    \/ j \in 1..Len(serverTasks) /\ serverTasks'[j] = serverTasks[j]
                    \/ serverTasks'[j].type # "LoggedIn"
      BY <1>0, <1>2, <3>2
    <3> QED
      BY <1>2, <3>1, <3>2
  <2>2. ASSUME NEW u \in Users, NEW n \in Nat, LeavesRoom(u, n)
        PROVE  LeavesRoom(u, n + PointsOwed(u, t))'
    <3>1. n + PointsOwed(u, t) = n
      BY <1>2, PointsOwedType
    <3>2. LeavesRoom(u, n)'
      BY <1>0, <1>2, <2>1, <2>2
         DEF LeavesRoom, TablesLeaveRoom, JobsLeaveRoom, TasksLeaveRoom, Online
    <3> QED
      BY <3>1, <3>2
  <2> QED
    BY <1>2, <2>2, TaskPosted, TwoPosted
<1>3. ASSUME ManageCreateRoom \/ ManageControl PROVE PointsInv'
  <2>1. UNCHANGED earned
        /\ (UNCHANGED serverTasks \/ serverTasks' = serverTasks \o <<RoomsInfoTask>>)
    BY <1>3 DEF ManageCreateRoom, ManageControl, PostAll
  <2>2. serverTasks \o <<RoomsInfoTask>> = Append(serverTasks, RoomsInfoTask)
    BY <1>0, <1>a
  <2> QED
    BY <1>1, <1>2, <1>a, <2>1, <2>2
<1>4. ASSUME ManageJoinRoom PROVE PointsInv'
  <2> DEFINE t == [type |-> "JoinResp", user |-> Head(managerTasks).user]
  <2>1. t \in ServerTask
    BY <1>4, <1>a, ManagerTaskTaken, TaskFields DEF ManageJoinRoom
  <2>2. /\ UNCHANGED earned
        /\ \/ serverTasks' = serverTasks \o <<t>>
           \/ serverTasks' = serverTasks \o <<t, RoomsInfoTask>>
    BY <1>4 DEF ManageJoinRoom, RefuseJoin, EnterRoom, PostAll
  <2>3. t.type = "JoinResp"
    OBVIOUS
  <2> HIDE DEF t
  <2>4. serverTasks \o <<t>> = Append(serverTasks, t)
    BY <1>0, <2>1
  <2> QED
    BY <1>2, <1>a, <2>1, <2>2, <2>3, <2>4
<1>5. ASSUME ManageQuitRoom PROVE PointsInv'
  <2> DEFINE v == Head(managerTasks).user
  <2>1. CASE v \notin inRoom
    BY <1>1, <1>5, <2>1 DEF ManageQuitRoom
  <2>2. CASE v \in inRoom
    <3>1. v \in UserIds
      BY <1>5, ManagerTaskTaken, TaskFields DEF ManageQuitRoom
    <3>2. PICK points \in 0..(MaxPoints - earned[v]) :
             /\ earned' = [earned EXCEPT ![v] = @ + points]
             /\ PostAll(<<[type |-> "Save", user |-> v, score |-> points],
                          RoomsInfoTask>>)
      BY <1>5, <2>2 DEF ManageQuitRoom
    <3>3. PICK w : w = v
      OBVIOUS
    <3>a. w \in UserIds /\ points \in Nat
      BY <3>1, <3>3
    <3>b. [type |-> "Save", user |-> w, score |-> points] \in ServerTask
      BY <3>a DEF ServerTask
    <3>4. PICK t \in ServerTask : t = [type |-> "Save", user |-> w, score |-> points]
      BY <3>b
    <3>5. /\ earned' = [earned EXCEPT ![w] = @ + points]
          /\ serverTasks' = serverTasks \o <<t, RoomsInfoTask>>
          /\ points \in Nat /\ w \in UserIds
      BY <3>1, <3>2, <3>3, <3>4 DEF PostAll
    <3>6. ASSUME NEW u \in Users, NEW n \in Nat, LeavesRoom(u, n)
          PROVE  LeavesRoom(u, n + PointsOwed(u, t))'
      <4>1. /\ PointsOwed(u, t) = IF u = w THEN points ELSE 0
            /\ PointsOwed(u, t) \in Nat
        BY <3>4, <3>5 DEF PointsOwed
      <4> DEFINE p == PointsOwed(u, t)
      <4>2. earned'[u] = earned[u] + p
        BY <3>5, <4>1 DEF TypeOK, UserIds
      <4> HIDE DEF p
      <4>3. /\ earned[u] \in Nat /\ db[u] \in Int /\ p \in Nat
            /\ Online(u) => onlineUsers[u].score \in Nat
        BY <4>1 DEF TypeOK, UserIds, NoRow, Session, Online, p
      <4>4. TablesLeaveRoom(u, n + p)'
        BY <1>0, <3>6, <4>2, <4>3 DEF LeavesRoom, TablesLeaveRoom, Online
      <4>5. JobsLeaveRoom(u, n + p)'
        <5>1. \A i \in 1..Len(jobs) :
                 jobs[i].op \in {"Found", "Update"} => jobs[i].score \in Nat
          BY TaskFields, ElementOfSeq DEF TypeOK
        <5> QED
          BY <1>0, <3>6, <4>2, <4>3, <5>1 DEF LeavesRoom, JobsLeaveRoom
      <4>6. TasksLeaveRoom(u, n + p)'
        <5>1. \A j \in 1..Len(serverTasks') :
                 \/ j \in 1..Len(serverTasks) /\ serverTasks'[j] = serverTasks[j]
                 \/ serverTasks'[j].type # "LoggedIn"
          BY <1>0, <1>a, <3>4, <3>5
        <5>2. \A i \in 1..Len(serverTasks) :
                 serverTasks[i].type = "LoggedIn" => serverTasks[i].score \in Nat
          BY TaskFields, ElementOfSeq DEF TypeOK
        <5> QED
          BY <3>6, <4>2, <4>3, <5>1, <5>2 DEF LeavesRoom, TasksLeaveRoom
      <4> QED
        BY <4>4, <4>5, <4>6 DEF LeavesRoom, p
    <3> QED
      BY <1>a, <3>5, <3>6, TwoPosted
  <2> QED
    BY <2>1, <2>2
<1>6. ASSUME ManageGames PROVE PointsInv'
  <2>1. PICK t \in ServerTask, w \in ServerTask :
           /\ t.type = "GameOn" /\ w.type = "GameOn"
           /\ \/ serverTasks' = serverTasks \o <<t>>
              \/ serverTasks' = serverTasks \o <<t, w>>
    BY <1>6, NoticesPosted
  <2>2. serverTasks \o <<t>> = Append(serverTasks, t)
    BY <1>0
  <2>3. UNCHANGED earned
    BY <1>6 DEF ManageGames
  <2> QED
    BY <1>2, <2>1, <2>2, <2>3
<1> QED
  BY <1>3, <1>4, <1>5, <1>6 DEF ManagerRuns

\* Every step leaves room for what is owed.
LEMMA NextPoints ==
    ASSUME TypeOK, PointsInv, [Next]_sessionVars
    PROVE  PointsInv'
<1>1. CASE UNCHANGED sessionVars
  <2>1. UNCHANGED <<onlineUsers, db, jobs, serverTasks, earned>>
    BY <1>1 DEF sessionVars, serverVars
  <2>2. ASSUME NEW u \in Users, NEW n \in Nat, LeavesRoom(u, n)
        PROVE  LeavesRoom(u, n)'
    BY <2>1, <2>2
       DEF LeavesRoom, TablesLeaveRoom, JobsLeaveRoom, TasksLeaveRoom, Online
  <2> QED
    BY <2>1, <2>2, SameQueue
<1>2. TypeOK'
  BY NextType
<1> QED
  BY <1>1, <1>2, MessagesPoints, PoolThreadPoints, IOTaskPoints, ManagerPoints DEF Next

\* Nothing has been earned and nothing is owed at the start.
LEMMA InitPoints == Init => PointsInv
<1> SUFFICES ASSUME Init, NEW u \in Users
             PROVE  \E rest : OwedBy(u, serverTasks, rest) /\ LeavesRoom(u, rest[1])
  BY DEF PointsInv
<1>1. /\ serverTasks = <<>> /\ jobs = <<>> /\ DOMAIN onlineUsers = {}
      /\ db[u] = -1 /\ earned[u] = 0
  BY DEF Init, ServerInit, UserIds, NoRow
<1> DEFINE rest == [i \in 1..1 |-> 0]
<1>2. rest[1] = 0 /\ rest \in [1..1 -> Nat]
  OBVIOUS
<1> HIDE DEF rest
<1>3. OwedBy(u, serverTasks, rest)
  BY <1>1, <1>2 DEF OwedBy
<1>4. LeavesRoom(u, rest[1])
  BY <1>1, <1>2 DEF LeavesRoom, TablesLeaveRoom, JobsLeaveRoom, TasksLeaveRoom, Online
<1> QED
  BY <1>3, <1>4

\* No race between saves, logins and reconnects gives a user points that were
\* never earned.
THEOREM PointsAreEarned == Spec => []NoInventedPoints
<1>1. TypeOK /\ PointsInv => NoInventedPoints
  <2> SUFFICES ASSUME TypeOK, PointsInv, NEW u \in Users
               PROVE  /\ db[u] <= earned[u]
                      /\ Online(u) => onlineUsers[u].score <= earned[u]
    BY DEF NoInventedPoints
  <2>1. PICK rest : OwedBy(u, serverTasks, rest) /\ LeavesRoom(u, rest[1])
    BY DEF PointsInv
  <2>2. rest[1] \in Nat
    <3>1. 1 \in 1..(Len(serverTasks) + 1)
      BY DEF TypeOK
    <3> QED
      BY <2>1, <3>1 DEF OwedBy
  <2>3. LeavesRoom(u, 0)
    BY <2>1, <2>2, LessRoom
  <2>4. db[u] \in Int /\ (Online(u) => onlineUsers[u].score \in Nat)
    BY DEF TypeOK, NoRow, Session, Online
  <2> QED
    BY <2>3, <2>4 DEF LeavesRoom, TablesLeaveRoom
<1> QED
  BY <1>1, InitType, NextType, InitPoints, NextPoints, PTL DEF Spec

----------------------------------------------------------------------------
(* Users whose connection broke are on the way out of their room.  That a  *)
(* Quit waits is not inductive: a Join may wait as well, and lead the user *)
(* into a room after that Quit.  It is when a Quit waits behind every Join,*)
(* and when no other connection can ask on behalf of such a user, whose    *)
(* own connection is closed.                                               *)

QuitOf(u) == [type |-> "Quit", user |-> u]
IsJoinOf(u, task) == task.type = "Join" /\ task.user = u

Leaving(u) == Online(u) /\ onlineUsers[u].disconnecting

Disconnected(u) ==
    /\ onlineUsers[u].conn # NoConn
    /\ tcp[onlineUsers[u].conn] = "closed"

QuitsAhead(u) ==
    u \in inRoom => \E i \in 1..Len(managerTasks) : managerTasks[i] = QuitOf(u)

QuitBehindJoins(u) ==
    \A i \in 1..Len(managerTasks) :
        IsJoinOf(u, managerTasks[i]) =>
            \E j \in 1..Len(managerTasks) : j > i /\ managerTasks[j] = QuitOf(u)

LeaverInv(u) == Disconnected(u) /\ QuitsAhead(u) /\ QuitBehindJoins(u)

QuitFollows ==
    IsInjective(Address) => \A u \in Users : Leaving(u) => LeaverInv(u)

\* A connection that belongs to a user is that user's own.
LEMMA OwnConnection ==
    ASSUME TypeOK, SessionsIndexed, IsInjective(Address), NEW c \in Conns,
           Online(UserAt(Address[c]))
    PROVE  onlineUsers[UserAt(Address[c])].conn = c
<1> DEFINE u == UserAt(Address[c])
<1>1. u \in Users
  BY DEF TypeOK, Online
<1>2. Address[c] \in DOMAIN connIdToUserId /\ connIdToUserId[Address[c]] = u
  BY <1>1, UsersAssumption DEF UserAt
<1>3. onlineUsers[u].conn # NoConn /\ Address[onlineUsers[u].conn] = Address[c]
  BY <1>1, <1>2, UsersAssumption DEF SessionsIndexed
<1>4. onlineUsers[u].conn \in Conns
  BY <1>3 DEF TypeOK, Session, Online
<1> QED
  BY <1>3, <1>4, ConnsAssumption DEF IsInjective

\* What an added task does to the line of a user who is leaving.
LEMMA TaskAsked ==
    ASSUME TypeOK, NEW t \in ManagerTask, Ask(t), UNCHANGED inRoom, NEW u
    PROVE  /\ t = QuitOf(u) => QuitsAhead(u)' /\ QuitBehindJoins(u)'
           /\ QuitsAhead(u) => QuitsAhead(u)'
           /\ QuitBehindJoins(u) /\ ~IsJoinOf(u, t) => QuitBehindJoins(u)'
<1>1. /\ Len(managerTasks) \in Nat /\ Len(managerTasks') = Len(managerTasks) + 1
      /\ \A i \in 1..Len(managerTasks) : managerTasks'[i] = managerTasks[i]
      /\ managerTasks'[Len(managerTasks) + 1] = t
  BY DEF Ask, TypeOK
<1>2. ~IsJoinOf(u, QuitOf(u))
  BY DEF IsJoinOf, QuitOf
<1>3. ASSUME t = QuitOf(u) PROVE QuitsAhead(u)' /\ QuitBehindJoins(u)'
  BY <1>1, <1>2, <1>3 DEF QuitsAhead, QuitBehindJoins
<1>4. ASSUME QuitsAhead(u) PROVE QuitsAhead(u)'
  BY <1>1, <1>4 DEF QuitsAhead
<1>5. ASSUME QuitBehindJoins(u), ~IsJoinOf(u, t) PROVE QuitBehindJoins(u)'
  BY <1>1, <1>5 DEF QuitBehindJoins
<1> QED
  BY <1>3, <1>4, <1>5

\* What taking a task does to it.
LEMMA TaskTaken ==
    ASSUME TypeOK, managerTasks # <<>>, managerTasks' = Tail(managerTasks), NEW u,
           QuitsAhead(u), QuitBehindJoins(u),
           \/ u \notin inRoom'
           \/ u \in inRoom /\ Head(managerTasks) # QuitOf(u)
           \/ IsJoinOf(u, Head(managerTasks))
    PROVE  QuitsAhead(u)' /\ QuitBehindJoins(u)'
<1>1. /\ Len(managerTasks) \in Nat /\ Len(managerTasks') = Len(managerTasks) - 1
      /\ \A i \in 1..Len(managerTasks') : managerTasks'[i] = managerTasks[i + 1]
      /\ Head(managerTasks) = managerTasks[1] /\ 1 \in 1..Len(managerTasks)
  BY DEF TypeOK
<1>2. \A j \in 1..Len(managerTasks) :
         j > 1 => j - 1 \in 1..Len(managerTasks') /\ managerTasks'[j - 1] = managerTasks[j]
  BY <1>1
<1>3. QuitBehindJoins(u)'
  <2> SUFFICES ASSUME NEW i \in 1..Len(managerTasks'), IsJoinOf(u, managerTasks'[i])
               PROVE  \E j \in 1..Len(managerTasks') :
                         j > i /\ managerTasks'[j] = QuitOf(u)
    BY DEF QuitBehindJoins, IsJoinOf, QuitOf
  <2>1. i + 1 \in 1..Len(managerTasks) /\ IsJoinOf(u, managerTasks[i + 1])
    BY <1>1
  <2>2. PICK j \in 1..Len(managerTasks) : j > i + 1 /\ managerTasks[j] = QuitOf(u)
    BY <2>1 DEF QuitBehindJoins
  <2> QED
    BY <1>2, <2>2
<1>4. QuitsAhead(u)'
  <2> SUFFICES ASSUME u \in inRoom'
               PROVE  \E i \in 1..Len(managerTasks') : managerTasks'[i] = QuitOf(u)
    BY DEF QuitsAhead, QuitOf
  <2>1. PICK j \in 1..Len(managerTasks) : j > 1 /\ managerTasks[j] = QuitOf(u)
    BY <1>1 DEF QuitsAhead, QuitBehindJoins
  <2> QED
    BY <1>2, <2>1
<1> QED
  BY <1>3, <1>4


\* Messages and broken connections: only the user's own connection speaks for a
\* user, and the break of that one asks to quit.
LEMMA MessagesQuit ==
    ASSUME TypeOK, SessionsIndexed, QuitFollows, NEW c \in Conns, Messages(c),
           UNCHANGED <<inRoom, earned>>
    PROVE  QuitFollows'
<1> SUFFICES ASSUME IsInjective(Address), NEW u \in Users, Leaving(u)'
             PROVE  LeaverInv(u)'
  BY DEF QuitFollows
<1>1. ASSUME HandleDisconnection(c) PROVE LeaverInv(u)'
  <2>1. /\ tcp' = [tcp EXCEPT ![c] = "closed"]
        /\ tcp \in [Conns -> {"fresh", "open", "closed"}]
    BY <1>1 DEF HandleDisconnection, TypeOK
  <2>2. CASE Online(UserAt(Address[c]))
    <3>1. PICK v : v = UserAt(Address[c])
      OBVIOUS
    <3>2. /\ onlineUsers' = [onlineUsers EXCEPT ![v].disconnecting = TRUE]
          /\ Ask(QuitOf(v))
      BY <1>1, <2>2, <3>1 DEF HandleDisconnection, Leaves, QuitOf
    <3>3. onlineUsers[v].conn = c /\ v \in DOMAIN onlineUsers
      BY <2>2, <3>1, OwnConnection DEF Online
    <3>4. v \in UserIds /\ QuitOf(v) \in ManagerTask
      BY <3>3 DEF TypeOK, UserIds, QuitOf, ManagerTask
    <3>5. onlineUsers \in [DOMAIN onlineUsers -> Session]
      BY DEF TypeOK
    <3>6. CASE u = v
      <4>1. onlineUsers'[u].conn = c
        BY <3>2, <3>3, <3>5, <3>6 DEF Session
      <4>2. Disconnected(u)'
        BY <2>1, <4>1, ConnsAssumption DEF Disconnected
      <4> QED
        BY <3>2, <3>4, <3>6, <4>2, TaskAsked DEF LeaverInv
    <3>7. CASE u # v
      <4>1. onlineUsers'[u] = onlineUsers[u] /\ u \in DOMAIN onlineUsers
        BY <3>2, <3>7 DEF Leaving, Online
      <4>2. Leaving(u)
        BY <4>1 DEF Leaving, Online
      <4>3. LeaverInv(u)
        BY <4>2 DEF QuitFollows
      <4>4. onlineUsers[u].conn \in Conns
        BY <3>5, <4>1, <4>3 DEF LeaverInv, Disconnected, Session
      <4>5. Disconnected(u)'
        BY <2>1, <4>1, <4>3, <4>4 DEF LeaverInv, Disconnected
      <4>6. ~IsJoinOf(u, QuitOf(v))
        BY DEF IsJoinOf, QuitOf
      <4> QED
        BY <3>2, <3>4, <4>3, <4>5, <4>6, TaskAsked DEF LeaverInv
    <3> QED
      BY <3>6, <3>7
  <2>3. CASE ~Online(UserAt(Address[c]))
    <3>1. UNCHANGED <<onlineUsers, managerTasks, inRoom>>
      BY <1>1, <2>3 DEF HandleDisconnection
    <3>2. LeaverInv(u)
      BY <3>1 DEF QuitFollows, Leaving, Online
    <3>3. onlineUsers[u].conn \in Conns
      BY <3>1, <3>2 DEF LeaverInv, Disconnected, TypeOK, Session, Leaving, Online
    <3> QED
      BY <2>1, <3>1, <3>2, <3>3
         DEF LeaverInv, Disconnected, QuitsAhead, QuitBehindJoins
  <2> QED
    BY <2>2, <2>3
<1>2. ASSUME ~HandleDisconnection(c) PROVE LeaverInv(u)'
  <2>1. UNCHANGED <<onlineUsers, inRoom>>
    BY <1>2
       DEF Messages, Connect, OnLogin, OnCreateRoom, OnJoinRoom, OnQuitRoom,
           OnControlMessage, serverVars
  <2>2. Leaving(u) /\ LeaverInv(u)
    BY <2>1 DEF QuitFollows, Leaving, Online
  <2>3. onlineUsers[u].conn \in Conns
    BY <2>2 DEF LeaverInv, Disconnected, TypeOK, Session, Leaving, Online
  <2>4. \/ UNCHANGED tcp
        \/ tcp[c] = "fresh" /\ tcp' = [tcp EXCEPT ![c] = "open"]
    BY <1>2
       DEF Messages, Connect, OnLogin, OnCreateRoom, OnJoinRoom, OnQuitRoom,
           OnControlMessage, serverVars
  <2>5. Disconnected(u)'
    BY <2>1, <2>2, <2>3, <2>4 DEF LeaverInv, Disconnected, TypeOK
  <2>6. CASE UNCHANGED managerTasks
    BY <2>1, <2>2, <2>5, <2>6 DEF LeaverInv, QuitsAhead, QuitBehindJoins
  <2>7. ASSUME NEW t \in ManagerTask, Ask(t), ~IsJoinOf(u, t) PROVE LeaverInv(u)'
    BY <2>1, <2>2, <2>5, <2>7, TaskAsked DEF LeaverInv
  <2>8. ASSUME NEW cap \in Caps, OnCreateRoom(c, cap) PROVE LeaverInv(u)'
    <3>1. /\ [type |-> "Create", cap |-> cap] \in ManagerTask
          /\ ~IsJoinOf(u, [type |-> "Create", cap |-> cap])
      BY DEF ManagerTask, IsJoinOf
    <3> QED
      BY <2>7, <2>8, <3>1 DEF OnCreateRoom
  <2>9. ASSUME NEW r \in RoomIds, OnJoinRoom(c, r) PROVE LeaverInv(u)'
    <3>1. PICK v \in UserIds : v = connIdToUserId[Address[c]]
      BY <2>9 DEF OnJoinRoom, TypeOK
    <3>2. PICK t \in ManagerTask : t = [type |-> "Join", user |-> v, room |-> r]
      BY DEF ManagerTask
    <3>3. Ask(t) /\ tcp[c] = "open" /\ v = UserAt(Address[c])
      BY <2>9, <3>1, <3>2 DEF OnJoinRoom, MessageFrom, UserAt
    <3>4. v # u
      <4> SUFFICES ASSUME v = u PROVE FALSE
        OBVIOUS
      <4>1. onlineUsers[u].conn = c
        BY <2>2, <3>3, OwnConnection DEF Leaving
      <4> QED
        BY <2>2, <3>3, <4>1 DEF LeaverInv, Disconnected
    <3>5. ~IsJoinOf(u, t)
      BY <3>2, <3>4 DEF IsJoinOf
    <3> QED
      BY <2>7, <3>3, <3>5
  <2>10. ASSUME OnQuitRoom(c) \/ OnControlMessage(c) PROVE LeaverInv(u)'
    <3>1. PICK v \in UserIds, type \in {"Quit", "Control"} :
             Ask([type |-> type, user |-> v])
      <4>1. CASE OnQuitRoom(c)
        BY <4>1, UserAtType DEF OnQuitRoom
      <4>2. CASE OnControlMessage(c)
        BY <4>2 DEF OnControlMessage, TypeOK
      <4> QED
        BY <2>10, <4>1, <4>2
    <3> DEFINE t == [type |-> type, user |-> v]
    <3>2. t \in ManagerTask /\ ~IsJoinOf(u, t)
      BY DEF ManagerTask, IsJoinOf
    <3> QED
      BY <2>7, <3>1, <3>2
  <2> QED
    BY <1>2, <2>6, <2>8, <2>9, <2>10
       DEF Messages, Connect, OnLogin
<1> QED
  BY <1>1, <1>2

\* A step that makes nobody leave and that the Manager has no part in.
LEMMA SameLeavers ==
    ASSUME TypeOK, QuitFollows, UNCHANGED <<tcp, managerTasks, inRoom>>,
           \A u \in Users :
               Leaving(u)' => Leaving(u) /\ onlineUsers'[u].conn = onlineUsers[u].conn
    PROVE  QuitFollows'
BY DEF QuitFollows, LeaverInv, Disconnected, QuitsAhead, QuitBehindJoins

\* The tasks of the IO thread.
LEMMA IOTaskQuit ==
    ASSUME TypeOK, QuitFollows, IOTask, UNCHANGED <<inRoom, earned>>
    PROVE  QuitFollows'
<1>1. UNCHANGED <<tcp, managerTasks>>
  BY DEF IOTask, RoomsInfoBroadcast, JoinRoomRespond, Notify, ObjectsDataBroadcast,
         SaveOnlineUserInfo, FindUserCallback, SaveUserInfoCallback, TakeTask
<1> SUFFICES ASSUME NEW u \in Users, Leaving(u)'
             PROVE  Leaving(u) /\ onlineUsers'[u].conn = onlineUsers[u].conn
  BY <1>1, SameLeavers
<1>2. onlineUsers \in [DOMAIN onlineUsers -> Session]
  BY DEF TypeOK
<1>3. CASE UNCHANGED onlineUsers
  BY <1>3 DEF Leaving, Online
<1>4. ASSUME SaveOnlineUserInfo
      PROVE  Leaving(u) /\ onlineUsers'[u].conn = onlineUsers[u].conn
  <2>1. PICK v, score : \/ onlineUsers' = [onlineUsers EXCEPT ![v].score = score]
                        \/ UNCHANGED onlineUsers
    BY <1>4 DEF SaveOnlineUserInfo
  <2> QED
    BY <1>2, <2>1 DEF Leaving, Online, Session
<1>5. ASSUME FindUserCallback, ~UNCHANGED onlineUsers
      PROVE  Leaving(u) /\ onlineUsers'[u].conn = onlineUsers[u].conn
  <2>1. PICK v, c, score :
           onlineUsers' = With(onlineUsers, v, NewSession(c, v, score))
    BY <1>5 DEF FindUserCallback, Fail
  <2>2. /\ DOMAIN onlineUsers' = DOMAIN onlineUsers \cup {v}
        /\ onlineUsers'[v] = NewSession(c, v, score)
        /\ \A w \in DOMAIN onlineUsers \ {v} : onlineUsers'[w] = onlineUsers[w]
    BY <2>1 DEF With
  <2>3. u # v
    BY <2>2 DEF Leaving, NewSession
  <2> QED
    BY <2>2, <2>3 DEF Leaving, Online
<1>6. ASSUME SaveUserInfoCallback, ~UNCHANGED onlineUsers
      PROVE  Leaving(u) /\ onlineUsers'[u].conn = onlineUsers[u].conn
  <2>1. PICK v, session :
           \/ onlineUsers' = With(onlineUsers, v, session) /\ ~session.disconnecting
           \/ onlineUsers' = Without(onlineUsers, v)
    BY <1>6, Zenon DEF SaveUserInfoCallback, Fail
  <2>2. CASE onlineUsers' = With(onlineUsers, v, session) /\ ~session.disconnecting
    <3>1. /\ DOMAIN onlineUsers' = DOMAIN onlineUsers \cup {v}
          /\ onlineUsers'[v] = session
          /\ \A w \in DOMAIN onlineUsers \ {v} : onlineUsers'[w] = onlineUsers[w]
      BY <2>2 DEF With
    <3> QED
      BY <2>2, <3>1 DEF Leaving, Online
  <2>3. CASE onlineUsers' = Without(onlineUsers, v)
    <3>1. /\ DOMAIN onlineUsers' = DOMAIN onlineUsers \ {v}
          /\ \A w \in DOMAIN onlineUsers \ {v} : onlineUsers'[w] = onlineUsers[w]
      BY <2>3, WithoutEntry, Zenon
    <3> QED
      BY <3>1 DEF Leaving, Online
  <2> QED
    BY <2>1, <2>2, <2>3
<1> QED
  BY <1>3, <1>4, <1>5, <1>6
     DEF IOTask, RoomsInfoBroadcast, JoinRoomRespond, Notify, ObjectsDataBroadcast,
         Send, Fail

\* The Manager carries out the Quit, or a Join that the Quit waits behind.
LEMMA ManagerQuit ==
    ASSUME TypeOK, QuitFollows, ManagerRuns
    PROVE  QuitFollows'
<1> SUFFICES ASSUME IsInjective(Address), NEW u \in Users, Leaving(u)'
             PROVE  LeaverInv(u)'
  BY DEF QuitFollows
<1>1. /\ managerTasks # <<>> /\ managerTasks' = Tail(managerTasks)
      /\ UNCHANGED <<tcp, onlineUsers>>
  BY DEF ManagerRuns, ManageCreateRoom, ManageJoinRoom, ManageQuitRoom, ManageControl,
         ManagerTakes, serverVars
<1>2. LeaverInv(u)
  BY <1>1 DEF QuitFollows, Leaving, Online
<1>3. Disconnected(u)'
  BY <1>1, <1>2 DEF LeaverInv, Disconnected
<1>4. ASSUME ManageCreateRoom \/ ManageControl PROVE LeaverInv(u)'
  <2>1. Head(managerTasks) # QuitOf(u) /\ UNCHANGED inRoom
    BY <1>4 DEF ManageCreateRoom, ManageControl, ManagerTakes, QuitOf
  <2> QED
    BY <1>1, <1>2, <1>3, <2>1, TaskTaken DEF LeaverInv
<1>5. ASSUME ManageJoinRoom PROVE LeaverInv(u)'
  <2>1. /\ Head(managerTasks).type = "Join" /\ Head(managerTasks) # QuitOf(u)
        /\ \/ UNCHANGED inRoom
           \/ inRoom' = inRoom \cup {Head(managerTasks).user}
    BY <1>5 DEF ManageJoinRoom, ManagerTakes, RefuseJoin, EnterRoom, QuitOf
  <2>2. \/ u \notin inRoom' \/ u \in inRoom \/ IsJoinOf(u, Head(managerTasks))
    BY <2>1 DEF IsJoinOf
  <2> QED
    BY <1>1, <1>2, <1>3, <2>1, <2>2, TaskTaken DEF LeaverInv
<1>6. ASSUME ManageQuitRoom PROVE LeaverInv(u)'
  <2>1. \/ Head(managerTasks).user \in inRoom
           /\ inRoom' = inRoom \ {Head(managerTasks).user}
        \/ Head(managerTasks).user \notin inRoom /\ UNCHANGED inRoom
    BY <1>6 DEF ManageQuitRoom
  <2>2. CASE Head(managerTasks) = QuitOf(u)
    <3>1. u \notin inRoom'
      BY <2>1, <2>2 DEF QuitOf
    <3> QED
      BY <1>1, <1>2, <1>3, <3>1, TaskTaken DEF LeaverInv
  <2>3. CASE Head(managerTasks) # QuitOf(u)
    <3>1. u \notin inRoom' \/ u \in inRoom
      BY <2>1
    <3> QED
      BY <1>1, <1>2, <1>3, <2>3, <3>1, TaskTaken DEF LeaverInv
  <2> QED
    BY <2>2, <2>3
<1> QED
  BY <1>4, <1>5, <1>6 DEF ManagerRuns

LEMMA NextQuit ==
    ASSUME TypeOK, SessionsIndexed, QuitFollows, [Next]_sessionVars
    PROVE  QuitFollows'
<1>1. CASE UNCHANGED sessionVars
  BY <1>1, SameLeavers DEF sessionVars, serverVars, Leaving, Online
<1>2. ASSUME NEW i \in 1..Workers, PoolThread(i), UNCHANGED <<inRoom, earned>>
      PROVE  QuitFollows'
  BY <1>2, SameLeavers
     DEF PoolThread, FindUser, CreateUser, SaveUserInfoToDB, Callback, Leaving, Online
<1>3. ASSUME ManageGames PROVE QuitFollows'
  BY <1>3, SameLeavers DEF ManageGames, serverVars, Leaving, Online
<1> QED
  BY <1>1, <1>2, <1>3, MessagesQuit, IOTaskQuit, ManagerQuit DEF Next

\* When no two connections share an address: a user whose connection broke and
\* who is still in a room is on the way out of it, whatever else that user
\* asked for before, and whoever logs in meanwhile.
THEOREM LeaversQuit == Spec => []LeavingUsersQuit
<1>1. Init => QuitFollows
  BY DEF Init, ServerInit, QuitFollows, Leaving, Online
<1>2. TypeOK /\ QuitFollows => LeavingUsersQuit
  <2> SUFFICES ASSUME TypeOK, QuitFollows, IsInjective(Address),
                      NEW u \in inRoom \cap DOMAIN onlineUsers,
                      onlineUsers[u].disconnecting
               PROVE  \E i \in DOMAIN managerTasks :
                         managerTasks[i] = [type |-> "Quit", user |-> u]
    BY DEF LeavingUsersQuit
  <2>1. LeaverInv(u)
    BY DEF QuitFollows, Leaving, Online, TypeOK
  <2>2. DOMAIN managerTasks = 1..Len(managerTasks)
    BY DEF TypeOK
  <2> QED
    BY <2>1, <2>2 DEF LeaverInv, QuitsAhead, QuitOf
<1>3. IndexInv => SessionsIndexed
  BY DEF IndexInv
<1> QED
  BY <1>1, <1>2, <1>3, TypeCorrect, IndexInvariance, NextQuit, PTL DEF Spec
=============================================================================
