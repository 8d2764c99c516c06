-------------------------------- MODULE Tmall -------------------------------
(***************************************************************************)
(* hx-tmall: a lamp on the bigiot.net cloud (user_tmall_genie.c, with the  *)
(* application user_app.c and the lamp of user_led.c).  Every address that *)
(* the station gets starts a task that builds a TLS connection in one      *)
(* global set of contexts and leaves a receive task behind; a check-in     *)
(* dialogue follows, which ends in a heart-beat task that writes for ever. *)
(*                                                                         *)
(* The cloud is modelled by its dialogue: WELCOME, the device's key, a     *)
(* token, the sign-in, checkinok, and then commands.  The contexts of a    *)
(* connection live and die together.                                       *)
(***************************************************************************)
EXTENDS Lamp, Sequences

CONSTANTS
    MaxConns, \* bound: addresses got, each with a connection
    MaxSent   \* bound: messages of the cloud on their way

ASSUME TmallAssumption == MaxConns \in Nat \ {0} /\ MaxSent \in Nat \ {0}

Conns == 1..MaxConns
Commands == {"play", "stop"}

VARIABLES
    got_ip,     \* how often the station got an address
    conn_at,    \* the task of each connection: none, made, setup, up, over
    ctx,        \* its contexts: none, live, freed
    current,    \* the connection that tcp_ssl_connect points to, 0 at first
    recv_at,    \* its receive task: none, read, key, sign, gone
    beat_at,    \* its heart-beat task: none, wait, write
    dialogue,   \* what the cloud last heard or said on it
    sent,       \* messages of the cloud that are on their way
    md5,        \* md5_encrypted_token_user_api_key: null, live, freed
    last_cmd,   \* history: the last command that was carried out
    repeated,   \* history: a command was carried out twice in a row
    hung_up,    \* history: the peer ended a connection
    tls_fault   \* history: freed contexts used, or md5 freed twice

tm_conn_vars == <<got_ip, conn_at, ctx, current>>
tm_task_vars == <<recv_at, beat_at>>
tm_note_vars == <<last_cmd, repeated, hung_up>>
tmall_vars == <<tm_conn_vars, tm_task_vars, dialogue, sent, md5, tm_note_vars, tls_fault, lamp>>

TmallTypeOK ==
    /\ LampTypeOK
    /\ got_ip \in 0..MaxConns
    /\ conn_at \in [Conns -> {"none", "made", "setup", "up", "over"}]
    /\ ctx \in [Conns -> {"none", "live", "freed"}]
    /\ current \in 0..MaxConns
    /\ recv_at \in [Conns -> {"none", "read", "key", "sign", "gone"}]
    /\ beat_at \in [Conns -> {"none", "wait", "write"}]
    /\ dialogue \in [Conns -> {"none", "welcome", "key", "token", "sign", "in"}]
    /\ \A c \in Conns : Len(sent[c]) <= MaxSent
    /\ md5 \in {"null", "live", "freed"}
    /\ last_cmd \in Commands
    /\ {repeated, hung_up, tls_fault} \subseteq BOOLEAN

TmallInit ==
    /\ lamp = [LampOff EXCEPT !.ready = TRUE]
    /\ got_ip = 0 /\ current = 0
    /\ conn_at = [c \in Conns |-> "none"] /\ ctx = [c \in Conns |-> "none"]
    /\ recv_at = [c \in Conns |-> "none"] /\ beat_at = [c \in Conns |-> "none"]
    /\ dialogue = [c \in Conns |-> "none"] /\ sent = [c \in Conns |-> <<>>]
    /\ md5 = "null"
    /\ last_cmd = "stop" /\ repeated = FALSE
    /\ hung_up = FALSE /\ tls_fault = FALSE

-----------------------------------------------------------------------------
(* Building the connection.                                                 *)

\* event_handler, SYSTEM_EVENT_STA_GOT_IP: xTaskCreate succeeds or not.
GotIp ==
    /\ got_ip < MaxConns
    /\ got_ip' = got_ip + 1
    /\ conn_at' \in {conn_at, [conn_at EXCEPT ![got_ip + 1] = "made"]}
    /\ UNCHANGED <<ctx, current, tm_task_vars, dialogue, sent, md5, tm_note_vars, tls_fault, lamp>>

\* big_iot_cloud_connect allocates the contexts: the pointers are global.
AllocateContexts(c) ==
    /\ conn_at[c] = "made"
    /\ conn_at' = [conn_at EXCEPT ![c] = "setup"]
    /\ ctx' = [ctx EXCEPT ![c] = "live"]
    /\ current' = c
    /\ UNCHANGED <<got_ip, tm_task_vars, dialogue, sent, md5, tm_note_vars, tls_fault, lamp>>

\* tcp_ssl_parameters_clean frees what the pointers point to, and leaves them.
Clean ==
    /\ ctx' = [ctx EXCEPT ![current] = "freed"]
    /\ tls_fault' = (tls_fault \/ ctx[current] # "live")

\* The rest of big_iot_cloud_connect: seeding, connecting, configuring and the
\* handshake, each of which cleans up and returns when it fails, and the task
\* that receives, which may be refused.
Connect(c) ==
    /\ conn_at[c] = "setup"
    /\ \/ /\ conn_at' = [conn_at EXCEPT ![c] = "over"]
          /\ Clean
          /\ UNCHANGED <<recv_at, dialogue>>
       \/ /\ conn_at' = [conn_at EXCEPT ![c] = "up"]
          /\ recv_at' \in {recv_at, [recv_at EXCEPT ![c] = "read"]}
          /\ dialogue' = [dialogue EXCEPT ![c] = "welcome"]
          /\ tls_fault' = (tls_fault \/ ctx[current] # "live")
          /\ UNCHANGED ctx
    /\ UNCHANGED <<got_ip, current, beat_at, sent, md5, tm_note_vars, lamp>>

-----------------------------------------------------------------------------
(* The cloud.                                                               *)

Say(c, m) == sent' = [sent EXCEPT ![c] = Append(@, m)]

\* It welcomes, answers a key with a token and a sign-in with checkinok, and
\* sends commands to a device that has checked in.
CloudSays(c) ==
    /\ conn_at[c] = "up" /\ Len(sent[c]) < MaxSent
    /\ \/ /\ dialogue[c] = "welcome" /\ Say(c, "welcome")
          /\ dialogue' = [dialogue EXCEPT ![c] = "none"]
       \/ /\ dialogue[c] = "key" /\ Say(c, "token")
          /\ dialogue' = [dialogue EXCEPT ![c] = "token"]
       \/ /\ dialogue[c] = "sign" /\ Say(c, "checkinok")
          /\ dialogue' = [dialogue EXCEPT ![c] = "in"]
       \/ /\ dialogue[c] = "in" /\ \E m \in Commands : Say(c, m)
          /\ UNCHANGED dialogue
    /\ UNCHANGED <<tm_conn_vars, tm_task_vars, md5, tm_note_vars, tls_fault, lamp>>

-----------------------------------------------------------------------------
(* The receive task.                                                        *)

\* Deliberate fault: a command to stop is carried out as soon as the lamp was
\* ever started.
CommandRestarts(m) ==
    IF m = "play" THEN FadeStart(lamp, "r", lamp.tasks["r"] < MaxFades)
    ELSE FadeStart(FadeStop(lamp, "r"), "r", TRUE)

\* cloud_cmd_data_hander.
Command(m) ==
    IF m = "play" THEN FadeStart(lamp, "r", lamp.tasks["r"] < MaxFades)
    ELSE FadeStop(lamp, "r")

\* Deliberate fault: the heart beat starts when the token is there.
ParseStartsBeatEarly(c, m) ==
    /\ recv_at' = [recv_at EXCEPT ![c] = CASE m = "welcome" -> "key"
                                           [] m = "token" -> "sign"
                                           [] OTHER -> "read"]
    /\ beat_at' = [beat_at EXCEPT ![c] = IF m = "token" THEN "wait" ELSE @]
    /\ md5' = IF m = "token" THEN "live" ELSE md5
    /\ lamp' = lamp
    /\ UNCHANGED <<last_cmd, repeated>>

\* json_parse: what each method does.  A heart-beat task may be refused.
JsonParse(c, m) ==
    /\ recv_at' = [recv_at EXCEPT ![c] = CASE m = "welcome" -> "key"
                                           [] m = "token" -> "sign"
                                           [] OTHER -> "read"]
    /\ IF m = "checkinok" THEN beat_at' \in {beat_at, [beat_at EXCEPT ![c] = "wait"]}
       ELSE UNCHANGED beat_at
    /\ md5' = IF m = "token" THEN "live" ELSE md5
    /\ IF m \in Commands
       THEN /\ lamp' = Command(m)
            /\ last_cmd' = m /\ repeated' = (repeated \/ last_cmd = m)
       ELSE UNCHANGED <<lamp, last_cmd, repeated>>

\* A read of tcp_receive_task that returns data.  Only the first of the
\* messages that came together is parsed, and one that came in two parts not
\* at all.
ReceiveData(c) ==
    /\ recv_at[c] = "read" /\ sent[c] # <<>>
    /\ tls_fault' = (tls_fault \/ ctx[current] # "live")
    /\ \E n \in 1..Len(sent[c]) :
         sent' = [sent EXCEPT ![c] = SubSeq(@, n + 1, Len(@))]
    /\ \/ JsonParse(c, Head(sent[c]))
       \/ UNCHANGED <<tm_task_vars, md5, lamp, last_cmd, repeated>>
    /\ UNCHANGED <<tm_conn_vars, dialogue, hung_up>>

\* The peer closes: the contexts are freed and the task ends.  After another
\* error, or the end of the stream, the task reads on.
ReceiveClose(c) ==
    /\ recv_at[c] = "read"
    /\ recv_at' = [recv_at EXCEPT ![c] = "gone"]
    /\ Clean
    /\ hung_up' = TRUE
    /\ UNCHANGED <<got_ip, conn_at, current, beat_at, dialogue, sent, md5, last_cmd, repeated, lamp>>

\* tcp_ssl_write of the key (send_device_api_key), or of the sign-in
\* (device_encrypted_sign_in, which then frees the sum): it is written or not.
ReceiveWrites(c) ==
    /\ recv_at[c] \in {"key", "sign"}
    /\ recv_at' = [recv_at EXCEPT ![c] = "read"]
    /\ dialogue' \in {dialogue, [dialogue EXCEPT ![c] = recv_at[c]]}
    /\ md5' = IF recv_at[c] = "sign" THEN "freed" ELSE md5
    /\ tls_fault' = \/ tls_fault \/ ctx[current] # "live"
                    \/ recv_at[c] = "sign" /\ md5 # "live"
    /\ UNCHANGED <<tm_conn_vars, beat_at, sent, tm_note_vars, lamp>>

\* heart_beat_task: tcp_ssl_write and thirty seconds.
HeartBeat(c) ==
    /\ beat_at[c] # "none"
    /\ beat_at' = [beat_at EXCEPT ![c] = IF @ = "wait" THEN "write" ELSE "wait"]
    /\ tls_fault' = (tls_fault \/ ctx[current] # "live")
    /\ UNCHANGED <<tm_conn_vars, recv_at, dialogue, sent, md5, tm_note_vars, lamp>>

TmallNext ==
    /\ ~tls_fault /\ lamp.fault = "none"   \* nothing is said of what follows
    /\ \/ GotIp
       \/ \E c \in Conns :
            \/ AllocateContexts(c) \/ Connect(c) \/ CloudSays(c)
            \/ ReceiveData(c) \/ ReceiveClose(c) \/ ReceiveWrites(c)
            \/ HeartBeat(c)

-----------------------------------------------------------------------------
(* Properties.                                                              *)

Writers == {c \in Conns : recv_at[c] \in {"key", "sign"}} \X {"recv"}
           \cup {c \in Conns : beat_at[c] = "write"} \X {"beat"}

\* With one connection, two tasks never write to the one TLS context at a time,
\* which mbedtls does not allow - the heart beat starts when the dialogue is
\* over - no task uses freed contexts before the peer hangs up, and a
\* connection that is over has left none allocated.
OneTlsUser ==
    got_ip <= 1 =>
        /\ \A w1, w2 \in Writers : w1 = w2
        /\ tls_fault => hung_up
        /\ \A c \in Conns : conn_at[c] = "over" \/ recv_at[c] = "gone" => ctx[c] = "freed"

\* As long as every command that arrives changes something, the red lamp fades
\* after `play' and does not after `stop', and its task can be deleted.
CommandObeyed ==
    ~repeated /\ ~lamp.refused =>
        /\ lamp.fault = "none"
        /\ lamp.tasks["r"] = IF last_cmd = "play" THEN 1 ELSE 0
=============================================================================
