----------------------------- MODULE WifiConnect -----------------------------
(***************************************************************************)
(* The start of the firmware: app_main of main.c, up to the main loop, with *)
(* the connection of wifi_connect.c and the MQTT session it carries.  The  *)
(* main task waits on a semaphore that the WiFi event handlers, which run  *)
(* in a task of their own, give; the semaphore is created after the        *)
(* handlers are registered and the connection is under way.                *)
(***************************************************************************)
EXTENDS Integers

VARIABLES
  pc,         \* what app_main does next
  semaphore,  \* s_semph_get_ip_addrs: its count, NULL before it is created
  wifi,       \* the WiFi driver (external)
  session     \* the MQTT client's session with the broker is up

wifiVars == <<pc, semaphore, wifi, session>>

NULL == -1

WifiTypeOK ==
  /\ pc \in {"Init", "wifi_start", "semaphore", "wait", "mqtt_start", "app_loop"}
  /\ semaphore \in {NULL, 0, 1}
  /\ wifi \in {"off", "connecting", "up"}
  /\ session \in BOOLEAN

WifiInit == pc = "Init" /\ semaphore = NULL /\ wifi = "off" /\ session = FALSE

Goto(from, to) == pc = from /\ pc' = to

-----------------------------------------------------------------------------
(* The main task                                                           *)

\* Init, esp_netif_init and esp_event_loop_create_default.
InitBoard ==
  /\ Goto("Init", "wifi_start")
  /\ UNCHANGED <<semaphore, wifi, session>>

\* wifi_start registers the two handlers and starts to connect.
wifi_start ==
  /\ Goto("wifi_start", "semaphore")
  /\ wifi' = "connecting"
  /\ UNCHANGED <<semaphore, session>>

\* The rest of start: a semaphore that counts to one, for one interface.
CreateSemaphore ==
  /\ Goto("semaphore", "wait")
  /\ semaphore' = 0
  /\ UNCHANGED <<wifi, session>>

\* xSemaphoreTake, without a timeout.
TakeSemaphore ==
  /\ semaphore > 0
  /\ Goto("wait", "mqtt_start")
  /\ semaphore' = semaphore - 1
  /\ UNCHANGED <<wifi, session>>

mqtt_start ==
  /\ Goto("mqtt_start", "app_loop")
  /\ UNCHANGED <<semaphore, wifi, session>>

Start == InitBoard \/ wifi_start \/ CreateSemaphore \/ TakeSemaphore \/ mqtt_start

-----------------------------------------------------------------------------
(* The event tasks                                                         *)

\* Mutant: giving no semaphore does nothing.
GotIpTolerant ==
  /\ wifi # "off"
  /\ wifi' = "up"
  /\ semaphore' = IF semaphore = NULL THEN NULL ELSE 1
  /\ UNCHANGED <<pc, session>>

\* Mutant: the semaphore counts every address.
GotIpCounts ==
  /\ wifi # "off"
  /\ semaphore # NULL
  /\ wifi' = "up"
  /\ semaphore' = semaphore + 1
  /\ UNCHANGED <<pc, session>>

\* The first address, or one renewed.  Giving a semaphore that is full fails.
on_got_ip ==
  /\ wifi # "off"
  /\ semaphore # NULL
  /\ wifi' = "up"
  /\ semaphore' = 1
  /\ UNCHANGED <<pc, session>>

\* The handler asks the driver to connect again.  (The session is noticed to
\* be dead only later.)
on_wifi_disconnect ==
  /\ wifi # "off"
  /\ wifi' = "connecting"
  /\ UNCHANGED <<pc, semaphore, session>>

\* The client connects to the broker again and again once it is started; the
\* handler of MQTT_EVENT_CONNECTED subscribes to all topics.
mqtt_connected ==
  /\ pc = "app_loop" /\ wifi = "up" /\ ~session
  /\ session' = TRUE
  /\ UNCHANGED <<pc, semaphore, wifi>>

mqtt_disconnected ==
  /\ session
  /\ session' = FALSE
  /\ UNCHANGED <<pc, semaphore, wifi>>

Events == on_got_ip \/ on_wifi_disconnect \/ mqtt_connected \/ mqtt_disconnected

\* A reset or a power cycle, and the abort that ends the firmware when an
\* address comes before the semaphore is there (xSemaphoreGive asserts that
\* it is not NULL) or when ESP_ERROR_CHECK finds an error in a handler.
WifiRestart ==
  pc' = "Init" /\ semaphore' = NULL /\ wifi' = "off" /\ session' = FALSE

\* What reaches the broker: the session is up, and so is the link below it.
Delivered == session /\ wifi = "up"

-----------------------------------------------------------------------------
(* Properties                                                              *)

\* No wake-up is lost between the WiFi event task and app_main: while it
\* waits for an address with the link up, the semaphore has been given, in
\* spite of its late creation in start.
NoLostAddress == pc = "wait" /\ wifi = "up" => semaphore = 1

=============================================================================
