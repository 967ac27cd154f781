------------------------------ MODULE Requests ------------------------------
(***************************************************************************)
(* The three programs that answer single requests: the web server, the UDP *)
(* calculator with its clients, the TCP calculator.  `program` says which  *)
(* of them runs, the variables of the others keep their initial values.    *)
(***************************************************************************)
EXTENDS Naturals

CONSTANTS Browser, Page, Inode, NoFile, MaxLen, DirLen, \* of WebServer
          MinProc, MaxProc, MaxChanges, MaxStops,
          Calculating, UdpQuestion, Half, MaxDups, MaxLosses, \* of UdpCalculator
          TcpRequest, Base, MaxServed                   \* of TcpCalculator

VARIABLES program,
          w_parent, w_backlog, browser, w_asked, w_pc, page, fd, status, length, body,
          whole, touched, dir, len, changes, w_stops,
          u_client, u_asked, shown, questions, answers, cal_result, source, dead, dups, losses,
          rdata, t_cal_result, t_served

Web == INSTANCE WebServer WITH
  Client <- Browser, parent <- w_parent, backlog <- w_backlog, client <- browser,
  asked <- w_asked, pc <- w_pc, stops <- w_stops
Udp == INSTANCE UdpCalculator WITH
  Client <- Calculating, Question <- UdpQuestion, client <- u_client, asked <- u_asked
Tcp == INSTANCE TcpCalculator WITH
  Request <- TcpRequest, cal_result <- t_cal_result, served <- t_served

ASSUME RequestsAssumption ==
  Web!WebAssumption /\ Udp!CalcAssumption /\ Tcp!TcpCalcAssumption

w_vars == <<w_parent, w_backlog, browser, w_asked, w_pc, page, fd, status, length, body,
            whole, touched, dir, len, changes, w_stops>>
u_vars == <<u_client, u_asked, shown, questions, answers, cal_result, source, dead, dups, losses>>
t_vars == <<rdata, t_cal_result, t_served>>
requests == <<program, w_vars, u_vars, t_vars>>

RequestsInit ==
  /\ program \in {"web_server", "calc_linux", "cal_server"}
  /\ Web!Init /\ Udp!Init /\ Tcp!Init

RequestsNext ==
  /\ UNCHANGED program
  /\ \/ program = "web_server" /\ Web!Next /\ UNCHANGED <<u_vars, t_vars>>
     \/ program = "calc_linux" /\ Udp!Next /\ UNCHANGED <<w_vars, t_vars>>
     \/ program = "cal_server" /\ Tcp!Next /\ UNCHANGED <<w_vars, u_vars>>

\* The fairness of each program, for the one that runs.
RequestsFairness ==
  /\ WF_w_vars(program = "web_server" /\ (Web!Accept \/ Web!ForkFails))
  /\ \A c \in Browser : WF_w_vars(program = "web_server" /\ Web!ChildStep(c))
  /\ \A c \in Calculating :
       /\ WF_u_vars(program = "calc_linux" /\ Udp!Serve(c))
       /\ WF_u_vars(program = "calc_linux" /\ Udp!Show(c))

RequestsSpec == RequestsInit /\ [][RequestsNext]_requests /\ RequestsFairness

-----------------------------------------------------------------------------
\* What the three programs send: the web server's pages and their length, the
\* UDP server's answers and who is shown them, the TCP server's results.
RequestsInv == Web!Inv /\ Udp!Inv /\ Tcp!Inv

\* Who waits for a web server whose parent has gone is never answered, although
\* the children keep the port.
OrphansNeverServed == Web!OrphansNeverServed

\* Every page that a running web server is asked for is answered.
WebAnswered == program = "web_server" => Web!Answered

\* A UDP client waits for ever exactly if it has lost what was not duplicated.
UdpWaiting == Udp!LostForGood /\ (program = "calc_linux" => Udp!Answered)
=============================================================================
